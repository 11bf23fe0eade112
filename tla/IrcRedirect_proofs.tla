-------------------------- MODULE IrcRedirect_proofs --------------------------
(***************************************************************************)
(* Proofs about IrcRedirect, for any patterns, any number of questions and *)
(* any priorities, timeouts and losses; what a server answers is assumed   *)
(* well formed where it matters.  Four parts: the types; Paired, on the    *)
(* pointers of the queues; Owned, on the answers that have a string of     *)
(* their own; Orders, on those that only their order tells apart.          *)
(***************************************************************************)
EXTENDS IrcRedirect, SequenceTheorems, WellFoundedInduction, TLAPS

-----------------------------------------------------------------------------
(* Type correctness                                                        *)

(***************************************************************************)
(* A column of the table is a set of replies.                              *)
(***************************************************************************)
LEMMA TableFacts ==
  ASSUME NEW p \in Pattern
  PROVE  /\ Table[p].start \subseteq Reply /\ Table[p].stop \subseteq Reply
         /\ Table[p].extra \subseteq Reply /\ Table[p].loose \subseteq Reply
         /\ Table[p].counts \subseteq Nat \ {0}
         /\ Table[p].answers \subseteq Seq(Reply)
         /\ Table[p]["start"] = Table[p].start
         /\ Table[p]["stop"] = Table[p].stop
         /\ Table[p]["extra"] = Table[p].extra
  BY RedirectAssumption

LEMMA NewType ==
  ASSUME NEW p \in Pattern, NEW n \in Nat \ {0}
  PROVE  /\ New(p, n) \in Redirect /\ New(p, n).count = n
         /\ New(p, n).current = 1 /\ New(p, n).state = "available"
         /\ New(p, n).pattern = p /\ New(p, n).output = <<>>
         /\ ~New(p, n).started
  BY DEF New, Redirect

(***************************************************************************)
(* Attaching a command to a redirection, and sending it, change its state  *)
(* and its command, and nothing of the others.                             *)
(***************************************************************************)
Moved(new, rs, r, state) ==
  /\ new \in [Question -> Redirect]
  /\ \A x \in Question :
       /\ new[x].count = rs[x].count
       /\ new[x].current = rs[x].current
       /\ new[x].pattern = rs[x].pattern
       /\ new[x].output = rs[x].output
       /\ new[x].started = rs[x].started
       /\ new[x].stopped = rs[x].stopped
       /\ x # r => new[x].state = rs[x].state
  /\ r # 0 => new[r].state = state

LEMMA MovedOne ==
  ASSUME NEW rs \in [Question -> Redirect], NEW r \in Question,
         NEW new, NEW one, NEW state \in {"assigned", "sent"},
         NEW c \in Question \union {0},
         one = [rs[r] EXCEPT !.state = state, !.command = c],
         new = [rs EXCEPT ![r] = one]
  PROVE  Moved(new, rs, r, state)
  <1>1. rs[r] \in Redirect
    OBVIOUS
  <1>2. one \in Redirect
    BY <1>1, ZenonT(60) DEF Redirect
  <1>3. /\ one.count = rs[r].count /\ one.current = rs[r].current
        /\ one.pattern = rs[r].pattern /\ one.output = rs[r].output
        /\ one.started = rs[r].started /\ one.stopped = rs[r].stopped
        /\ one.state = state
    BY <1>1 DEF Redirect
  <1>4. new \in [Question -> Redirect]
    BY <1>2
  <1>5. new[r] = one /\ \A x \in Question : x # r => new[x] = rs[x]
    OBVIOUS
  <1>6. QED
    BY <1>3, <1>4, <1>5 DEF Moved

LEMMA AttachType ==
  ASSUME NEW rs \in [Question -> Redirect], NEW r \in Question \union {0}
  PROVE  Moved(Assign(rs, r), rs, r, "assigned")
  <1>1. CASE r = 0
    BY <1>1 DEF Assign, Moved
  <1>2. CASE r # 0
    <2> DEFINE one == [rs[r] EXCEPT !.state = "assigned",
                                    !.command = rs[r].command]
    <2>1. r \in Question /\ rs[r] \in Redirect
      BY <1>2
    <2>2. rs[r].command \in Question \union {0}
      BY <2>1 DEF Redirect
    <2>3. one = [rs[r] EXCEPT !.state = "assigned"]
      BY <2>1 DEF Redirect
    <2>4. Assign(rs, r) = [rs EXCEPT ![r] = one]
      BY <1>2, <2>3 DEF Assign
    <2>5. one = [rs[r] EXCEPT !.state = "assigned", !.command = rs[r].command]
      OBVIOUS
    <2> HIDE DEF one
    <2>6. QED
      BY <2>1, <2>2, <2>4, <2>5, MovedOne
  <1>3. QED
    BY <1>1, <1>2

LEMMA StartType ==
  ASSUME NEW rs \in [Question -> Redirect], NEW r \in Question \union {0},
         NEW q \in Question
  PROVE  Moved(InitCommand(rs, r, q), rs, r, "sent")
  <1>1. CASE r = 0
    BY <1>1 DEF InitCommand, Moved
  <1>2. CASE r # 0
    <2> DEFINE one == [rs[r] EXCEPT !.state = "sent", !.command = q]
    <2>1. r \in Question /\ q \in Question \union {0}
      BY <1>2
    <2>2. InitCommand(rs, r, q) = [rs EXCEPT ![r] = one]
      BY <1>2 DEF InitCommand
    <2>3. one = [rs[r] EXCEPT !.state = "sent", !.command = q]
      OBVIOUS
    <2> HIDE DEF one
    <2>4. QED
      BY <2>1, <2>2, <2>3, MovedOne
  <1>3. QED
    BY <1>1, <1>2

(***************************************************************************)
(* What the server says.                                                   *)
(***************************************************************************)
LEMMA AnswerType ==
  ASSUME NEW p \in Pattern, NEW n \in Nat \ {0}, NEW a \in Answers(p, n)
  PROVE  a \in Seq(Reply)
  <1>1. Table[p].answers \subseteq Seq(Reply)
    BY TableFacts
  <1>2. \A b, c \in Seq(Reply) : b \o c \in Seq(Reply)
    BY ConcatProperties
  <1>3. CASE n = 1
    BY <1>1, <1>3 DEF Answers
  <1>4. CASE n # 1
    <2>1. \E b, c \in Table[p].answers : a = b \o c
      BY <1>4 DEF Answers
    <2>2. QED
      BY <1>1, <1>2, <2>1
  <1>5. QED
    BY <1>3, <1>4

LEMMA ReachesType ==
  ASSUME NEW q \in Question, NEW p \in Pattern, NEW n \in Nat \ {0},
         wire \in Seq(Message), said \in [Question -> Seq(Reply)],
         Reaches(q, p, n)
  PROVE  wire' \in Seq(Message) /\ said' \in [Question -> Seq(Reply)]
  <1>1. CASE UNCHANGED <<said, wire>>
    BY <1>1
  <1>2. ASSUME NEW a \in Answers(p, n),
               said' = [said EXCEPT ![q] = a],
               wire' = wire \o [i \in 1 .. Len(a) |-> [kind |-> a[i], of |-> q]]
        PROVE  wire' \in Seq(Message) /\ said' \in [Question -> Seq(Reply)]
    <2> DEFINE t == [i \in 1 .. Len(a) |-> [kind |-> a[i], of |-> q]]
    <2>1. a \in Seq(Reply)
      BY AnswerType
    <2>2. Len(a) \in Nat /\ \A i \in 1 .. Len(a) : a[i] \in Reply
      BY <2>1, ElementOfSeq
    <2>3. \A i \in 1 .. Len(a) : [kind |-> a[i], of |-> q] \in Message
      BY <2>2 DEF Message
    <2>4. t \in Seq(Message)
      BY <2>2, <2>3, IsASeq
    <2>5. wire \o t \in Seq(Message)
      BY <2>4, ConcatProperties
    <2>6. QED
      BY <1>2, <2>1, <2>5
  <1>3. QED
    BY <1>1, <1>2 DEF Reaches

(***************************************************************************)
(* What a message does to the redirections.                                *)
(***************************************************************************)
LEMMA AfterType ==
  ASSUME redirect \in [Question -> Redirect], NEW m \in Message,
         NEW q \in Question
  PROVE  /\ After(q, m) \in Redirect
         /\ After(q, m).state = redirect[q].state
         /\ After(q, m).pattern = redirect[q].pattern
         /\ After(q, m).count = redirect[q].count
         /\ After(q, m).command = redirect[q].command
         /\ After(q, m).current = IF Stops(q, m) THEN redirect[q].current + 1
                                  ELSE redirect[q].current
  <1> DEFINE out == IF IsTaker(q, m) THEN Added(q, m)
                    ELSE redirect[q].output
  <1>1. redirect[q] \in Redirect /\ redirect[q].current \in Nat
    BY DEF Redirect
  <1>2. Added(q, m) \in Seq(Message)
    BY <1>1 DEF Added, Redirect
  <1>3. out \in Seq(Message)
    BY <1>1, <1>2 DEF Redirect
  <1>4. Begins(q, m) \in BOOLEAN /\ Match(q, m, "stop") \in BOOLEAN
    BY DEF Begins, Match
  <1> HIDE DEF out
  <1>5. CASE Stops(q, m)
    <2> DEFINE k == redirect[q].current + 1
    <2>1. After(q, m) =
            [redirect[q] EXCEPT !.output = out, !.current = k,
                                !.started = FALSE, !.stopped = FALSE]
      BY <1>1, <1>5 DEF After, out, Redirect
    <2>2. k \in Nat
      BY <1>1
    <2>3. /\ After(q, m) \in Redirect
          /\ After(q, m).state = redirect[q].state
          /\ After(q, m).pattern = redirect[q].pattern
          /\ After(q, m).count = redirect[q].count
          /\ After(q, m).command = redirect[q].command
          /\ After(q, m).current = k
      <3> HIDE DEF k
      <3>1. QED
        BY <1>1, <1>3, <2>1, <2>2 DEF Redirect
    <2>4. QED
      BY <1>5, <2>3
  <1>6. CASE ~Stops(q, m) /\ IsTaker(q, m)
    <2> DEFINE b == redirect[q].started \/ Begins(q, m)
               c == ~Begins(q, m) /\ Match(q, m, "stop")
    <2>1. After(q, m) =
            [redirect[q] EXCEPT !.output = out, !.started = b, !.stopped = c]
      BY <1>6 DEF After, out
    <2>2. b \in BOOLEAN /\ c \in BOOLEAN
      OBVIOUS
    <2> HIDE DEF b, c
    <2>3. QED
      BY <1>1, <1>3, <1>6, <2>1, <2>2 DEF Redirect
  <1>7. CASE ~Stops(q, m) /\ ~IsTaker(q, m)
    BY <1>1, <1>7 DEF After
  <1>8. QED
    BY <1>5, <1>6, <1>7

LEMMA MessageType ==
  ASSUME TypeOK, NEW m \in Message, RedirectMessage(m)
  PROVE  /\ list' \subseteq 1 .. issued'
         /\ redirect' \in [Question -> Redirect]
         /\ \A q \in list' : redirect'[q].current <= redirect'[q].count
         /\ ended' \subseteq Question
  <1>1. list \subseteq Question
    BY RedirectAssumption DEF TypeOK, Question
  <1>2. redirect' = [q \in Question |-> After(q, m)]
    BY DEF RedirectMessage
  <1>3. redirect' \in [Question -> Redirect]
    BY <1>2, AfterType DEF TypeOK
  <1>4. ASSUME NEW q \in list'
        PROVE  redirect'[q].current <= redirect'[q].count
    <2>1. q \in list /\ q \in Question /\ q \notin Removed(m)
      BY <1>1, <1>4 DEF RedirectMessage
    <2>2. redirect[q] \in Redirect /\ redirect[q].current <= redirect[q].count
      BY <2>1 DEF TypeOK
    <2>3. redirect[q].current \in Nat /\ redirect[q].count \in Nat
      BY <2>2 DEF Redirect
    <2>4. /\ redirect'[q].count = redirect[q].count
          /\ redirect'[q].current = IF Stops(q, m) THEN redirect[q].current + 1
                                    ELSE redirect[q].current
      BY <1>2, <2>1, AfterType DEF TypeOK
    <2>5. Stops(q, m) => redirect[q].current + 1 <= redirect[q].count
      BY <2>1, <2>3 DEF Removed, IsLast
    <2>6. QED
      BY <2>2, <2>3, <2>4, <2>5
  <1>5. QED
    BY <1>1, <1>3, <1>4 DEF RedirectMessage, Removed, TypeOK

(***************************************************************************)
(* The three ways a question goes: dropped, queued, sent at once.          *)
(***************************************************************************)
Fresh(p, n) == [redirect EXCEPT ![issued + 1] = New(p, n)]

LEMMA AskFacts ==
  ASSUME TypeOK, NEW p \in Pattern, NEW n \in Nat \ {0}, NEW prio \in Prio,
         NEW f \in BOOLEAN, Ask(p, n, prio, f)
  PROVE  /\ issued + 1 \in Question /\ issued' = issued + 1
         /\ issued + 1 \notin list
         /\ list' \subseteq list \union {issued + 1} /\ list \subseteq list'
         /\ list' \subseteq 1 .. issued' /\ list' \subseteq Question
         /\ Fresh(p, n) \in [Question -> Redirect]
         /\ \A q \in Question : q # issued + 1 =>
              Fresh(p, n)[q] = redirect[q]
         /\ Fresh(p, n)[issued + 1] = New(p, n)
         /\ \A q \in list' : Fresh(p, n)[q].current <= Fresh(p, n)[q].count
         /\ UNCHANGED <<up, ended>>
         /\ \/ /\ redirect' = Fresh(p, n)
               /\ UNCHANGED <<outqueue, wire, said>>
            \/ \E r \in list' \union {0} :
               /\ prio \in Queue /\ IsAvailable(r, list', Fresh(p, n))
               /\ Enqueue(prio, issued + 1, r)
               /\ redirect' = Assign(Fresh(p, n), r)
               /\ UNCHANGED <<wire, said>>
            \/ \E r \in list' \union {0} :
               /\ IsAvailable(r, list', Fresh(p, n))
               /\ redirect' = InitCommand(Fresh(p, n), r, issued + 1)
               /\ Reaches(issued + 1, p, n)
               /\ UNCHANGED outqueue
  <1>1. /\ issued \in Nat /\ issued < MaxQuestions /\ MaxQuestions \in Nat
        /\ issued' = issued + 1
    BY RedirectAssumption DEF Ask, TypeOK
  <1>2. issued + 1 \in Question /\ issued + 1 \notin list
    BY <1>1 DEF Question, TypeOK
  <1>3. list' = IF f THEN list \union {issued + 1} ELSE list
    BY DEF Ask
  <1>4. /\ list' \subseteq list \union {issued + 1} /\ list \subseteq list'
        /\ list' \subseteq 1 .. issued' /\ list' \subseteq Question
    BY <1>1, <1>3 DEF TypeOK, Question
  <1>5. /\ Fresh(p, n) \in [Question -> Redirect]
        /\ \A q \in Question : q # issued + 1 =>
             Fresh(p, n)[q] = redirect[q]
        /\ Fresh(p, n)[issued + 1] = New(p, n)
    BY <1>2, NewType DEF Fresh, TypeOK
  <1>6. ASSUME NEW q \in list'
        PROVE  Fresh(p, n)[q].current <= Fresh(p, n)[q].count
    <2>1. CASE q = issued + 1
      BY <1>5, <2>1, NewType
    <2>2. CASE q # issued + 1
      BY <1>4, <1>5, <2>2 DEF TypeOK
    <2>3. QED
      BY <2>1, <2>2
  <1>7. \/ /\ redirect' = Fresh(p, n)
           /\ UNCHANGED <<outqueue, wire, said>>
        \/ \E r \in list' \union {0} :
           /\ prio \in Queue /\ IsAvailable(r, list', Fresh(p, n))
           /\ Enqueue(prio, issued + 1, r)
           /\ redirect' = Assign(Fresh(p, n), r)
           /\ UNCHANGED <<wire, said>>
        \/ \E r \in list' \union {0} :
           /\ IsAvailable(r, list', Fresh(p, n))
           /\ redirect' = InitCommand(Fresh(p, n), r, issued + 1)
           /\ Reaches(issued + 1, p, n)
           /\ UNCHANGED outqueue
    BY <1>3 DEF Ask, Fresh, Queue
  <1>8. UNCHANGED <<up, ended>>
    BY DEF Ask
  <1>9. QED
    BY <1>1, <1>2, <1>4, <1>5, <1>6, <1>7, <1>8

\* One command more in one queue.
Longer(prio, e) ==
  /\ \A p \in Queue : p # prio => outqueue'[p] = outqueue[p]
  /\ Len(outqueue[prio]) \in Nat
  /\ Len(outqueue'[prio]) = Len(outqueue[prio]) + 1
  /\ \A i \in 1 .. Len(outqueue[prio]) :
       outqueue'[prio][i] = outqueue[prio][i]
  /\ outqueue'[prio][Len(outqueue[prio]) + 1] = e

LEMMA EnqueueType ==
  ASSUME outqueue \in [Queue -> Seq(Entry)], NEW prio \in Queue,
         NEW q \in Question, NEW r \in Question \union {0},
         Enqueue(prio, q, r)
  PROVE  /\ outqueue' \in [Queue -> Seq(Entry)]
         /\ Longer(prio, [question |-> q, redirect |-> r])
  <1> DEFINE e == [question |-> q, redirect |-> r]
             s == outqueue[prio]
  <1>1. e \in Entry /\ s \in Seq(Entry)
    BY DEF Entry
  <1>2. outqueue' = [outqueue EXCEPT ![prio] = Append(s, e)]
    BY DEF Enqueue
  <1> HIDE DEF e, s
  <1>3. /\ Append(s, e) \in Seq(Entry) /\ Len(s) \in Nat
        /\ Len(Append(s, e)) = Len(s) + 1
        /\ \A i \in 1 .. Len(s) : Append(s, e)[i] = s[i]
        /\ Append(s, e)[Len(s) + 1] = e
    BY <1>1, AppendProperties
  <1>4. QED
    BY <1>2, <1>3 DEF e, s, Longer

-----------------------------------------------------------------------------

LEMMA InitTypeOK == Init => TypeOK
  <1> SUFFICES ASSUME Init PROVE TypeOK
    OBVIOUS
  <1>1. PICK p \in Pattern : redirect = [q \in Question |-> New(p, 1)]
    <2>1. (CHOOSE p \in Pattern : TRUE) \in Pattern
      BY RedirectAssumption
    <2>2. QED
      BY <2>1 DEF Init
  <1>2. redirect \in [Question -> Redirect]
    BY <1>1, NewType
  <1>3. NoQueue \in [Queue -> Seq(Entry)] /\ outqueue = NoQueue
    BY EmptySeq DEF NoQueue, Init
  <1>4. wire \in Seq(Message) /\ said \in [Question -> Seq(Reply)]
    BY EmptySeq DEF Init
  <1>5. up \in BOOLEAN /\ issued = 0 /\ list = {} /\ ended = {}
    BY DEF Init
  <1>6. MaxQuestions \in Nat
    BY RedirectAssumption
  <1>7. QED
    BY <1>2, <1>3, <1>4, <1>5, <1>6 DEF TypeOK

LEMMA StepTypeOK == TypeOK /\ [Next]_vars => TypeOK'
  <1> SUFFICES ASSUME TypeOK, [Next]_vars PROVE TypeOK'
    OBVIOUS
  <1>0. MaxQuestions \in Nat /\ list \subseteq Question
    BY RedirectAssumption DEF TypeOK, Question
  <1>1. ASSUME NEW p \in Pattern, NEW n \in Nat \ {0}, NEW prio \in Prio,
               NEW f \in BOOLEAN, Ask(p, n, prio, f)
        PROVE  TypeOK'
    <2>1. /\ issued + 1 \in Question /\ issued' = issued + 1
          /\ list' \subseteq 1 .. issued' /\ list' \subseteq Question
          /\ Fresh(p, n) \in [Question -> Redirect]
          /\ \A q \in list' : Fresh(p, n)[q].current <= Fresh(p, n)[q].count
          /\ UNCHANGED <<up, ended>>
      BY <1>1, AskFacts
    <2>2. issued' \in 0 .. MaxQuestions
      BY <1>0, <2>1 DEF Question
    <2>3. CASE redirect' = Fresh(p, n) /\ UNCHANGED <<outqueue, wire, said>>
      BY <2>1, <2>2, <2>3 DEF TypeOK
    <2>4. ASSUME NEW r \in list' \union {0}, prio \in Queue,
                 Enqueue(prio, issued + 1, r),
                 redirect' = Assign(Fresh(p, n), r),
                 UNCHANGED <<wire, said>>
          PROVE  TypeOK'
      <3>1. r \in Question \union {0}
        BY <2>1
      <3>2. outqueue' \in [Queue -> Seq(Entry)]
        BY <2>1, <2>4, <3>1, EnqueueType DEF TypeOK
      <3>3. Moved(redirect', Fresh(p, n), r, "assigned")
        BY <2>1, <2>4, <3>1, AttachType
      <3>4. /\ redirect' \in [Question -> Redirect]
            /\ \A q \in list' : redirect'[q].current <= redirect'[q].count
        BY <2>1, <3>3 DEF Moved
      <3>5. QED
        BY <2>1, <2>2, <2>4, <3>2, <3>4 DEF TypeOK
    <2>5. ASSUME NEW r \in list' \union {0},
                 redirect' = InitCommand(Fresh(p, n), r, issued + 1),
                 Reaches(issued + 1, p, n), UNCHANGED outqueue
          PROVE  TypeOK'
      <3>1. r \in Question \union {0}
        BY <2>1
      <3>2. wire' \in Seq(Message) /\ said' \in [Question -> Seq(Reply)]
        BY <2>1, <2>5, ReachesType DEF TypeOK
      <3>3. Moved(redirect', Fresh(p, n), r, "sent")
        BY <2>1, <2>5, <3>1, StartType
      <3>4. /\ redirect' \in [Question -> Redirect]
            /\ \A q \in list' : redirect'[q].current <= redirect'[q].count
        BY <2>1, <3>3 DEF Moved
      <3>5. QED
        BY <2>1, <2>2, <2>5, <3>2, <3>4 DEF TypeOK
    <2>6. QED
      BY <1>1, <2>3, <2>4, <2>5, AskFacts
  <1>2. CASE AskRedirected
    <2>1. PICK p \in Pattern, prio \in Prio :
            \E n \in Table[p].counts : Ask(p, n, prio, TRUE)
      BY <1>2 DEF AskRedirected
    <2>2. Table[p].counts \subseteq Nat \ {0}
      BY TableFacts
    <2>3. QED
      BY <1>1, <2>1, <2>2
  <1>3. CASE AskPlain
    <2>1. PICK p \in Plain, prio \in Prio : Ask(p, 1, prio, FALSE)
      BY <1>3 DEF AskPlain
    <2>2. p \in Pattern /\ 1 \in Nat \ {0} /\ FALSE \in BOOLEAN
      BY RedirectAssumption
    <2>3. QED
      BY <1>1, <2>1, <2>2
  <1>4. CASE SendQueued
    <2>1. PICK p \in Queue :
            /\ outqueue[p] # <<>>
            /\ redirect' = InitCommand(redirect, Head(outqueue[p]).redirect,
                                       Head(outqueue[p]).question)
            /\ Reaches(Head(outqueue[p]).question,
                       redirect[Head(outqueue[p]).question].pattern,
                       redirect[Head(outqueue[p]).question].count)
            /\ outqueue' = [outqueue EXCEPT ![p] = Tail(@)]
            /\ UNCHANGED <<up, list, issued, ended>>
      BY <1>4 DEF SendQueued
    <2>2. Head(outqueue[p]) \in Entry /\ Tail(outqueue[p]) \in Seq(Entry)
      BY <2>1, HeadTailProperties DEF TypeOK
    <2>3. PICK q \in Question, r \in Question \union {0} :
            Head(outqueue[p]).question = q /\ Head(outqueue[p]).redirect = r
      BY <2>2 DEF Entry
    <2>4. redirect[q].pattern \in Pattern /\ redirect[q].count \in Nat \ {0}
      BY DEF TypeOK, Redirect
    <2>5. wire' \in Seq(Message) /\ said' \in [Question -> Seq(Reply)]
      BY <2>1, <2>3, <2>4, ReachesType DEF TypeOK
    <2>6. /\ redirect' \in [Question -> Redirect]
          /\ \A x \in Question :
               /\ redirect'[x].current = redirect[x].current
               /\ redirect'[x].count = redirect[x].count
      <3>1. redirect' = InitCommand(redirect, r, q)
        BY <2>1, <2>3
      <3>2. redirect \in [Question -> Redirect]
        BY DEF TypeOK
      <3>3. Moved(redirect', redirect, r, "sent")
        BY <2>3, <3>1, <3>2, StartType
      <3>4. QED
        BY <3>3 DEF Moved
    <2>7. \A x \in list' : redirect'[x].current <= redirect'[x].count
      BY <1>0, <2>1, <2>6 DEF TypeOK
    <2>8. outqueue' \in [Queue -> Seq(Entry)]
      BY <2>1, <2>2 DEF TypeOK
    <2>9. QED
      BY <2>1, <2>5, <2>6, <2>7, <2>8 DEF TypeOK
  <1>5. ASSUME NEW m \in Message, RedirectMessage(m), wire' \in Seq(Message)
        PROVE  TypeOK'
    <2>1. UNCHANGED <<up, outqueue, issued, said>>
      BY <1>5 DEF RedirectMessage
    <2>2. QED
      BY <1>5, <2>1, MessageType DEF TypeOK
  <1>6. CASE Receive
    <2>1. Head(wire) \in Message /\ Tail(wire) \in Seq(Message)
      BY <1>6, HeadTailProperties DEF Receive, TypeOK
    <2>2. QED
      BY <1>5, <1>6, <2>1 DEF Receive
  <1>7. CASE ReceiveNoise
    <2>1. [kind |-> Noise, of |-> 0] \in Message
      BY DEF Message
    <2>2. QED
      BY <1>5, <1>7, <2>1 DEF ReceiveNoise, TypeOK
  <1>8. ASSUME NEW q \in Question, Timeout(q)
        PROVE  TypeOK'
    BY <1>8 DEF Timeout, TypeOK
  <1>9. CASE Disconnect \/ Reconnect \/ DeleteQueues
    <2>1. NoQueue \in [Queue -> Seq(Entry)] /\ <<>> \in Seq(Message)
      BY EmptySeq DEF NoQueue
    <2>2. QED
      BY <1>9, <2>1 DEF Disconnect, Reconnect, DeleteQueues, TypeOK
  <1>10. CASE UNCHANGED vars
    BY <1>10 DEF vars, TypeOK
  <1>11. QED
    BY <1>2, <1>3, <1>4, <1>6, <1>7, <1>8, <1>9, <1>10 DEF Next, TimerCheck

(***************************************************************************)
(* Type correctness of the redirections, for every behaviour of the users, *)
(* of the server and of the timer.                                         *)
(***************************************************************************)
THEOREM TypeCorrect == Spec => []TypeOK
  <1>1. Init => TypeOK
    BY InitTypeOK
  <1>2. TypeOK /\ [Next]_vars => TypeOK'
    BY StepTypeOK
  <1>3. QED
    BY <1>1, <1>2, PTL DEF Spec

-----------------------------------------------------------------------------
(* The pointers of the queues                                              *)

\* The messages of the queues are questions that were asked.
Asked ==
  \A p \in Queue : \A i \in 1 .. Len(outqueue[p]) :
    outqueue[p][i].question <= issued

Paired == TypeOK /\ QueuePairs /\ Asked

LEMMA InitPaired == Init => Paired
  <1> SUFFICES ASSUME Init PROVE Paired
    OBVIOUS
  <1>1. TypeOK
    BY InitTypeOK
  <1>2. \A p \in Queue : outqueue[p] = <<>>
    BY DEF Init
  <1>3. \A p \in Queue : 1 .. Len(outqueue[p]) = {}
    BY <1>2
  <1>4. QED
    BY <1>1, <1>3 DEF Paired, QueuePairs, Asked

(***************************************************************************)
(* Pairs are kept when the queues are, if the redirections that wait are.  *)
(***************************************************************************)
LEMMA PairsKept ==
  ASSUME Paired, TypeOK', UNCHANGED outqueue, issued <= issued',
         \A q \in list : redirect[q].state = "assigned" =>
            q \in list' /\ redirect'[q].state = "assigned"
  PROVE  Paired'
  <1>1. QueuePairs'
    <2>1. QueuePairs
      BY DEF Paired
    <2>2. ASSUME NEW p \in Queue, NEW i \in 1 .. Len(outqueue[p]),
                 outqueue[p][i].redirect # 0
          PROVE  /\ outqueue[p][i].redirect \in list'
                 /\ redirect'[outqueue[p][i].redirect].state = "assigned"
      BY <2>1, <2>2 DEF QueuePairs
    <2>3. ASSUME NEW p \in Queue, NEW i \in 1 .. Len(outqueue[p]),
                 NEW s \in Queue, NEW j \in 1 .. Len(outqueue[s]),
                 outqueue[p][i].redirect # 0,
                 outqueue[s][j].redirect = outqueue[p][i].redirect
          PROVE  s = p /\ j = i
      BY <2>1, <2>3 DEF QueuePairs
    <2>4. QED
      BY <2>2, <2>3 DEF QueuePairs
  <1>2. ASSUME NEW p \in Queue, NEW i \in 1 .. Len(outqueue[p])
        PROVE  outqueue[p][i].question <= issued'
    <2>1. outqueue[p] \in Seq(Entry)
      BY DEF Paired, TypeOK
    <2>2. outqueue[p][i] \in Entry
      BY <2>1, ElementOfSeq
    <2>3. outqueue[p][i].question \in Question
      BY <2>2 DEF Entry
    <2>4. outqueue[p][i].question \in Nat
      BY <2>3 DEF Question
    <2>5. issued \in Nat /\ issued' \in Nat
      BY DEF Paired, TypeOK
    <2>6. outqueue[p][i].question <= issued
      BY DEF Paired, Asked
    <2>7. QED
      BY <2>4, <2>5, <2>6
  <1>3. QED
    BY <1>1, <1>2 DEF Paired, Asked

LEMMA PairsEmpty ==
  ASSUME TypeOK', outqueue' = NoQueue
  PROVE  Paired'
  <1>1. \A p \in Queue : 1 .. Len(outqueue'[p]) = {}
    BY DEF NoQueue
  <1>2. QED
    BY <1>1 DEF Paired, QueuePairs, Asked

LEMMA PairsAsk ==
  ASSUME Paired, TypeOK', NEW p \in Pattern, NEW n \in Nat \ {0},
         NEW prio \in Prio, NEW f \in BOOLEAN, Ask(p, n, prio, f)
  PROVE  Paired'
  <1> DEFINE q == issued + 1
             fresh == Fresh(p, n)
  <1>1. /\ q \in Question /\ issued' = q /\ q \notin list
        /\ list \subseteq list' /\ list' \subseteq Question
        /\ fresh \in [Question -> Redirect]
        /\ \A x \in Question : x # q => fresh[x] = redirect[x]
    BY AskFacts DEF Paired
  <1>2. issued \in Nat /\ issued' \in Nat /\ issued <= issued'
    BY <1>1 DEF Paired, TypeOK
  <1>3. \A x \in list : redirect[x].state = "assigned" =>
          x \in list' /\ fresh[x].state = "assigned"
    BY <1>1
  <1> HIDE DEF fresh, q
  <1>4. CASE redirect' = fresh /\ UNCHANGED outqueue
    BY <1>2, <1>3, <1>4, PairsKept
  <1>5. ASSUME NEW r \in list' \union {0}, IsAvailable(r, list', fresh)
        PROVE  /\ r \in Question \union {0}
               /\ r # 0 => r \in list' /\ fresh[r].state = "available"
               /\ \A x \in list : redirect[x].state = "assigned" => x # r
    <2>1. r \in Question \union {0}
      BY <1>1
    <2>2. r # 0 => r \in list' /\ fresh[r].state = "available"
      BY <1>5 DEF IsAvailable, Available
    <2>3. 0 \notin list
      BY <1>1 DEF Question
    <2>4. QED
      BY <1>3, <2>1, <2>2, <2>3
  <1>6. ASSUME NEW r \in list' \union {0}, IsAvailable(r, list', fresh),
               redirect' = InitCommand(fresh, r, q), UNCHANGED outqueue
        PROVE  Paired'
    <2>1. /\ r \in Question \union {0}
          /\ \A x \in list : redirect[x].state = "assigned" => x # r
      BY <1>5, <1>6
    <2>2. \A x \in Question : x # r => redirect'[x].state = fresh[x].state
      <3>1. Moved(redirect', fresh, r, "sent")
        BY <1>1, <1>6, <2>1, StartType
      <3>2. QED
        BY <3>1 DEF Moved
    <2>3. \A x \in list : redirect[x].state = "assigned" =>
            x \in list' /\ redirect'[x].state = "assigned"
      BY <1>1, <1>3, <2>1, <2>2
    <2>4. QED
      BY <1>2, <1>6, <2>3, PairsKept
  <1>7. ASSUME NEW r \in list' \union {0}, IsAvailable(r, list', fresh),
               prio \in Queue, Enqueue(prio, q, r),
               redirect' = Assign(fresh, r)
        PROVE  Paired'
    <2>1. /\ r \in Question \union {0}
          /\ r # 0 => r \in list'
          /\ \A x \in list : redirect[x].state = "assigned" => x # r
      BY <1>5, <1>7
    <2>2. /\ \A x \in Question : x # r => redirect'[x].state = fresh[x].state
          /\ r # 0 => redirect'[r].state = "assigned"
      <3>1. Moved(redirect', fresh, r, "assigned")
        BY <1>1, <1>7, <2>1, AttachType
      <3>2. QED
        BY <3>1 DEF Moved
    <2>3. \A x \in list : redirect[x].state = "assigned" =>
            x \in list' /\ redirect'[x].state = "assigned"
      BY <1>1, <1>3, <2>1, <2>2
    <2>4. /\ \A s \in Queue : s # prio => outqueue'[s] = outqueue[s]
          /\ Len(outqueue[prio]) \in Nat
          /\ Len(outqueue'[prio]) = Len(outqueue[prio]) + 1
          /\ \A i \in 1 .. Len(outqueue[prio]) :
               outqueue'[prio][i] = outqueue[prio][i]
          /\ outqueue'[prio][Len(outqueue[prio]) + 1] =
               [question |-> q, redirect |-> r]
      <3>1. outqueue \in [Queue -> Seq(Entry)]
        BY DEF Paired, TypeOK
      <3>2. Longer(prio, [question |-> q, redirect |-> r])
        BY <1>1, <1>7, <2>1, <3>1, EnqueueType
      <3>3. QED
        BY <3>2 DEF Longer
    <2> DEFINE IsNew(s, i) == s = prio /\ i = Len(outqueue[prio]) + 1
    <2>5. ASSUME NEW s \in Queue, NEW i \in 1 .. Len(outqueue'[s])
          PROVE  \/ IsNew(s, i)
                 \/ i \in 1 .. Len(outqueue[s]) /\ outqueue'[s][i] = outqueue[s][i]
      BY <2>4
    <2>6. ASSUME NEW s \in Queue, NEW i \in 1 .. Len(outqueue'[s]), IsNew(s, i)
          PROVE  /\ outqueue'[s][i].redirect = r
                 /\ outqueue'[s][i].question = q
      BY <2>4, <2>6
    <2>7. ASSUME NEW s \in Queue, NEW i \in 1 .. Len(outqueue[s]),
                 outqueue[s][i].redirect # 0
          PROVE  /\ outqueue[s][i].redirect \in list
                 /\ outqueue[s][i].redirect # r
                 /\ outqueue[s][i].redirect \in list'
                 /\ redirect'[outqueue[s][i].redirect].state = "assigned"
      BY <2>1, <2>3, <2>7 DEF Paired, QueuePairs
    <2> HIDE DEF IsNew
    <2>8. ASSUME NEW s \in Queue, NEW i \in 1 .. Len(outqueue'[s]),
                 outqueue'[s][i].redirect # 0
          PROVE  /\ outqueue'[s][i].redirect \in list'
                 /\ redirect'[outqueue'[s][i].redirect].state = "assigned"
      BY <2>1, <2>2, <2>5, <2>6, <2>7, <2>8
    <2>9. ASSUME NEW s \in Queue, NEW i \in 1 .. Len(outqueue'[s]),
                 NEW t \in Queue, NEW j \in 1 .. Len(outqueue'[t]),
                 outqueue'[s][i].redirect # 0,
                 outqueue'[t][j].redirect = outqueue'[s][i].redirect
          PROVE  t = s /\ j = i
      <3>1. CASE IsNew(s, i) /\ IsNew(t, j)
        BY <3>1 DEF IsNew
      <3>2. CASE IsNew(s, i) /\ ~IsNew(t, j)
        BY <2>5, <2>6, <2>7, <2>9, <3>2
      <3>3. CASE ~IsNew(s, i) /\ IsNew(t, j)
        BY <2>5, <2>6, <2>7, <2>9, <3>3
      <3>4. CASE ~IsNew(s, i) /\ ~IsNew(t, j)
        <4>1. i \in 1 .. Len(outqueue[s]) /\ outqueue'[s][i] = outqueue[s][i]
          BY <2>5, <3>4
        <4>2. j \in 1 .. Len(outqueue[t]) /\ outqueue'[t][j] = outqueue[t][j]
          BY <2>5, <3>4
        <4>3. /\ outqueue[s][i].redirect # 0
              /\ outqueue[t][j].redirect = outqueue[s][i].redirect
          BY <2>9, <4>1, <4>2
        <4>4. QueuePairs
          BY DEF Paired
        <4>5. QED
          BY <4>1, <4>2, <4>3, <4>4 DEF QueuePairs
      <3>5. QED
        BY <3>1, <3>2, <3>3, <3>4
    <2>10. ASSUME NEW s \in Queue, NEW i \in 1 .. Len(outqueue'[s])
           PROVE  outqueue'[s][i].question <= issued'
      <3>1. CASE IsNew(s, i)
        BY <1>1, <1>2, <2>6, <3>1
      <3>2. CASE ~IsNew(s, i)
        <4>1. i \in 1 .. Len(outqueue[s]) /\ outqueue'[s][i] = outqueue[s][i]
          BY <2>5, <3>2
        <4>2. outqueue[s][i] \in Entry
          BY <4>1, ElementOfSeq DEF Paired, TypeOK
        <4>3. outqueue[s][i].question \in Nat
          BY <4>2 DEF Entry, Question
        <4>4. outqueue[s][i].question <= issued
          BY <4>1 DEF Paired, Asked
        <4>5. QED
          BY <1>2, <4>1, <4>3, <4>4
      <3>3. QED
        BY <3>1, <3>2
    <2>11. QueuePairs'
      BY <2>8, <2>9 DEF QueuePairs
    <2>12. Asked'
      BY <2>10 DEF Asked
    <2>13. QED
      BY <2>11, <2>12 DEF Paired
  <1>8. QED
    BY <1>4, <1>6, <1>7, AskFacts DEF fresh, q, Paired

(***************************************************************************)
(* What SendQueued does: the head of a queue, its command and the pointer. *)
(***************************************************************************)
LEMMA SendFacts ==
  ASSUME Paired, SendQueued
  PROVE  \E p \in Queue, q \in Question, r \in Question \union {0} :
           /\ Len(outqueue[p]) \in Nat \ {0}
           /\ outqueue[p][1].question = q /\ outqueue[p][1].redirect = r
           /\ q <= issued
           /\ redirect' = InitCommand(redirect, r, q)
           /\ redirect[q].pattern \in Pattern
           /\ redirect[q].count \in Nat \ {0}
           /\ Reaches(q, redirect[q].pattern, redirect[q].count)
           /\ \A s \in Queue : s # p => outqueue'[s] = outqueue[s]
           /\ Len(outqueue'[p]) = Len(outqueue[p]) - 1
           /\ \A i \in 1 .. Len(outqueue'[p]) :
                /\ i + 1 \in 1 .. Len(outqueue[p])
                /\ outqueue'[p][i] = outqueue[p][i + 1]
           /\ UNCHANGED <<up, list, issued, ended>>
  <1>1. PICK p \in Queue :
          /\ outqueue[p] # <<>>
          /\ redirect' = InitCommand(redirect, Head(outqueue[p]).redirect,
                                     Head(outqueue[p]).question)
          /\ Reaches(Head(outqueue[p]).question,
                     redirect[Head(outqueue[p]).question].pattern,
                     redirect[Head(outqueue[p]).question].count)
          /\ outqueue' = [outqueue EXCEPT ![p] = Tail(@)]
          /\ UNCHANGED <<up, list, issued, ended>>
    BY DEF SendQueued
  <1>2. outqueue[p] \in Seq(Entry) /\ outqueue \in [Queue -> Seq(Entry)]
    BY <1>1 DEF Paired, TypeOK
  <1>3. /\ Len(outqueue[p]) \in Nat \ {0} /\ Head(outqueue[p]) = outqueue[p][1]
        /\ outqueue[p][1] \in Entry
        /\ Len(Tail(outqueue[p])) = Len(outqueue[p]) - 1
        /\ \A i \in 1 .. Len(Tail(outqueue[p])) :
             Tail(outqueue[p])[i] = outqueue[p][i + 1]
    BY <1>1, <1>2, HeadTailProperties
  <1>4. PICK q \in Question, r \in Question \union {0} :
          outqueue[p][1].question = q /\ outqueue[p][1].redirect = r
    BY <1>3 DEF Entry
  <1>5. redirect[q].pattern \in Pattern /\ redirect[q].count \in Nat \ {0}
    BY <1>4 DEF Paired, TypeOK, Redirect
  <1>6. q <= issued
    <2>1. 1 \in 1 .. Len(outqueue[p])
      BY <1>3
    <2>2. QED
      BY <1>1, <1>4, <2>1 DEF Paired, Asked
  <1>7. /\ \A s \in Queue : s # p => outqueue'[s] = outqueue[s]
        /\ outqueue'[p] = Tail(outqueue[p])
    BY <1>1, <1>2
  <1>8. /\ Len(outqueue'[p]) = Len(outqueue[p]) - 1
        /\ \A i \in 1 .. Len(outqueue'[p]) :
             /\ i + 1 \in 1 .. Len(outqueue[p])
             /\ outqueue'[p][i] = outqueue[p][i + 1]
    BY <1>3, <1>7
  <1>9. redirect' = InitCommand(redirect, r, q)
    BY <1>1, <1>3, <1>4
  <1>10. QED
    <2>1. /\ Reaches(q, redirect[q].pattern, redirect[q].count)
          /\ UNCHANGED <<up, list, issued, ended>>
      BY <1>1, <1>3, <1>4
    <2>2. Len(outqueue[p]) \in Nat \ {0}
      BY <1>3
    <2>3. p \in Queue
      BY <1>1
    <2>4. /\ outqueue[p][1].question = q /\ outqueue[p][1].redirect = r
          /\ q \in Question /\ r \in Question \union {0}
      BY <1>4
    <2>5. QED
      BY <1>5, <1>6, <1>7, <1>8, <1>9, <2>1, <2>2, <2>3, <2>4

LEMMA PairsSend ==
  ASSUME Paired, TypeOK', SendQueued
  PROVE  Paired'
  <1>1. PICK p \in Queue, q \in Question, r \in Question \union {0} :
           /\ Len(outqueue[p]) \in Nat \ {0}
           /\ outqueue[p][1].redirect = r
           /\ redirect' = InitCommand(redirect, r, q)
           /\ \A s \in Queue : s # p => outqueue'[s] = outqueue[s]
           /\ Len(outqueue'[p]) = Len(outqueue[p]) - 1
           /\ \A i \in 1 .. Len(outqueue'[p]) :
                /\ i + 1 \in 1 .. Len(outqueue[p])
                /\ outqueue'[p][i] = outqueue[p][i + 1]
           /\ UNCHANGED <<up, list, issued, ended>>
    BY SendFacts
  <1>2. \A x \in Question : x # r => redirect'[x].state = redirect[x].state
    <2>1. redirect \in [Question -> Redirect]
      BY DEF Paired, TypeOK
    <2>2. Moved(redirect', redirect, r, "sent")
      BY <1>1, <2>1, StartType
    <2>3. QED
      BY <2>2 DEF Moved
  <1> DEFINE Was(s, i) == IF s = p THEN i + 1 ELSE i
  <1>3. 1 \in 1 .. Len(outqueue[p])
    BY <1>1
  <1>4. ASSUME NEW s \in Queue, NEW i \in 1 .. Len(outqueue'[s])
        PROVE  /\ Was(s, i) \in 1 .. Len(outqueue[s])
               /\ outqueue'[s][i] = outqueue[s][Was(s, i)]
               /\ i \in Nat /\ i # 0
               /\ s = p => Was(s, i) # 1
    <2>1. i \in Nat /\ i >= 1
      BY <1>4
    <2>2. CASE s = p
      BY <1>1, <2>1, <2>2
    <2>3. CASE s # p
      BY <1>1, <2>1, <2>3
    <2>4. QED
      BY <2>2, <2>3
  <1>5. ASSUME NEW s \in Queue, NEW i \in 1 .. Len(outqueue'[s]),
               outqueue'[s][i].redirect # 0
        PROVE  /\ outqueue'[s][i].redirect \in list'
               /\ redirect'[outqueue'[s][i].redirect].state = "assigned"
    <2> DEFINE e == outqueue[s][Was(s, i)].redirect
    <2>1. /\ Was(s, i) \in 1 .. Len(outqueue[s]) /\ outqueue'[s][i].redirect = e
          /\ s = p => Was(s, i) # 1
      BY <1>4
    <2> HIDE DEF Was
    <2>2. /\ e \in list /\ redirect[e].state = "assigned"
          /\ \A t \in Queue : \A j \in 1 .. Len(outqueue[t]) :
               outqueue[t][j].redirect = e => t = s /\ j = Was(s, i)
      BY <1>5, <2>1 DEF Paired, QueuePairs
    <2>3. e # r
      BY <1>1, <1>3, <2>1, <2>2
    <2>4. e \in Question
      <3>1. list \subseteq Question
        BY RedirectAssumption DEF Paired, TypeOK, Question
      <3>2. QED
        BY <2>2, <3>1
    <2>5. QED
      BY <1>1, <1>2, <2>1, <2>2, <2>3, <2>4
  <1>6. ASSUME NEW s \in Queue, NEW i \in 1 .. Len(outqueue'[s]),
               NEW t \in Queue, NEW j \in 1 .. Len(outqueue'[t]),
               outqueue'[s][i].redirect # 0,
               outqueue'[t][j].redirect = outqueue'[s][i].redirect
        PROVE  t = s /\ j = i
    <2>1. /\ Was(s, i) \in 1 .. Len(outqueue[s])
          /\ Was(t, j) \in 1 .. Len(outqueue[t])
          /\ outqueue'[s][i].redirect = outqueue[s][Was(s, i)].redirect
          /\ outqueue'[t][j].redirect = outqueue[t][Was(t, j)].redirect
          /\ i \in Nat /\ j \in Nat
      BY <1>4
    <2>2. t = s /\ Was(t, j) = Was(s, i)
      <3> HIDE DEF Was
      <3>1. QED
        BY <1>6, <2>1 DEF Paired, QueuePairs
    <2>3. QED
      BY <2>1, <2>2
  <1>7. ASSUME NEW s \in Queue, NEW i \in 1 .. Len(outqueue'[s])
        PROVE  outqueue'[s][i].question <= issued'
    BY <1>1, <1>4 DEF Paired, Asked
  <1>8. QueuePairs'
    BY <1>5, <1>6 DEF QueuePairs
  <1>9. QED
    BY <1>7, <1>8 DEF Paired, Asked

LEMMA StepPaired == Paired /\ [Next]_vars => Paired'
  <1> SUFFICES ASSUME Paired, [Next]_vars PROVE Paired'
    OBVIOUS
  <1>0. TypeOK' /\ TypeOK /\ list \subseteq Question /\ issued \in Nat
    BY StepTypeOK, RedirectAssumption DEF Paired, TypeOK, Question
  <1>1. CASE AskRedirected
    <2>1. PICK p \in Pattern, prio \in Prio :
            \E n \in Table[p].counts : Ask(p, n, prio, TRUE)
      BY <1>1 DEF AskRedirected
    <2>2. Table[p].counts \subseteq Nat \ {0}
      BY TableFacts
    <2>3. QED
      BY <1>0, <2>1, <2>2, PairsAsk
  <1>2. CASE AskPlain
    <2>1. PICK p \in Plain, prio \in Prio : Ask(p, 1, prio, FALSE)
      BY <1>2 DEF AskPlain
    <2>2. p \in Pattern /\ 1 \in Nat \ {0} /\ FALSE \in BOOLEAN
      BY RedirectAssumption
    <2>3. QED
      BY <1>0, <2>1, <2>2, PairsAsk
  <1>3. CASE SendQueued
    BY <1>0, <1>3, PairsSend
  <1>4. ASSUME NEW m \in Message, RedirectMessage(m)
        PROVE  Paired'
    <2>1. /\ list' = list \ Removed(m) /\ UNCHANGED <<outqueue, issued>>
          /\ redirect' = [q \in Question |-> After(q, m)]
      BY <1>4 DEF RedirectMessage
    <2>2. \A q \in Removed(m) : redirect[q].state = "sent"
      BY DEF Removed, Stops, Overdue, IsTaker, Takers, Sent
    <2>3. \A q \in list : After(q, m).state = redirect[q].state
      BY <1>0, AfterType DEF TypeOK
    <2>4. \A q \in list : redirect[q].state = "assigned" =>
            q \in list' /\ redirect'[q].state = "assigned"
      BY <1>0, <2>1, <2>2, <2>3
    <2>5. QED
      BY <1>0, <2>1, <2>4, PairsKept
  <1>5. CASE Receive
    <2>1. Head(wire) \in Message
      BY <1>0, <1>5, HeadTailProperties DEF Receive, TypeOK
    <2>2. QED
      BY <1>4, <1>5, <2>1 DEF Receive
  <1>6. CASE ReceiveNoise
    <2>1. [kind |-> Noise, of |-> 0] \in Message
      BY DEF Message
    <2>2. QED
      BY <1>4, <1>6, <2>1 DEF ReceiveNoise
  <1>7. ASSUME NEW q \in Question, Timeout(q)
        PROVE  Paired'
    <2>1. \A x \in list : redirect[x].state = "assigned" =>
            x \in list' /\ redirect'[x].state = "assigned"
      BY <1>7 DEF Timeout
    <2>2. UNCHANGED <<outqueue, issued>>
      BY <1>7 DEF Timeout
    <2>3. QED
      BY <1>0, <2>1, <2>2, PairsKept
  <1>8. CASE Disconnect \/ DeleteQueues
    BY <1>0, <1>8, PairsEmpty DEF Disconnect, DeleteQueues
  <1>9. CASE Reconnect \/ UNCHANGED vars
    BY <1>0, <1>9, PairsKept DEF Reconnect, vars
  <1>10. QED
    BY <1>1, <1>2, <1>3, <1>5, <1>6, <1>7, <1>8, <1>9 DEF Next, TimerCheck

(***************************************************************************)
(* No message of the queues points to a redirection that was freed, nor    *)
(* two to the same one.                                                    *)
(***************************************************************************)
THEOREM PointersPaired == Spec => []QueuePairs
  <1>1. Init => Paired
    BY InitPaired
  <1>2. Paired /\ [Next]_vars => Paired'
    BY StepPaired
  <1>3. Paired => QueuePairs
    BY DEF Paired
  <1>4. QED
    BY <1>1, <1>2, <1>3, PTL DEF Spec
-----------------------------------------------------------------------------
(* The answers with a string of their own                                  *)

\* In an answer, a message that starts it is followed by one that stops it.
Closed(a, p) ==
  \A i \in 1 .. Len(a) : a[i] \in Table[p].start =>
    \E k \in i + 1 .. Len(a) : a[k] \in Table[p].stop

Identified ==
  /\ Distinct /\ "interleave" \notin Faults
  /\ \A p \in Pattern :
       Table[p].loose = {} /\ \A a \in Table[p].answers : Closed(a, p)

\* From the i-th message on: messages for q, then the stop of its pattern p.
Follows(w, i, q, p) ==
  \E k \in i .. Len(w) :
    (\A j \in i .. k : w[j].of = q) /\ w[k].kind \in Table[p].stop

\* What is going to be said: every start with its stop, of the same answer.
Told ==
  \A i \in 1 .. Len(wire) :
    /\ wire[i].of \in 1 .. issued
    /\ wire[i].kind \in Table[redirect[wire[i].of].pattern].start =>
         Follows(wire, i + 1, wire[i].of, redirect[wire[i].of].pattern)

\* A redirection that takes everything is in the middle of its answer.
Heard ==
  \A q \in list : redirect[q].started =>
    /\ redirect[q].state = "sent"
    /\ ~redirect[q].stopped => Follows(wire, 1, q, redirect[q].pattern)

Owned == Paired /\ Told /\ Heard /\ OnlyOwnAnswers

LEMMA ConcatClosed ==
  ASSUME NEW p \in Pattern, NEW a \in Seq(Reply), NEW b \in Seq(Reply),
         Closed(a, p), Closed(b, p)
  PROVE  Closed(a \o b, p)
  <1>1. /\ Len(a) \in Nat /\ Len(b) \in Nat /\ Len(a \o b) = Len(a) + Len(b)
        /\ \A i \in 1 .. Len(a) + Len(b) :
             (a \o b)[i] = IF i <= Len(a) THEN a[i] ELSE b[i - Len(a)]
    BY ConcatProperties
  <1>2. ASSUME NEW i \in 1 .. Len(a \o b), (a \o b)[i] \in Table[p].start
        PROVE  \E k \in i + 1 .. Len(a \o b) : (a \o b)[k] \in Table[p].stop
    <2>1. CASE i <= Len(a)
      <3>1. PICK k \in i + 1 .. Len(a) : a[k] \in Table[p].stop
        BY <1>1, <1>2, <2>1 DEF Closed
      <3>2. k \in i + 1 .. Len(a \o b) /\ (a \o b)[k] = a[k]
        BY <1>1, <3>1
      <3>3. QED
        BY <3>1, <3>2
    <2>2. CASE i > Len(a)
      <3>1. i - Len(a) \in 1 .. Len(b) /\ b[i - Len(a)] \in Table[p].start
        BY <1>1, <1>2, <2>2
      <3>2. PICK k \in i - Len(a) + 1 .. Len(b) : b[k] \in Table[p].stop
        BY <3>1 DEF Closed
      <3>3. /\ k + Len(a) \in i + 1 .. Len(a \o b)
            /\ (a \o b)[k + Len(a)] = b[k]
        BY <1>1, <2>2, <3>2
      <3>4. QED
        BY <3>2, <3>3
    <2>3. QED
      BY <1>1, <2>1, <2>2
  <1>3. QED
    BY <1>2 DEF Closed

LEMMA AnswersClosed ==
  ASSUME Identified, NEW p \in Pattern, NEW n \in Nat \ {0},
         NEW a \in Answers(p, n)
  PROVE  Closed(a, p)
  <1>1. Table[p].answers \subseteq Seq(Reply)
    BY TableFacts
  <1>2. \A b \in Table[p].answers : Closed(b, p)
    BY DEF Identified
  <1>3. CASE n = 1
    BY <1>2, <1>3 DEF Answers
  <1>4. CASE n # 1
    <2>1. PICK b \in Table[p].answers, c \in Table[p].answers : a = b \o c
      BY <1>4 DEF Answers
    <2>2. b \in Seq(Reply) /\ c \in Seq(Reply) /\ Closed(b, p) /\ Closed(c, p)
      BY <1>1, <1>2
    <2>3. Closed(b \o c, p)
      BY <2>2, ConcatClosed
    <2>4. QED
      BY <2>1, <2>3
  <1>5. QED
    BY <1>3, <1>4

(***************************************************************************)
(* What follows is kept when the server has more to say, and when a        *)
(* message is read.                                                        *)
(***************************************************************************)
LEMMA FollowsMore ==
  ASSUME NEW w \in Seq(Message), NEW t \in Seq(Message), NEW i \in Nat \ {0},
         NEW q, NEW p, Follows(w, i, q, p)
  PROVE  Follows(w \o t, i, q, p)
  <1>1. /\ Len(w) \in Nat /\ Len(t) \in Nat /\ Len(w \o t) = Len(w) + Len(t)
        /\ \A j \in 1 .. Len(w) : (w \o t)[j] = w[j]
    BY ConcatProperties
  <1>2. PICK k \in i .. Len(w) :
          (\A j \in i .. k : w[j].of = q) /\ w[k].kind \in Table[p].stop
    BY DEF Follows
  <1>3. k \in i .. Len(w \o t) /\ \A j \in i .. k : j \in 1 .. Len(w)
    BY <1>1
  <1>4. (\A j \in i .. k : (w \o t)[j].of = q) /\ (w \o t)[k].kind \in Table[p].stop
    BY <1>1, <1>2, <1>3
  <1>5. QED
    BY <1>3, <1>4 DEF Follows

LEMMA FollowsRead ==
  ASSUME NEW w \in Seq(Message), w # <<>>, NEW i \in Nat \ {0},
         NEW q, NEW p, Follows(w, i + 1, q, p)
  PROVE  Follows(Tail(w), i, q, p)
  <1>1. /\ Len(w) \in Nat /\ Len(Tail(w)) = Len(w) - 1
        /\ \A j \in 1 .. Len(w) - 1 : Tail(w)[j] = w[j + 1]
    BY HeadTailProperties
  <1>2. PICK k \in i + 1 .. Len(w) :
          (\A j \in i + 1 .. k : w[j].of = q) /\ w[k].kind \in Table[p].stop
    BY DEF Follows
  <1>3. k - 1 \in i .. Len(Tail(w)) /\ Tail(w)[k - 1] = w[k]
    BY <1>1
  <1>4. ASSUME NEW j \in i .. k - 1
        PROVE  Tail(w)[j].of = q
    <2>1. j + 1 \in i + 1 .. k /\ Tail(w)[j] = w[j + 1]
      BY <1>1
    <2>2. QED
      BY <1>2, <2>1
  <1>5. QED
    BY <1>2, <1>3, <1>4 DEF Follows

(***************************************************************************)
(* The answer to a command, added to what the server is going to say; the  *)
(* patterns of the questions that were asked do not change.                *)
(***************************************************************************)
LEMMA ToldKept ==
  ASSUME Told, wire \in Seq(Message), issued \in Nat, issued' \in Nat,
         issued <= issued', UNCHANGED wire,
         \A q \in 1 .. issued : redirect'[q].pattern = redirect[q].pattern
  PROVE  Told'
  <1>1. ASSUME NEW i \in 1 .. Len(wire)
        PROVE  /\ wire[i].of \in 1 .. issued'
               /\ wire[i].kind \in Table[redirect'[wire[i].of].pattern].start =>
                    Follows(wire, i + 1, wire[i].of, redirect'[wire[i].of].pattern)
    <2>1. wire[i].of \in 1 .. issued
      BY DEF Told
    <2>2. redirect'[wire[i].of].pattern = redirect[wire[i].of].pattern
      BY <2>1
    <2>3. wire[i].of \in 1 .. issued'
      BY <2>1
    <2>4. QED
      BY <2>2, <2>3 DEF Told
  <1>2. QED
    BY <1>1 DEF Told, Follows

LEMMA ToldReaches ==
  ASSUME Identified, Told, wire \in Seq(Message), issued \in Nat,
         issued' \in Nat, issued <= issued',
         \A x \in 1 .. issued : redirect'[x].pattern = redirect[x].pattern,
         NEW q \in 1 .. issued', q \in Question, NEW p \in Pattern,
         NEW n \in Nat \ {0}, redirect'[q].pattern = p, Reaches(q, p, n)
  PROVE  /\ Told'
         /\ \E t \in Seq(Message) : wire' = wire \o t
  <1>1. CASE UNCHANGED <<said, wire>>
    <2>1. Told'
      BY <1>1, ToldKept
    <2>2. <<>> \in Seq(Message) /\ wire' = wire \o <<>>
      BY <1>1, EmptySeq, ConcatEmptySeq
    <2>3. QED
      BY <2>1, <2>2
  <1>2. ASSUME NEW a \in Answers(p, n),
               wire' = wire \o [i \in 1 .. Len(a) |-> [kind |-> a[i], of |-> q]]
        PROVE  /\ Told'
               /\ \E t \in Seq(Message) : wire' = wire \o t
    <2> DEFINE t == [i \in 1 .. Len(a) |-> [kind |-> a[i], of |-> q]]
    <2>1. a \in Seq(Reply) /\ Closed(a, p)
      BY AnswerType, AnswersClosed
    <2>2. Len(a) \in Nat /\ \A i \in 1 .. Len(a) : a[i] \in Reply
      BY <2>1, ElementOfSeq
    <2>3. \A i \in 1 .. Len(a) : [kind |-> a[i], of |-> q] \in Message
      BY <2>2 DEF Message
    <2>4. t \in Seq(Message) /\ Len(t) = Len(a)
      BY <2>2, <2>3, IsASeq
    <2>5. \A i \in 1 .. Len(a) : t[i].kind = a[i] /\ t[i].of = q
      OBVIOUS
    <2>6. wire' = wire \o t
      BY <1>2
    <2> HIDE DEF t
    <2>7. /\ Len(wire) \in Nat /\ Len(wire') = Len(wire) + Len(a)
          /\ \A i \in 1 .. Len(wire) + Len(a) :
               wire'[i] = IF i <= Len(wire) THEN wire[i] ELSE t[i - Len(wire)]
      BY <2>4, <2>6, ConcatProperties
    <2>8. ASSUME NEW i \in 1 .. Len(wire')
          PROVE  /\ wire'[i].of \in 1 .. issued'
                 /\ wire'[i].kind \in Table[redirect'[wire'[i].of].pattern].start =>
                      Follows(wire', i + 1, wire'[i].of, redirect'[wire'[i].of].pattern)
      <3>1. CASE i <= Len(wire)
        <4>1. i \in 1 .. Len(wire) /\ wire'[i] = wire[i]
          BY <2>2, <2>7, <3>1
        <4>2. wire[i].of \in 1 .. issued
          BY <4>1 DEF Told
        <4>3. redirect'[wire[i].of].pattern = redirect[wire[i].of].pattern
          BY <4>2
        <4>4. wire[i].of \in 1 .. issued'
          BY <4>2
        <4>5. ASSUME wire[i].kind \in Table[redirect[wire[i].of].pattern].start
              PROVE  Follows(wire', i + 1, wire[i].of, redirect[wire[i].of].pattern)
          <5>1. Follows(wire, i + 1, wire[i].of, redirect[wire[i].of].pattern)
            BY <4>1, <4>5 DEF Told
          <5>2. i + 1 \in Nat \ {0}
            BY <4>1
          <5>3. QED
            BY <2>4, <2>6, <5>1, <5>2, FollowsMore
        <4>6. QED
          BY <4>1, <4>3, <4>4, <4>5
      <3>2. CASE i > Len(wire)
        <4> DEFINE h == i - Len(wire)
        <4>1. h \in 1 .. Len(a) /\ wire'[i] = t[h] /\ i = h + Len(wire) /\ i \in Nat
          BY <2>2, <2>7, <3>2
        <4> HIDE DEF h
        <4>2. wire'[i].of = q /\ wire'[i].kind = a[h]
          BY <2>5, <4>1
        <4>3. ASSUME a[h] \in Table[p].start
              PROVE  Follows(wire', i + 1, q, p)
          <5>1. PICK k \in h + 1 .. Len(a) : a[k] \in Table[p].stop
            BY <2>1, <4>1, <4>3 DEF Closed
          <5>2. \A j \in i + 1 .. k + Len(wire) :
                  /\ j - Len(wire) \in 1 .. Len(a)
                  /\ wire'[j] = t[j - Len(wire)]
            BY <2>2, <2>7, <4>1, <5>1
          <5>3. \A j \in i + 1 .. k + Len(wire) : wire'[j].of = q
            BY <2>5, <5>2
          <5>4. k + Len(wire) \in i + 1 .. Len(wire')
            BY <2>2, <2>7, <4>1, <5>1
          <5>5. /\ k \in 1 .. Len(a)
                /\ k + Len(wire) \in 1 .. Len(wire) + Len(a)
                /\ ~ (k + Len(wire) <= Len(wire)) /\ k + Len(wire) - Len(wire) = k
            BY <2>2, <2>7, <4>1, <5>1
          <5>6. wire'[k + Len(wire)] = t[k]
            BY <2>7, <5>5
          <5>7. wire'[k + Len(wire)].kind = a[k]
            BY <2>5, <5>5, <5>6
          <5>8. QED
            BY <5>1, <5>3, <5>4, <5>7 DEF Follows
        <4>4. QED
          BY <4>2, <4>3
      <3>3. QED
        BY <2>7, <3>1, <3>2
    <2>9. Told'
      BY <2>8 DEF Told, Follows
    <2>10. QED
      BY <2>4, <2>6, <2>9
  <1>3. QED
    BY <1>1, <1>2 DEF Reaches

(***************************************************************************)
(* What a message does, when it is the next of what the server says, or    *)
(* when nobody asked for it: no redirection but its own takes it.          *)
(***************************************************************************)
Comes(m) ==
  \/ wire # <<>> /\ m = Head(wire) /\ wire' = Tail(wire)
  \/ wire = <<>> /\ m = [kind |-> Noise, of |-> 0] /\ UNCHANGED wire

LEMMA MatchOwn ==
  ASSUME Identified, TypeOK, NEW q \in Question, NEW m,
         NEW column \in {"start", "stop", "extra"}
  PROVE  /\ Match(q, m, column) <=>
              m.of = q /\ m.kind \in Table[redirect[q].pattern][column]
         /\ Match(q, m, column) => m.kind \in Reply
  <1>1. redirect[q].pattern \in Pattern
    BY DEF TypeOK, Redirect
  <1>2. Table[redirect[q].pattern].loose = {} /\ Distinct
    BY <1>1 DEF Identified
  <1>3. Table[redirect[q].pattern][column] \subseteq Reply
    BY <1>1, TableFacts
  <1>4. QED
    BY <1>2, <1>3 DEF Match

LEMMA TakerOwns ==
  ASSUME Identified, TypeOK, Heard, NEW m, Comes(m), NEW q \in Takers(m)
  PROVE  q \in Question /\ m.of = q /\ wire # <<>> /\ m = wire[1]
  <1>1. q \in list /\ Takes(q, m)
    BY DEF Takers, Sent
  <1>2. q \in Question
    BY <1>1, RedirectAssumption DEF TypeOK, Question
  <1>3. wire # <<>> => m = wire[1]
    BY HeadTailProperties DEF Comes, TypeOK
  <1>4. CASE Match(q, m, "start") \/ Match(q, m, "stop") \/ Match(q, m, "extra")
    <2>1. m.of = q /\ m.kind \in Reply
      BY <1>2, <1>4, MatchOwn
    <2>2. wire # <<>>
      BY <2>1, RedirectAssumption DEF Comes
    <2>3. QED
      BY <1>2, <1>3, <2>1, <2>2
  <1>5. CASE redirect[q].started /\ ~redirect[q].stopped
    <2>1. Follows(wire, 1, q, redirect[q].pattern)
      BY <1>1, <1>5 DEF Heard
    <2>2. PICK k \in 1 .. Len(wire) : \A j \in 1 .. k : wire[j].of = q
      BY <2>1 DEF Follows
    <2>3. 1 \in 1 .. k /\ Len(wire) # 0
      BY <2>2
    <2>4. wire # <<>>
      BY <2>3
    <2>5. QED
      BY <1>2, <1>3, <2>2, <2>3, <2>4
  <1>6. QED
    BY <1>1, <1>4, <1>5 DEF Takes

LEMMA AfterFields ==
  ASSUME redirect \in [Question -> Redirect], NEW m, NEW q \in Question
  PROVE  /\ After(q, m).output = IF IsTaker(q, m) THEN Added(q, m)
                                 ELSE redirect[q].output
         /\ Stops(q, m) => ~After(q, m).started /\ ~After(q, m).stopped
         /\ ~Stops(q, m) /\ IsTaker(q, m) =>
              /\ After(q, m).started <=> (redirect[q].started \/ Begins(q, m))
              /\ After(q, m).stopped <=> (~Begins(q, m) /\ Match(q, m, "stop"))
         /\ ~Stops(q, m) /\ ~IsTaker(q, m) => After(q, m) = redirect[q]
  <1> DEFINE out == IF IsTaker(q, m) THEN Added(q, m)
                    ELSE redirect[q].output
             k == redirect[q].current + 1
             b == redirect[q].started \/ Begins(q, m)
             c == ~Begins(q, m) /\ Match(q, m, "stop")
  <1>1. After(q, m) =
          IF Stops(q, m)
            THEN [redirect[q] EXCEPT !.output = out, !.current = k,
                                     !.started = FALSE, !.stopped = FALSE]
          ELSE IF IsTaker(q, m)
            THEN [redirect[q] EXCEPT !.output = out, !.started = b, !.stopped = c]
          ELSE redirect[q]
    BY Zenon DEF After
  <1>2. redirect[q] \in Redirect
    OBVIOUS
  <1>3. (~Stops(q, m) /\ ~IsTaker(q, m)) => out = redirect[q].output
    OBVIOUS
  <1>4. b \in BOOLEAN /\ c \in BOOLEAN
    OBVIOUS
  <1> HIDE DEF out, k, b, c
  <1>5. /\ After(q, m).output = out
        /\ Stops(q, m) => ~After(q, m).started /\ ~After(q, m).stopped
        /\ ~Stops(q, m) /\ IsTaker(q, m) =>
             After(q, m).started = b /\ After(q, m).stopped = c
        /\ ~Stops(q, m) /\ ~IsTaker(q, m) => After(q, m) = redirect[q]
    BY <1>1, <1>2, <1>3 DEF Redirect
  <1>6. QED
    BY <1>5 DEF out, b, c

LEMMA MessageOwned ==
  ASSUME Identified, Owned, TypeOK', NEW m \in Message, Comes(m),
         RedirectMessage(m)
  PROVE  Told' /\ Heard' /\ OnlyOwnAnswers'
  <1>1. /\ TypeOK /\ wire \in Seq(Message) /\ redirect \in [Question -> Redirect]
        /\ Told /\ Heard /\ OnlyOwnAnswers
        /\ issued \in 0 .. MaxQuestions /\ MaxQuestions \in Nat
        /\ list \subseteq Question
    BY RedirectAssumption DEF Owned, Paired, TypeOK, Question
  <1>2. /\ redirect' = [q \in Question |-> After(q, m)]
        /\ list' = list \ Removed(m) /\ issued' = issued
    BY DEF RedirectMessage
  <1>3. \A q \in Question : /\ redirect'[q].pattern = redirect[q].pattern
                            /\ redirect'[q].state = redirect[q].state
    BY <1>1, <1>2, AfterType
  <1>4. \A q \in Takers(m) : q \in Question /\ m.of = q /\ wire # <<>> /\ m = wire[1]
    BY <1>1, TakerOwns
  <1>5. Told'
    <2>1. CASE wire = <<>>
      <3>1. UNCHANGED wire
        BY <2>1 DEF Comes
      <3>2. \A q \in 1 .. issued : redirect'[q].pattern = redirect[q].pattern
        BY <1>1, <1>3 DEF Question
      <3>3. QED
        BY <1>1, <1>2, <3>1, <3>2, ToldKept
    <2>2. CASE wire # <<>>
      <3>1. /\ wire' = Tail(wire) /\ Len(wire) \in Nat
            /\ Len(wire') = Len(wire) - 1
            /\ \A i \in 1 .. Len(wire') : wire'[i] = wire[i + 1]
        BY <1>1, <2>2, HeadTailProperties DEF Comes
      <3>2. ASSUME NEW i \in 1 .. Len(wire')
            PROVE  /\ wire'[i].of \in 1 .. issued'
                   /\ wire'[i].kind \in Table[redirect'[wire'[i].of].pattern].start =>
                        Follows(wire', i + 1, wire'[i].of, redirect'[wire'[i].of].pattern)
        <4>1. i + 1 \in 1 .. Len(wire) /\ wire'[i] = wire[i + 1] /\ i + 1 \in Nat \ {0}
          BY <3>1
        <4>2. wire[i + 1].of \in 1 .. issued
          BY <1>1, <4>1 DEF Told
        <4>3. wire[i + 1].of \in Question
          BY <1>1, <4>2 DEF Question
        <4>4. redirect'[wire[i + 1].of].pattern = redirect[wire[i + 1].of].pattern
          BY <1>3, <4>3
        <4>5. ASSUME wire[i + 1].kind \in Table[redirect[wire[i + 1].of].pattern].start
              PROVE  Follows(wire', i + 1, wire[i + 1].of,
                             redirect[wire[i + 1].of].pattern)
          <5>1. Follows(wire, i + 1 + 1, wire[i + 1].of,
                        redirect[wire[i + 1].of].pattern)
            BY <1>1, <4>1, <4>5 DEF Told
          <5>2. QED
            BY <1>1, <2>2, <3>1, <4>1, <5>1, FollowsRead
        <4>6. QED
          BY <1>2, <4>1, <4>2, <4>4, <4>5
      <3>3. QED
        BY <3>2 DEF Told, Follows
    <2>3. QED
      BY <2>1, <2>2
  <1>6. ASSUME NEW q \in list', redirect'[q].started
        PROVE  /\ redirect'[q].state = "sent"
               /\ ~redirect'[q].stopped => Follows(wire', 1, q, redirect'[q].pattern)
    <2>1. q \in list /\ q \in Question
      BY <1>1, <1>2
    <2>2. redirect'[q] = After(q, m) /\ redirect[q] \in Redirect
      BY <1>1, <1>2, <2>1
    <2>3. ~Stops(q, m)
      BY <1>1, <1>6, <2>1, <2>2, AfterFields
    <2>4. CASE IsTaker(q, m)
      <3>1. q \in Takers(m)
        BY <2>4 DEF IsTaker
      <3>2. m.of = q /\ wire # <<>> /\ m = wire[1]
        BY <1>4, <3>1
      <3>3. wire' = Tail(wire)
        BY <3>2 DEF Comes
      <3>4. redirect'[q].state = "sent"
        BY <1>3, <2>1, <3>1 DEF Takers, Sent
      <3>5. /\ redirect[q].started \/ Begins(q, m)
            /\ redirect'[q].stopped <=> (~Begins(q, m) /\ Match(q, m, "stop"))
        BY <1>1, <1>6, <2>1, <2>2, <2>3, <2>4, AfterFields
      <3>6. ASSUME ~redirect'[q].stopped
            PROVE  Follows(wire, 2, q, redirect[q].pattern)
        <4>1. CASE Begins(q, m)
          <5>1. m.kind \in Table[redirect[q].pattern]["start"]
            BY <4>1 DEF Begins, Match
          <5>2. wire[1].kind \in Table[redirect[q].pattern].start /\ wire[1].of = q
            BY <3>2, <5>1
          <5>3. Len(wire) \in Nat /\ Len(wire) # 0
            BY <1>1, <3>2, EmptySeq, HeadTailProperties
          <5>4. 1 \in 1 .. Len(wire)
            BY <5>3
          <5>5. Follows(wire, 1 + 1, q, redirect[q].pattern)
            BY <1>1, <5>2, <5>4 DEF Told
          <5>6. QED
            BY <5>5
        <4>2. CASE ~Begins(q, m)
          <5>1. redirect[q].started /\ ~Match(q, m, "stop")
            BY <3>5, <3>6, <4>2
          <5>2. ~redirect[q].stopped
            BY <2>3, <2>4 DEF Stops, Finishes
          <5>3. Follows(wire, 1, q, redirect[q].pattern)
            BY <1>1, <2>1, <5>1, <5>2 DEF Heard
          <5>4. PICK k \in 1 .. Len(wire) :
                  /\ \A j \in 1 .. k : wire[j].of = q
                  /\ wire[k].kind \in Table[redirect[q].pattern].stop
            BY <5>3 DEF Follows
          <5>5. redirect[q].pattern \in Pattern
            BY <2>2 DEF Redirect
          <5>6. wire[1].kind \notin Table[redirect[q].pattern].stop
            BY <1>1, <2>1, <3>2, <5>1, <5>5, MatchOwn, TableFacts
          <5>7. k # 1
            BY <5>4, <5>6
          <5>8. k \in 2 .. Len(wire) /\ \A j \in 2 .. k : wire[j].of = q
            BY <5>4, <5>7
          <5>9. QED
            BY <5>4, <5>8 DEF Follows
        <4>3. QED
          BY <4>1, <4>2
      <3>7. ASSUME ~redirect'[q].stopped
            PROVE  Follows(wire', 1, q, redirect[q].pattern)
        <4>1. Follows(wire, 1 + 1, q, redirect[q].pattern)
          BY <3>6, <3>7
        <4>2. QED
          BY <1>1, <3>2, <3>3, <4>1, FollowsRead
      <3>8. QED
        BY <1>3, <2>1, <3>4, <3>7
    <2>5. CASE ~IsTaker(q, m)
      <3>1. redirect'[q] = redirect[q]
        BY <1>1, <2>1, <2>2, <2>3, <2>5, AfterFields
      <3>2. redirect[q].state = "sent"
        BY <1>1, <1>6, <2>1, <3>1 DEF Heard
      <3>3. ASSUME ~redirect[q].stopped PROVE FALSE
        <4>1. q \in Takers(m)
          BY <1>6, <2>1, <3>1, <3>2, <3>3 DEF Takers, Sent, Takes
        <4>2. \A r \in Takers(m) : r = q
          BY <1>4, <4>1
        <4>3. q \in Nat
          BY <2>1 DEF Question
        <4>4. QED
          BY <2>5, <4>1, <4>2, <4>3 DEF IsTaker
      <3>4. QED
        BY <3>1, <3>2, <3>3
    <2>6. QED
      BY <2>4, <2>5
  <1>7. ASSUME NEW q \in Question, NEW i \in 1 .. Len(redirect'[q].output)
        PROVE  redirect'[q].output[i].of = q
    <2>1. redirect'[q].output = IF IsTaker(q, m) THEN Added(q, m)
                                ELSE redirect[q].output
      BY <1>1, <1>2, AfterFields
    <2>2. redirect[q].output \in Seq(Message)
      BY <1>1 DEF Redirect
    <2>3. CASE redirect'[q].output = redirect[q].output
      BY <1>1, <1>7, <2>3 DEF OnlyOwnAnswers
    <2>4. CASE redirect'[q].output # redirect[q].output
      <3>1. IsTaker(q, m) /\ redirect'[q].output = Append(redirect[q].output, m)
        BY <2>1, <2>4 DEF Added
      <3>2. m.of = q
        BY <1>4, <3>1 DEF IsTaker
      <3>3. /\ Len(redirect[q].output) \in Nat
            /\ Len(redirect'[q].output) = Len(redirect[q].output) + 1
            /\ \A j \in 1 .. Len(redirect[q].output) :
                 redirect'[q].output[j] = redirect[q].output[j]
            /\ redirect'[q].output[Len(redirect[q].output) + 1] = m
        BY <2>2, <3>1, AppendProperties
      <3>4. CASE i = Len(redirect[q].output) + 1
        BY <3>2, <3>3, <3>4
      <3>5. CASE i # Len(redirect[q].output) + 1
        <4>1. i \in 1 .. Len(redirect[q].output)
          BY <1>7, <3>3, <3>5
        <4>2. QED
          BY <1>1, <3>3, <4>1 DEF OnlyOwnAnswers
      <3>6. QED
        BY <3>4, <3>5
    <2>5. QED
      BY <2>3, <2>4
  <1>8. Heard'
    BY <1>6 DEF Heard, Follows
  <1>9. OnlyOwnAnswers'
    BY <1>7 DEF OnlyOwnAnswers
  <1>10. QED
    BY <1>5, <1>8, <1>9

(***************************************************************************)
(* The steps that touch no message, and those that send a command.         *)
(***************************************************************************)
LEMMA OwnedKept ==
  ASSUME Owned, Paired', UNCHANGED <<wire, redirect>>, issued <= issued',
         list' \subseteq list
  PROVE  Owned'
  <1>1. wire \in Seq(Message) /\ issued \in Nat /\ issued' \in Nat
    BY DEF Owned, Paired, TypeOK
  <1>2. Told'
    BY <1>1, ToldKept DEF Owned
  <1>3. Heard'
    BY DEF Owned, Heard, Follows
  <1>4. OnlyOwnAnswers'
    BY DEF Owned, OnlyOwnAnswers
  <1>5. QED
    BY <1>2, <1>3, <1>4 DEF Owned

LEMMA CommandOwned ==
  ASSUME Owned, Paired', NEW t \in Seq(Message), wire' = wire \o t, Told',
         \A x \in list' : x \in list \/ ~redirect'[x].started,
         \A x \in Question :
            /\ redirect'[x].output = redirect[x].output \/ redirect'[x].output = <<>>
            /\ x \in list =>
                 /\ redirect'[x].started = redirect[x].started
                 /\ redirect'[x].stopped = redirect[x].stopped
                 /\ redirect'[x].pattern = redirect[x].pattern
                 /\ redirect[x].state = "sent" => redirect'[x].state = "sent"
  PROVE  Owned'
  <1>1. wire \in Seq(Message) /\ list \subseteq Question
    BY RedirectAssumption DEF Owned, Paired, TypeOK, Question
  <1>2. ASSUME NEW q \in list', redirect'[q].started
        PROVE  /\ redirect'[q].state = "sent"
               /\ ~redirect'[q].stopped => Follows(wire', 1, q, redirect'[q].pattern)
    <2>1. q \in list /\ q \in Question
      BY <1>1, <1>2
    <2>2. /\ redirect[q].state = "sent"
          /\ ~redirect[q].stopped => Follows(wire, 1, q, redirect[q].pattern)
      BY <1>2, <2>1 DEF Owned, Heard
    <2>3. ASSUME Follows(wire, 1, q, redirect[q].pattern)
          PROVE  Follows(wire', 1, q, redirect[q].pattern)
      BY <1>1, <2>3, FollowsMore
    <2>4. QED
      BY <2>1, <2>2, <2>3
  <1>3. Heard'
    BY <1>2 DEF Heard, Follows
  <1>4. OnlyOwnAnswers'
    BY DEF Owned, OnlyOwnAnswers
  <1>5. QED
    BY <1>3, <1>4 DEF Owned

\* The fields that a command leaves alone, when it is sent or queued.
Keeps(rs, old) ==
  \A x \in Question :
    /\ rs[x].output = old[x].output
    /\ rs[x].started = old[x].started
    /\ rs[x].stopped = old[x].stopped
    /\ rs[x].pattern = old[x].pattern
    /\ old[x].state = "sent" => rs[x].state = "sent"

LEMMA StartKeeps ==
  ASSUME NEW rs \in [Question -> Redirect], NEW r \in Question \union {0},
         NEW q \in Question
  PROVE  Keeps(InitCommand(rs, r, q), rs)
  <1>1. Moved(InitCommand(rs, r, q), rs, r, "sent")
    BY StartType
  <1>2. \A x \in Question : x # 0
    BY DEF Question
  <1>3. QED
    BY <1>1, <1>2 DEF Moved, Keeps

LEMMA AttachKeeps ==
  ASSUME NEW rs \in [Question -> Redirect], NEW r \in Question \union {0},
         r # 0 => rs[r].state = "available"
  PROVE  Keeps(Assign(rs, r), rs)
  <1>1. Moved(Assign(rs, r), rs, r, "assigned")
    BY AttachType
  <1>2. \A x \in Question : rs[x].state = "sent" => x # r
    BY DEF Question
  <1>3. QED
    BY <1>1, <1>2 DEF Moved, Keeps

LEMMA AskOwned ==
  ASSUME Identified, Owned, Paired', NEW p \in Pattern, NEW n \in Nat \ {0},
         NEW prio \in Prio, NEW f \in BOOLEAN, Ask(p, n, prio, f)
  PROVE  Owned'
  <1> DEFINE q == issued + 1
             fresh == Fresh(p, n)
  <1>1. TypeOK /\ wire \in Seq(Message) /\ issued \in Nat /\ Told /\ list \subseteq Question
    BY RedirectAssumption DEF Owned, Paired, TypeOK, Question
  <1>2. /\ q \in Question /\ issued' = q /\ q \notin list
        /\ list' \subseteq list \union {q} /\ list' \subseteq Question
        /\ fresh \in [Question -> Redirect]
        /\ \A x \in Question : x # q => fresh[x] = redirect[x]
        /\ fresh[q] = New(p, n)
    BY <1>1, AskFacts
  <1>3. fresh[q].output = <<>> /\ ~fresh[q].started /\ fresh[q].pattern = p
    BY <1>2, NewType
  <1>4. /\ issued' \in Nat /\ issued <= issued' /\ q \in 1 .. issued'
        /\ q \notin 1 .. issued /\ 1 .. issued \subseteq Question
    <2>1. MaxQuestions \in Nat /\ issued \in 0 .. MaxQuestions
      BY <1>1, RedirectAssumption DEF TypeOK
    <2>2. issued' = issued + 1
      BY <1>2
    <2>3. QED
      BY <2>1, <2>2 DEF Question
  <1> HIDE DEF fresh, q
  <1>5. ASSUME Keeps(redirect', fresh), Told', NEW t \in Seq(Message), wire' = wire \o t
        PROVE  Owned'
    <2>1. \A x \in Question :
            /\ redirect'[x].output = redirect[x].output \/ redirect'[x].output = <<>>
            /\ x \in list =>
                 /\ redirect'[x].started = redirect[x].started
                 /\ redirect'[x].stopped = redirect[x].stopped
                 /\ redirect'[x].pattern = redirect[x].pattern
                 /\ redirect[x].state = "sent" => redirect'[x].state = "sent"
      BY <1>2, <1>3, <1>5 DEF Keeps
    <2>2. \A x \in list' : x \in list \/ ~redirect'[x].started
      BY <1>2, <1>3, <1>5 DEF Keeps
    <2>3. QED
      BY <1>5, <2>1, <2>2, CommandOwned
  <1>6. ASSUME Keeps(redirect', fresh), UNCHANGED wire
        PROVE  Owned'
    <2>1. \A x \in 1 .. issued : redirect'[x].pattern = redirect[x].pattern
      BY <1>2, <1>4, <1>6 DEF Keeps
    <2>2. Told'
      BY <1>1, <1>4, <1>6, <2>1, ToldKept
    <2>3. <<>> \in Seq(Message) /\ wire' = wire \o <<>>
      BY <1>1, <1>6, EmptySeq, ConcatEmptySeq
    <2>4. QED
      BY <1>5, <1>6, <2>2, <2>3
  <1>7. ASSUME NEW r \in list' \union {0}, IsAvailable(r, list', fresh)
        PROVE  /\ r \in Question \union {0}
               /\ r # 0 => fresh[r].state = "available"
    BY <1>2, <1>7 DEF IsAvailable, Available
  <1>8. CASE redirect' = fresh /\ UNCHANGED wire
    BY <1>6, <1>8 DEF Keeps
  <1>9. ASSUME NEW r \in list' \union {0}, IsAvailable(r, list', fresh),
               redirect' = Assign(fresh, r), UNCHANGED wire
        PROVE  Owned'
    <2>1. r \in Question \union {0} /\ (r # 0 => fresh[r].state = "available")
      BY <1>7, <1>9
    <2>2. Keeps(Assign(fresh, r), fresh)
      BY <1>2, <2>1, AttachKeeps
    <2>3. QED
      BY <1>6, <1>9, <2>2
  <1>10. ASSUME NEW r \in list' \union {0}, IsAvailable(r, list', fresh),
                redirect' = InitCommand(fresh, r, q), Reaches(q, p, n)
         PROVE  Owned'
    <2>1. r \in Question \union {0} /\ (r # 0 => fresh[r].state = "available")
      BY <1>7, <1>10
    <2>2. Keeps(InitCommand(fresh, r, q), fresh)
      <3>1. q \in Question /\ fresh \in [Question -> Redirect]
        BY <1>2
      <3>2. QED
        BY <2>1, <3>1, StartKeeps
    <2>3. \A x \in 1 .. issued : redirect'[x].pattern = redirect[x].pattern
      BY <1>2, <1>4, <1>10, <2>2 DEF Keeps
    <2>4. redirect'[q].pattern = p
      BY <1>2, <1>3, <1>10, <2>2 DEF Keeps
    <2>5. Told' /\ \E t \in Seq(Message) : wire' = wire \o t
      BY <1>1, <1>2, <1>4, <1>10, <2>3, <2>4, ToldReaches
    <2>6. QED
      BY <1>5, <1>10, <2>2, <2>5
  <1>11. QED
    BY <1>1, <1>8, <1>9, <1>10, AskFacts DEF fresh, q

LEMMA SendOwned ==
  ASSUME Identified, Owned, Paired', SendQueued
  PROVE  Owned'
  <1>1. /\ Paired /\ wire \in Seq(Message) /\ issued \in Nat /\ Told
        /\ redirect \in [Question -> Redirect] /\ list \subseteq Question
        /\ 1 .. issued \subseteq Question
    BY RedirectAssumption DEF Owned, Paired, TypeOK, Question
  <1>2. PICK q \in Question, r \in Question \union {0} :
          /\ q <= issued
          /\ redirect' = InitCommand(redirect, r, q)
          /\ redirect[q].pattern \in Pattern
          /\ redirect[q].count \in Nat \ {0}
          /\ Reaches(q, redirect[q].pattern, redirect[q].count)
          /\ UNCHANGED <<up, list, issued, ended>>
    BY <1>1, SendFacts
  <1>3. \A x \in Question :
          /\ redirect'[x].output = redirect[x].output
          /\ redirect'[x].started = redirect[x].started
          /\ redirect'[x].stopped = redirect[x].stopped
          /\ redirect'[x].pattern = redirect[x].pattern
          /\ redirect[x].state = "sent" => redirect'[x].state = "sent"
    <2>1. q \in Question /\ r \in Question \union {0}
      BY <1>2
    <2>2. Keeps(InitCommand(redirect, r, q), redirect)
      BY <1>1, <2>1, StartKeeps
    <2>3. redirect' = InitCommand(redirect, r, q)
      BY <1>2
    <2>4. QED
      BY <2>2, <2>3 DEF Keeps
  <1>4. q \in 1 .. issued' /\ issued' = issued
    BY <1>1, <1>2 DEF Question
  <1>5. Told' /\ \E t \in Seq(Message) : wire' = wire \o t
    <2>1. /\ issued' \in Nat /\ issued <= issued'
          /\ \A x \in 1 .. issued : redirect'[x].pattern = redirect[x].pattern
          /\ redirect'[q].pattern = redirect[q].pattern
      BY <1>1, <1>3, <1>4
    <2>2. /\ q \in Question /\ redirect[q].pattern \in Pattern
          /\ redirect[q].count \in Nat \ {0}
          /\ Reaches(q, redirect[q].pattern, redirect[q].count)
      BY <1>2
    <2>3. QED
      BY <1>1, <1>4, <2>1, <2>2, ToldReaches
  <1>6. list' = list
    BY <1>2
  <1>7. QED
    BY <1>3, <1>5, <1>6, CommandOwned

-----------------------------------------------------------------------------

LEMMA InitOwned == Init => Owned
  <1> SUFFICES ASSUME Init PROVE Owned
    OBVIOUS
  <1>1. Paired
    BY InitPaired
  <1>2. wire = <<>> /\ list = {}
    BY DEF Init
  <1>3. 1 .. Len(wire) = {}
    BY <1>2
  <1>4. \A q \in Question : redirect[q].output = <<>>
    BY DEF Init, New
  <1>5. QED
    BY <1>1, <1>2, <1>3, <1>4 DEF Owned, Told, Heard, OnlyOwnAnswers

LEMMA StepOwned == Identified /\ Owned /\ [Next]_vars => Owned'
  <1> SUFFICES ASSUME Identified, Owned, [Next]_vars PROVE Owned'
    OBVIOUS
  <1>1. Paired' /\ TypeOK' /\ TypeOK /\ issued \in Nat
    BY StepPaired DEF Owned, Paired, TypeOK
  <1>2. CASE AskRedirected
    <2>1. PICK p \in Pattern, prio \in Prio :
            \E n \in Table[p].counts : Ask(p, n, prio, TRUE)
      BY <1>2 DEF AskRedirected
    <2>2. Table[p].counts \subseteq Nat \ {0}
      BY TableFacts
    <2>3. QED
      BY <1>1, <2>1, <2>2, AskOwned
  <1>3. CASE AskPlain
    <2>1. PICK p \in Plain, prio \in Prio : Ask(p, 1, prio, FALSE)
      BY <1>3 DEF AskPlain
    <2>2. p \in Pattern /\ 1 \in Nat \ {0} /\ FALSE \in BOOLEAN
      BY RedirectAssumption
    <2>3. QED
      BY <1>1, <2>1, <2>2, AskOwned
  <1>4. CASE SendQueued
    BY <1>1, <1>4, SendOwned
  <1>5. CASE Receive
    <2>1. Head(wire) \in Message /\ Comes(Head(wire)) /\ RedirectMessage(Head(wire))
      BY <1>1, <1>5, HeadTailProperties DEF Receive, TypeOK, Comes
    <2>2. QED
      BY <1>1, <2>1, MessageOwned DEF Owned
  <1>6. CASE ReceiveNoise
    <2> DEFINE m == [kind |-> Noise, of |-> 0]
    <2>1. m \in Message
      BY DEF Message
    <2>2. Comes(m) /\ RedirectMessage(m)
      BY <1>6 DEF ReceiveNoise, Comes, Identified
    <2> HIDE DEF m
    <2>3. QED
      BY <1>1, <2>1, <2>2, MessageOwned DEF Owned
  <1>7. ASSUME NEW q \in Question, Timeout(q)
        PROVE  Owned'
    <2>1. UNCHANGED <<wire, redirect>> /\ issued <= issued' /\ list' \subseteq list
      BY <1>1, <1>7 DEF Timeout
    <2>2. QED
      BY <1>1, <2>1, OwnedKept
  <1>8. CASE Disconnect
    <2>1. /\ wire' = <<>> /\ list' = {} /\ redirect' = redirect
      BY <1>8 DEF Disconnect
    <2>2. 1 .. Len(wire') = {}
      BY <2>1
    <2>3. Told' /\ Heard'
      BY <2>1, <2>2 DEF Told, Heard
    <2>4. QED
      BY <1>1, <2>1, <2>3 DEF Owned, OnlyOwnAnswers
  <1>9. CASE Reconnect \/ DeleteQueues \/ UNCHANGED vars
    <2>1. UNCHANGED <<wire, redirect>> /\ issued <= issued' /\ list' \subseteq list
      BY <1>1, <1>9 DEF Reconnect, DeleteQueues, vars
    <2>2. QED
      BY <1>1, <2>1, OwnedKept
  <1>10. QED
    BY <1>2, <1>3, <1>4, <1>5, <1>6, <1>7, <1>8, <1>9 DEF Next, TimerCheck

(***************************************************************************)
(* With strings that identify the answers, no unasked message inside an    *)
(* answer and answers that end, a redirection never hides from the user,   *)
(* nor gives to its callback, what answers another question: whatever is   *)
(* lost, dropped or late, and whatever command it was attached to          *)
(* (irc_redirect_message()).                                               *)
(***************************************************************************)
THEOREM OwnAnswersOnly == Identified => (Spec => []OnlyOwnAnswers)
  <1> SUFFICES ASSUME Identified PROVE Spec => []OnlyOwnAnswers
    OBVIOUS
  <1>1. Init => Owned
    BY InitOwned
  <1>2. Owned /\ [Next]_vars => Owned'
    BY StepOwned
  <1>3. Owned => OnlyOwnAnswers
    BY DEF Owned
  <1>4. QED
    BY <1>1, <1>2, <1>3, PTL DEF Spec

-----------------------------------------------------------------------------
(* What Kept computes: the only induction over data of these proofs.       *)

(***************************************************************************)
(* A set of naturals that is not empty has a least element; so one that    *)
(* has 0 and the successor of each of its elements has every natural.      *)
(***************************************************************************)
LEMMA LeastElement ==
  ASSUME NEW S \in SUBSET Nat, S # {}
  PROVE  \E x \in S : \A y \in S : ~(y < x)
  <1> DEFINE R == OpToRel(<, Nat)
  <1>1. IsWellFoundedOn(R, Nat)
    BY NatLessThanWellFounded
  <1>2. \A x, y \in Nat : y < x => <<y, x>> \in R
    BY DEF OpToRel
  <1> HIDE DEF R
  <1>3. \E x \in S : \A y \in S : ~ (<<y, x>> \in R)
    BY <1>1, WFMin
  <1>4. QED
    BY <1>2, <1>3

LEMMA SetInduction ==
  ASSUME NEW S \in SUBSET Nat, 0 \in S, \A n \in S : n + 1 \in S
  PROVE  S = Nat
  <1>1. SUFFICES ASSUME Nat \ S # {} PROVE FALSE
    OBVIOUS
  <1>2. PICK x \in Nat \ S : \A y \in Nat \ S : ~(y < x)
    BY <1>1, LeastElement
  <1>3. x # 0
    BY <1>2
  <1>4. x - 1 \in Nat /\ x - 1 < x /\ (x - 1) + 1 = x
    BY <1>3
  <1>5. x - 1 \in S
    BY <1>2, <1>4
  <1>6. QED
    BY <1>2, <1>4, <1>5

(***************************************************************************)
(* The recursion of Kept has a solution, so Kept is one.                   *)
(***************************************************************************)
KeptOne(q, s, F, f, i) ==
  IF s[i] \in F THEN Append(f[i - 1], [kind |-> s[i], of |-> q]) ELSE f[i - 1]

IsKept(q, s, F, f, n) ==
  f = [i \in 0 .. n |-> IF i = 0 THEN <<>> ELSE KeptOne(q, s, F, f, i)]

LEMMA KeptLonger ==
  ASSUME NEW q, NEW s, NEW F, NEW n \in Nat, NEW f, IsKept(q, s, F, f, n)
  PROVE  \E g : IsKept(q, s, F, g, n + 1)
  <1> DEFINE g == [i \in 0 .. n + 1 |->
                     IF i = n + 1 THEN KeptOne(q, s, F, f, i) ELSE f[i]]
  <1>1. \A i \in 0 .. n : f[i] = IF i = 0 THEN <<>> ELSE KeptOne(q, s, F, f, i)
    BY DEF IsKept
  <1>2. \A i \in 0 .. n : g[i] = f[i]
    OBVIOUS
  <1>3. g[n + 1] = KeptOne(q, s, F, f, n + 1)
    OBVIOUS
  <1> HIDE DEF g
  <1>4. \A i \in 1 .. n + 1 : KeptOne(q, s, F, g, i) = KeptOne(q, s, F, f, i)
    BY <1>2 DEF KeptOne
  <1>5. \A i \in 0 .. n + 1 : g[i] = IF i = 0 THEN <<>> ELSE KeptOne(q, s, F, g, i)
    BY <1>1, <1>2, <1>3, <1>4
  <1>6. g = [i \in 0 .. n + 1 |-> g[i]]
    BY DEF g
  <1>7. QED
    BY <1>5, <1>6 DEF IsKept

LEMMA KeptExists ==
  ASSUME NEW q, NEW s, NEW F, NEW n \in Nat
  PROVE  \E f : IsKept(q, s, F, f, n)
  <1> DEFINE S == {k \in Nat : \E f : IsKept(q, s, F, f, k)}
  <1>1. 0 \in S
    <2> DEFINE g == [i \in 0 .. 0 |-> <<>>]
    <2>1. g = [i \in 0 .. 0 |-> IF i = 0 THEN <<>> ELSE KeptOne(q, s, F, g, i)]
      OBVIOUS
    <2> HIDE DEF g
    <2>2. IsKept(q, s, F, g, 0)
      BY <2>1 DEF IsKept
    <2>3. QED
      BY <2>2
  <1>2. \A k \in S : k + 1 \in S
    BY KeptLonger
  <1>3. S \in SUBSET Nat
    OBVIOUS
  <1> HIDE DEF S
  <1>4. n \in S
    BY <1>1, <1>2, <1>3, SetInduction
  <1>5. QED
    BY <1>4 DEF S

LEMMA KeptFacts ==
  ASSUME NEW q, NEW s, NEW F, Len(s) \in Nat
  PROVE  /\ Kept(q, s, F)[0] = <<>>
         /\ \A k \in 0 .. Len(s) - 1 :
              Kept(q, s, F)[k + 1] =
                IF s[k + 1] \in F
                  THEN Append(Kept(q, s, F)[k], [kind |-> s[k + 1], of |-> q])
                  ELSE Kept(q, s, F)[k]
  <1> DEFINE K == Kept(q, s, F)
  <1>1. K = CHOOSE f : f = [n \in 0 .. Len(s) |->
              IF n = 0 THEN <<>>
              ELSE IF s[n] \in F
                THEN Append(f[n - 1], [kind |-> s[n], of |-> q])
                ELSE f[n - 1]]
    BY DEF Kept
  <1>2. K = CHOOSE f : IsKept(q, s, F, f, Len(s))
    BY <1>1 DEF IsKept, KeptOne
  <1> HIDE DEF K
  <1>3. \E f : IsKept(q, s, F, f, Len(s))
    BY KeptExists
  <1>4. IsKept(q, s, F, K, Len(s))
    BY <1>2, <1>3
  <1>5. \A i \in 0 .. Len(s) : K[i] = IF i = 0 THEN <<>> ELSE KeptOne(q, s, F, K, i)
    BY <1>4 DEF IsKept
  <1>6. K[0] = <<>>
    BY <1>5
  <1>7. ASSUME NEW k \in 0 .. Len(s) - 1
        PROVE  K[k + 1] = IF s[k + 1] \in F
                            THEN Append(K[k], [kind |-> s[k + 1], of |-> q])
                            ELSE K[k]
    <2>1. k + 1 \in 0 .. Len(s) /\ k + 1 # 0 /\ (k + 1) - 1 = k
      OBVIOUS
    <2>2. K[k + 1] = KeptOne(q, s, F, K, k + 1)
      BY <1>5, <2>1
    <2>3. QED
      BY <2>1, <2>2 DEF KeptOne
  <1>8. QED
    BY <1>6, <1>7 DEF K

-----------------------------------------------------------------------------
(* A redirection reads its answer                                          *)

(***************************************************************************)
(* What a message of kind k does to a redirection that it is for.          *)
(***************************************************************************)
Starting(r, k) == ~r.started /\ k \in Table[r.pattern].start

Stopping(r, k) == ~Starting(r, k) /\ k \in Table[r.pattern].stop

Finishing(r, k) ==
  \/ r.stopped
  \/ /\ Stopping(r, k)
     /\ Table[r.pattern].extra = {} \/ k \in Table[r.pattern].extra

Taking(r, k) ==
  IF r.stopped THEN k \in Table[r.pattern].extra
  ELSE r.started \/ k \in Table[r.pattern].start \union Table[r.pattern].stop

(***************************************************************************)
(* The redirection r has heard the first j messages of the answer a.       *)
(***************************************************************************)
Within(r, a, j) ==
  \E e \in 1 .. Len(a) :
    /\ StopsAt(r.pattern, a, e)
    /\ \/ j = 0 /\ ~r.started /\ ~r.stopped
       \/ j \in 1 .. e - 1 /\ r.started /\ ~r.stopped
       \/ /\ j = e /\ r.stopped
          /\ Table[r.pattern].extra # {} /\ a[e] \notin Table[r.pattern].extra

LEMMA WithinFacts ==
  ASSUME NEW r, NEW a, Len(a) \in Nat, NEW j \in Nat, Within(r, a, j)
  PROVE  /\ j <= Len(a) /\ 1 <= Len(a)
         /\ j = Len(a) => r.stopped
         /\ j = 0 => ~r.started /\ ~r.stopped
         /\ r.stopped => Table[r.pattern].extra # {}
  BY DEF Within, StopsAt

LEMMA WithinHears ==
  ASSUME NEW r, NEW a, Len(a) \in Nat, NEW j \in Nat, j < Len(a),
         Within(r, a, j)
  PROVE  /\ Taking(r, a[j + 1])
         /\ Finishing(r, a[j + 1]) => j + 1 = Len(a)
         /\ \A new : /\ new.pattern = r.pattern
                     /\ new.started <=> (r.started \/ Starting(r, a[j + 1]))
                     /\ new.stopped <=> Stopping(r, a[j + 1])
                     /\ ~Finishing(r, a[j + 1])
                     => Within(new, a, j + 1)
  <1> DEFINE p == r.pattern
             k == a[j + 1]
  <1>1. PICK e \in 1 .. Len(a) :
          /\ StopsAt(p, a, e)
          /\ \/ j = 0 /\ ~r.started /\ ~r.stopped
             \/ j \in 1 .. e - 1 /\ r.started /\ ~r.stopped
             \/ /\ j = e /\ r.stopped
                /\ Table[p].extra # {} /\ a[e] \notin Table[p].extra
    BY DEF Within
  <1>2. CASE j = e
    <2>1. r.stopped
      BY <1>1, <1>2
    <2>2. Len(a) = e + 1 /\ a[e + 1] \in Table[p].extra
      BY <1>1, <1>2 DEF StopsAt
    <2>3. QED
      BY <1>2, <2>1, <2>2 DEF Taking, Finishing
  <1>3. CASE j < e /\ j + 1 # e
    <2>1. /\ ~r.stopped
          /\ \/ j = 0 /\ ~r.started
             \/ j \in 1 .. e - 1 /\ r.started
      BY <1>1, <1>3
    <2>2. r.started \/ Starting(r, k)
      BY <1>1, <1>3, <2>1 DEF Starting, StopsAt
    <2>3. ~Stopping(r, k)
      <3>1. CASE j = 0
        BY <2>1, <2>2, <3>1 DEF Stopping
      <3>2. CASE j # 0
        <4>1. j + 1 \in 2 .. e - 1
          BY <1>3, <3>2
        <4>2. QED
          BY <1>1, <4>1 DEF StopsAt, Stopping
      <3>3. QED
        BY <3>1, <3>2
    <2>4. Taking(r, k)
      BY <2>1, <2>2 DEF Taking, Starting
    <2>5. ~Finishing(r, k)
      BY <2>1, <2>3 DEF Finishing
    <2>6. j + 1 \in 1 .. e - 1
      BY <1>3
    <2>7. ASSUME NEW new, new.pattern = p,
                 new.started <=> (r.started \/ Starting(r, k)),
                 new.stopped <=> Stopping(r, k)
          PROVE  Within(new, a, j + 1)
      BY <1>1, <2>2, <2>3, <2>6, <2>7 DEF Within
    <2>8. QED
      BY <2>4, <2>5, <2>7
  <1>4. CASE j + 1 = e
    <2>1. /\ ~r.stopped
          /\ \/ j = 0 /\ ~r.started
             \/ j \in 1 .. e - 1 /\ r.started
      BY <1>1, <1>4
    <2>2. k \in Table[p].stop
      BY <1>1, <1>4 DEF StopsAt
    <2>3. ~Starting(r, k)
      <3>1. CASE j = 0
        BY <1>1, <1>4, <3>1 DEF StopsAt, Starting
      <3>2. CASE j # 0
        BY <2>1, <3>2 DEF Starting
      <3>3. QED
        BY <3>1, <3>2
    <2>4. Stopping(r, k) /\ Taking(r, k)
      BY <2>1, <2>2, <2>3 DEF Taking, Stopping
    <2>5. Finishing(r, k) => j + 1 = Len(a)
      BY <1>1, <1>4, <2>1 DEF Finishing, StopsAt
    <2>6. ~Finishing(r, k) => Table[p].extra # {} /\ a[e] \notin Table[p].extra
      BY <1>4, <2>4 DEF Finishing
    <2>7. ASSUME NEW new, new.pattern = p, ~Finishing(r, k),
                 new.stopped <=> Stopping(r, k)
          PROVE  Within(new, a, j + 1)
      BY <1>1, <1>4, <2>4, <2>6, <2>7 DEF Within
    <2>8. QED
      BY <2>4, <2>5, <2>7
  <1>5. j <= e
    BY <1>1
  <1>6. QED
    BY <1>2, <1>3, <1>4, <1>5

(***************************************************************************)
(* ... and the first k messages of s, its one or two answers.              *)
(***************************************************************************)
LastOne(r, s, k) ==
  \E a \in Table[r.pattern].answers : \E d \in 0 .. k :
    /\ Len(s) = d + Len(a) /\ \A i \in 1 .. Len(a) : s[d + i] = a[i]
    /\ Within(r, a, k - d)

FirstOfTwo(r, s, k) ==
  \E a, b \in Table[r.pattern].answers : s = a \o b /\ Within(r, a, k)

Progress(r, s, k) ==
  \/ r.current = r.count /\ LastOne(r, s, k)
  \/ /\ r.current + 1 = r.count /\ Table[r.pattern].extra = {}
     /\ FirstOfTwo(r, s, k)

Tabled == \A p \in Redirected : \A a \in Table[p].answers :
            \E e \in 1 .. Len(a) : StopsAt(p, a, e)

LEMMA TwoAnswers ==
  ASSUME NEW r, r.pattern \in Pattern, NEW a \in Table[r.pattern].answers,
         NEW b \in Table[r.pattern].answers
  PROVE  /\ a \in Seq(Reply) /\ b \in Seq(Reply)
         /\ Len(a) \in Nat /\ Len(b) \in Nat /\ Len(a \o b) = Len(a) + Len(b)
         /\ \A i \in 1 .. Len(a) : (a \o b)[i] = a[i]
         /\ \A i \in 1 .. Len(b) : (a \o b)[Len(a) + i] = b[i]
  <1>1. a \in Seq(Reply) /\ b \in Seq(Reply)
    BY TableFacts
  <1>2. /\ Len(a) \in Nat /\ Len(b) \in Nat /\ Len(a \o b) = Len(a) + Len(b)
        /\ \A i \in 1 .. Len(a \o b) :
             (a \o b)[i] = IF i <= Len(a) THEN a[i] ELSE b[i - Len(a)]
    BY <1>1, ConcatProperties, LenProperties
  <1>3. QED
    BY <1>1, <1>2

LEMMA ProgressFacts ==
  ASSUME NEW r, r.pattern \in Pattern, r.current \in Nat, r.count \in Nat,
         NEW s, Len(s) \in Nat, NEW k \in Nat, Progress(r, s, k)
  PROVE  /\ k <= Len(s) /\ 1 <= Len(s)
         /\ k = Len(s) => r.stopped /\ r.current = r.count
         /\ r.stopped => r.current = r.count
         /\ k = 0 => ~r.started /\ ~r.stopped
         /\ k = 0 => \E a \in Table[r.pattern].answers : s[1] = a[1]
  <1>1. CASE r.current = r.count /\ LastOne(r, s, k)
    <2>1. PICK a \in Table[r.pattern].answers, d \in 0 .. k :
            /\ Len(s) = d + Len(a) /\ \A i \in 1 .. Len(a) : s[d + i] = a[i]
            /\ Within(r, a, k - d)
      BY <1>1 DEF LastOne
    <2>2. Len(a) \in Nat /\ k - d \in Nat
      BY <2>1, TwoAnswers
    <2>3. /\ k - d <= Len(a) /\ 1 <= Len(a)
          /\ k - d = Len(a) => r.stopped
      BY <2>1, <2>2, WithinFacts
    <2>4. k = 0 => s[1] = a[1]
      <3>1. ASSUME k = 0 PROVE d = 0 /\ 1 \in 1 .. Len(a) /\ d + 1 = 1
        BY <2>2, <2>3, <3>1
      <3>2. QED
        BY <2>1, <3>1
    <2>5. k <= Len(s) /\ 1 <= Len(s) /\ (k = Len(s) => k - d = Len(a))
      BY <2>1, <2>2, <2>3
    <2>6. k = 0 => ~r.started /\ ~r.stopped
      <3>1. k = 0 => k - d = 0
        <4>1. ASSUME k = 0 PROVE d = 0
          BY <2>2, <4>1
        <4>2. 0 - 0 = 0
          OBVIOUS
        <4>3. QED
          BY <4>1, <4>2
      <3>2. QED
        BY <2>1, <2>2, <3>1, WithinFacts
    <2>7. QED
      BY <1>1, <2>3, <2>4, <2>5, <2>6
  <1>2. CASE /\ r.current + 1 = r.count /\ Table[r.pattern].extra = {}
             /\ FirstOfTwo(r, s, k)
    <2>1. PICK a \in Table[r.pattern].answers, b \in Table[r.pattern].answers :
            s = a \o b /\ Within(r, a, k)
      BY <1>2 DEF FirstOfTwo
    <2>2. /\ Len(a) \in Nat /\ Len(b) \in Nat /\ Len(s) = Len(a) + Len(b)
          /\ \A i \in 1 .. Len(a) : s[i] = a[i]
      BY <2>1, TwoAnswers
    <2>3. /\ k <= Len(a) /\ 1 <= Len(a) /\ (k = Len(a) => r.stopped)
          /\ ~r.stopped /\ (k = 0 => ~r.started)
      BY <1>2, <2>1, <2>2, WithinFacts
    <2>4. k < Len(s) /\ 1 <= Len(s) /\ 1 \in 1 .. Len(a)
      BY <2>2, <2>3
    <2>5. QED
      BY <2>1, <2>2, <2>3, <2>4
  <1>3. QED
    BY <1>1, <1>2 DEF Progress

(***************************************************************************)
(* The next message of its answer: the redirection takes it; it is the     *)
(* last one, or the redirection goes on.                                   *)
(***************************************************************************)
Onward(new, r, k) ==
  /\ new.pattern = r.pattern /\ new.count = r.count
  /\ IF Finishing(r, k)
       THEN new.current = r.current + 1 /\ ~new.started /\ ~new.stopped
       ELSE /\ new.current = r.current
            /\ new.started <=> (r.started \/ Starting(r, k))
            /\ new.stopped <=> Stopping(r, k)

LEMMA ProgressHears ==
  ASSUME Tabled, NEW r, r.pattern \in Redirected,
         r.current \in Nat, r.count \in Nat,
         NEW s, Len(s) \in Nat, NEW k \in Nat, k < Len(s), Progress(r, s, k)
  PROVE  /\ Taking(r, s[k + 1])
         /\ Finishing(r, s[k + 1]) /\ r.current = r.count => k + 1 = Len(s)
         /\ \A new : /\ Onward(new, r, s[k + 1])
                     /\ ~(Finishing(r, s[k + 1]) /\ r.current = r.count)
                     => Progress(new, s, k + 1)
  <1>0. r.pattern \in Pattern
    BY DEF Redirected
  <1>1. CASE r.current = r.count /\ LastOne(r, s, k)
    <2>1. PICK a \in Table[r.pattern].answers, d \in 0 .. k :
            /\ Len(s) = d + Len(a) /\ \A i \in 1 .. Len(a) : s[d + i] = a[i]
            /\ Within(r, a, k - d)
      BY <1>1 DEF LastOne
    <2>2. /\ Len(a) \in Nat /\ k - d \in Nat /\ k - d < Len(a)
          /\ (k - d) + 1 = (k + 1) - d
      BY <1>0, <2>1, TwoAnswers
    <2>3. s[k + 1] = a[(k - d) + 1]
      <3>1. (k - d) + 1 \in 1 .. Len(a) /\ d + ((k - d) + 1) = k + 1
        BY <2>2
      <3>2. QED
        BY <2>1, <3>1
    <2> DEFINE m == s[k + 1]
    <2>4. /\ Taking(r, m) /\ (Finishing(r, m) => (k - d) + 1 = Len(a))
          /\ \A new : /\ new.pattern = r.pattern
                      /\ new.started <=> (r.started \/ Starting(r, m))
                      /\ new.stopped <=> Stopping(r, m)
                      /\ ~Finishing(r, m)
                      => Within(new, a, (k - d) + 1)
      BY <2>1, <2>2, <2>3, WithinHears
    <2> HIDE DEF m
    <2>5. Finishing(r, m) => k + 1 = Len(s)
      BY <2>1, <2>2, <2>4
    <2>6. ASSUME NEW new, Onward(new, r, m), ~Finishing(r, m)
          PROVE  Progress(new, s, k + 1)
      <3>1. Within(new, a, (k + 1) - d)
        BY <2>2, <2>4, <2>6 DEF Onward
      <3>2. new.pattern = r.pattern /\ new.current = new.count
        BY <1>1, <2>6 DEF Onward
      <3>3. d \in 0 .. k + 1
        BY <2>1
      <3>4. LastOne(new, s, k + 1)
        BY <2>1, <3>1, <3>2, <3>3 DEF LastOne
      <3>5. QED
        BY <3>2, <3>4 DEF Progress
    <2>7. QED
      BY <1>1, <2>4, <2>5, <2>6 DEF m
  <1>2. CASE /\ r.current + 1 = r.count /\ Table[r.pattern].extra = {}
             /\ FirstOfTwo(r, s, k)
    <2>1. PICK a \in Table[r.pattern].answers, b \in Table[r.pattern].answers :
            s = a \o b /\ Within(r, a, k)
      BY <1>2 DEF FirstOfTwo
    <2>2. /\ Len(a) \in Nat /\ Len(b) \in Nat /\ Len(s) = Len(a) + Len(b)
          /\ \A i \in 1 .. Len(a) : s[i] = a[i]
          /\ \A i \in 1 .. Len(b) : s[Len(a) + i] = b[i]
      BY <1>0, <2>1, TwoAnswers
    <2>3. k < Len(a)
      <3>1. k <= Len(a) /\ (k = Len(a) => r.stopped) /\ ~r.stopped
        BY <1>2, <2>1, <2>2, WithinFacts
      <3>2. QED
        BY <2>2, <3>1
    <2>4. s[k + 1] = a[k + 1]
      BY <2>2, <2>3
    <2> DEFINE m == s[k + 1]
    <2>5. /\ Taking(r, m) /\ (Finishing(r, m) => k + 1 = Len(a))
          /\ \A new : /\ new.pattern = r.pattern
                      /\ new.started <=> (r.started \/ Starting(r, m))
                      /\ new.stopped <=> Stopping(r, m)
                      /\ ~Finishing(r, m)
                      => Within(new, a, k + 1)
      BY <2>1, <2>2, <2>3, <2>4, WithinHears
    <2> HIDE DEF m
    <2>6. r.current # r.count
      BY <1>2
    <2>7. ASSUME NEW new, Onward(new, r, m), ~Finishing(r, m)
          PROVE  Progress(new, s, k + 1)
      <3>1. Within(new, a, k + 1)
        BY <2>5, <2>7 DEF Onward
      <3>2. new.pattern = r.pattern /\ new.current + 1 = new.count
        BY <1>2, <2>7 DEF Onward
      <3>3. QED
        BY <1>2, <2>1, <3>1, <3>2 DEF Progress, FirstOfTwo
    <2>8. ASSUME NEW new, Onward(new, r, m), Finishing(r, m)
          PROVE  Progress(new, s, k + 1)
      <3>1. /\ new.pattern = r.pattern /\ new.current = new.count
            /\ ~new.started /\ ~new.stopped
        BY <1>2, <2>8 DEF Onward
      <3>2. k + 1 = Len(a)
        BY <2>5, <2>8
      <3>3. \E e \in 1 .. Len(b) : StopsAt(r.pattern, b, e)
        BY DEF Tabled
      <3>4. Within(new, b, (k + 1) - Len(a))
        <4>1. (k + 1) - Len(a) = 0
          BY <2>2, <3>2
        <4>2. QED
          BY <3>1, <3>3, <4>1 DEF Within
      <3>5. Len(a) \in 0 .. k + 1
        BY <2>2, <3>2
      <3>6. LastOne(new, s, k + 1)
        BY <2>2, <3>1, <3>4, <3>5 DEF LastOne
      <3>7. QED
        BY <3>1, <3>6 DEF Progress
    <2>9. QED
      BY <2>5, <2>6, <2>7, <2>8 DEF m
  <1>3. QED
    BY <1>1, <1>2 DEF Progress

LEMMA SeveralAnswers ==
  ASSUME NEW p, NEW n, n # 1, NEW s \in Answers(p, n)
  PROVE  \E a, b \in Table[p].answers : s = a \o b
  BY DEF Answers

(***************************************************************************)
(* A redirection whose command was just sent has heard nothing.            *)
(***************************************************************************)
LEMMA ProgressBegins ==
  ASSUME Tabled, NEW r, r.pattern \in Redirected, r.current = 1,
         ~r.started, ~r.stopped, NEW s \in Answers(r.pattern, r.count),
         r.count \in (IF Table[r.pattern].extra = {} THEN {1, 2} ELSE {1})
  PROVE  Progress(r, s, 0)
  <1>0. r.pattern \in Pattern
    BY DEF Redirected
  <1>1. ASSUME NEW a \in Table[r.pattern].answers
        PROVE  Within(r, a, 0)
    <2>1. \E e \in 1 .. Len(a) : StopsAt(r.pattern, a, e)
      BY DEF Tabled
    <2>2. QED
      BY <2>1 DEF Within
  <1>2. CASE r.count = 1
    <2>1. s \in Table[r.pattern].answers
      BY <1>2 DEF Answers
    <2>2. Len(s) \in Nat
      BY <1>0, <2>1, TwoAnswers
    <2>3. /\ 0 \in 0 .. 0 /\ 0 - 0 = 0 /\ Len(s) = 0 + Len(s)
          /\ \A i \in 1 .. Len(s) : s[0 + i] = s[i]
      BY <2>2
    <2>4. LastOne(r, s, 0)
      <3>1. Within(r, s, 0 - 0)
        BY <1>1, <2>1, <2>3
      <3>2. \E d \in 0 .. 0 :
              /\ Len(s) = d + Len(s) /\ \A i \in 1 .. Len(s) : s[d + i] = s[i]
              /\ Within(r, s, 0 - d)
        <4>1. WITNESS 0 \in 0 .. 0
        <4>2. QED
          BY <2>3, <3>1
      <3>3. QED
        BY <2>1, <3>2, Zenon DEF LastOne
    <2>5. QED
      BY <1>2, <2>4 DEF Progress
  <1>3. CASE r.count = 2
    <2>1. \E a, b \in Table[r.pattern].answers : s = a \o b
      <3>1. r.count # 1
        BY <1>3
      <3>2. QED
        BY <3>1, SeveralAnswers
    <2>2. FirstOfTwo(r, s, 0)
      BY <1>1, <2>1 DEF FirstOfTwo
    <2>3. Table[r.pattern].extra = {}
      BY <1>3
    <2>4. QED
      BY <1>3, <2>2, <2>3 DEF Progress
  <1>4. QED
    BY <1>2, <1>3

-----------------------------------------------------------------------------
(* What the server is going to say                                         *)

(***************************************************************************)
(* The messages to come are whole answers, in the order of the questions,  *)
(* but for the first one, which may have begun: message n of the answer to *)
(* x is at place o[x] + n.                                                 *)
(***************************************************************************)
Placed(w, s, o, i, x) ==
  /\ i - o[x] \in 1 .. Len(s[x])
  /\ w[i].kind = s[x][i - o[x]]
  /\ o[x] + Len(s[x]) <= Len(w)
  /\ \A j \in 1 .. Len(w) : o[x] < j /\ j <= o[x] + Len(s[x]) => w[j].of = x
  /\ \A j \in 1 .. i : w[j].of <= x
  /\ x # w[1].of => 0 <= o[x]

Laid(w, s, o) == \A i \in 1 .. Len(w) : Placed(w, s, o, i, w[i].of)

Coming(w, x) == \E i \in 1 .. Len(w) : w[i].of = x

\* How many messages of the answer to x were read.
ReadOf(w, s, o, x) ==
  IF Coming(w, x) THEN IF o[x] < 0 THEN 0 - o[x] ELSE 0
  ELSE Len(s[x])

Spoken(w, s, o) ==
  /\ w \in Seq(Message) /\ s \in [Question -> Seq(Reply)]
  /\ o \in [Question -> Int]
  /\ \A i \in 1 .. Len(w) : w[i].of \in Question
  /\ Laid(w, s, o)

LEMMA SpokenTypes ==
  ASSUME NEW w, NEW s, NEW o, Spoken(w, s, o)
  PROVE  /\ Len(w) \in Nat
         /\ \A i \in 1 .. Len(w) : w[i].of \in Question /\ w[i].of \in Nat
         /\ \A x \in Question : o[x] \in Int /\ Len(s[x]) \in Nat
  BY LenProperties DEF Spoken, Question

LEMMA FirstPlaced ==
  ASSUME NEW w, NEW s, NEW o, Spoken(w, s, o), w # <<>>
  PROVE  /\ 1 \in 1 .. Len(w) /\ Placed(w, s, o, 1, w[1].of)
         /\ \A x \in Question : Coming(w, x) /\ x # w[1].of => 1 <= o[x]
  <1>1. /\ Len(w) \in Nat
        /\ \A i \in 1 .. Len(w) : w[i].of \in Question
        /\ \A x \in Question : o[x] \in Int /\ Len(s[x]) \in Nat
    BY SpokenTypes
  <1>2. Len(w) # 0
    BY EmptySeq DEF Spoken
  <1>3. 1 \in 1 .. Len(w) /\ Placed(w, s, o, 1, w[1].of)
    BY <1>1, <1>2 DEF Spoken, Laid
  <1>4. ASSUME NEW x \in Question, Coming(w, x), x # w[1].of
        PROVE  1 <= o[x]
    <2>1. PICK i \in 1 .. Len(w) : w[i].of = x
      BY <1>4 DEF Coming
    <2>2. Placed(w, s, o, i, x)
      BY <2>1 DEF Spoken, Laid
    <2>3. 0 <= o[x] /\ i - o[x] \in 1 .. Len(s[x])
      BY <1>4, <2>2 DEF Placed
    <2>4. ~(o[x] < 1 /\ 1 <= o[x] + Len(s[x]))
      BY <1>3, <1>4, <2>2 DEF Placed
    <2>5. o[x] \in Int /\ Len(s[x]) \in Nat /\ i \in Nat
      BY <1>1
    <2>6. QED
      BY <2>3, <2>4, <2>5
  <1>5. QED
    BY <1>3, <1>4

LEMMA ReadFirst ==
  ASSUME NEW w, NEW s, NEW o, Spoken(w, s, o), w # <<>>,
         NEW h, h = w[1].of, NEW k, k = ReadOf(w, s, o, h)
  PROVE  /\ h \in Question /\ Coming(w, h) /\ k \in Nat
         /\ k < Len(s[h]) /\ w[1].kind = s[h][k + 1] /\ o[h] = 0 - k
         /\ 1 + k < Len(s[h]) => 2 \in 1 .. Len(w) /\ w[2].of = h
  <1>1. /\ Len(w) \in Nat /\ 1 \in 1 .. Len(w) /\ Placed(w, s, o, 1, h)
        /\ h \in Question /\ o[h] \in Int /\ Len(s[h]) \in Nat
    BY FirstPlaced, SpokenTypes
  <1>2. Coming(w, h)
    BY <1>1 DEF Coming
  <1>3. /\ 1 - o[h] \in 1 .. Len(s[h]) /\ w[1].kind = s[h][1 - o[h]]
        /\ o[h] + Len(s[h]) <= Len(w)
        /\ \A j \in 1 .. Len(w) :
             o[h] < j /\ j <= o[h] + Len(s[h]) => w[j].of = h
    BY <1>1 DEF Placed
  <1>4. k = 0 - o[h]
    BY <1>1, <1>2, <1>3 DEF ReadOf
  <1>5. k \in Nat /\ k < Len(s[h]) /\ 1 - o[h] = k + 1 /\ o[h] = 0 - k
    BY <1>1, <1>3, <1>4
  <1>6. 1 + k < Len(s[h]) => 2 \in 1 .. Len(w) /\ w[2].of = h
    <2>1. ASSUME 1 + k < Len(s[h])
          PROVE  2 \in 1 .. Len(w) /\ o[h] < 2 /\ 2 <= o[h] + Len(s[h])
      BY <1>1, <1>3, <1>5, <2>1
    <2>2. QED
      BY <1>3, <2>1
  <1>7. QED
    BY <1>1, <1>2, <1>3, <1>5, <1>6

(***************************************************************************)
(* One message is read.                                                    *)
(***************************************************************************)
Earlier(o) == [x \in Question |-> o[x] - 1]

OneRead(w, s, o, v, p) ==
  /\ Spoken(v, s, p)
  /\ ReadOf(v, s, p, w[1].of) = ReadOf(w, s, o, w[1].of) + 1
  /\ \A x \in Question : x # w[1].of =>
       /\ ReadOf(v, s, p, x) = ReadOf(w, s, o, x)
       /\ Coming(v, x) <=> Coming(w, x)
  /\ \A i \in 1 .. Len(v) : v[i].of # w[1].of => 0 <= p[v[i].of]

LEMMA LaidRead ==
  ASSUME NEW w, NEW s, NEW o, Spoken(w, s, o), w # <<>>
  PROVE  OneRead(w, s, o, Tail(w), Earlier(o))
  <1> DEFINE v == Tail(w)
             h == w[1].of
             p == Earlier(o)
             k == ReadOf(w, s, o, h)
  <1>1. /\ Len(w) \in Nat
        /\ \A i \in 1 .. Len(w) : w[i].of \in Question /\ w[i].of \in Nat
        /\ \A x \in Question : o[x] \in Int /\ Len(s[x]) \in Nat
    BY SpokenTypes
  <1>2. /\ v \in Seq(Message) /\ Len(v) = Len(w) - 1
        /\ \A i \in 1 .. Len(v) : v[i] = w[i + 1]
    BY HeadTailProperties DEF Spoken
  <1>3. \A i \in 1 .. Len(v) : i + 1 \in 1 .. Len(w)
    BY <1>1, <1>2
  <1>4. p \in [Question -> Int] /\ \A x \in Question : p[x] = o[x] - 1
    BY <1>1 DEF Earlier
  <1>5. \A i \in 1 .. Len(v) : v[i].of \in Question /\ v[i].of \in Nat
    BY <1>1, <1>2, <1>3
  <1>6. \A x \in Question : Coming(w, x) /\ x # h => 1 <= o[x]
    BY FirstPlaced
  <1> HIDE DEF p, k, v
  <1>7. ASSUME NEW x \in Question, x # h
        PROVE  Coming(v, x) <=> Coming(w, x)
    <2>1. Coming(v, x) => Coming(w, x)
      BY <1>2, <1>3 DEF Coming
    <2>2. ASSUME Coming(w, x) PROVE Coming(v, x)
      <3>1. PICK i \in 1 .. Len(w) : w[i].of = x
        BY <2>2 DEF Coming
      <3>2. i # 1
        BY <1>7, <3>1
      <3>3. i - 1 \in 1 .. Len(v) /\ (i - 1) + 1 = i
        BY <1>1, <1>2, <3>2
      <3>4. v[i - 1] = w[i]
        BY <1>2, <3>3
      <3>5. QED
        BY <3>1, <3>3, <3>4 DEF Coming
    <2>3. QED
      BY <2>1, <2>2
  <1>8. ASSUME NEW x \in Question, x # h
        PROVE  ReadOf(v, s, p, x) = ReadOf(w, s, o, x)
    <2>1. CASE Coming(w, x)
      <3>1. 1 <= o[x] /\ o[x] \in Int /\ p[x] = o[x] - 1
        BY <1>1, <1>4, <1>6, <1>8, <2>1
      <3>2. ~(o[x] < 0) /\ ~(p[x] < 0)
        BY <3>1
      <3>3. QED
        BY <1>7, <1>8, <2>1, <3>2 DEF ReadOf
    <2>2. CASE ~Coming(w, x)
      BY <1>7, <1>8, <2>2 DEF ReadOf
    <2>3. QED
      BY <2>1, <2>2
  <1>9. /\ h \in Question /\ k \in Nat /\ k < Len(s[h]) /\ o[h] = 0 - k
        /\ 1 + k < Len(s[h]) => 2 \in 1 .. Len(w) /\ w[2].of = h
    BY ReadFirst DEF k
  <1>10. ReadOf(v, s, p, h) = k + 1
    <2>1. CASE Coming(v, h)
      <3>1. p[h] = 0 - (k + 1)
        BY <1>4, <1>9
      <3>2. p[h] < 0 /\ 0 - p[h] = k + 1
        BY <1>9, <3>1
      <3>3. QED
        BY <2>1, <3>2 DEF ReadOf
    <2>2. CASE ~Coming(v, h)
      <3>1. ~(1 + k < Len(s[h]))
        <4>1. ASSUME 1 + k < Len(s[h]) PROVE FALSE
          <5>1. 2 \in 1 .. Len(w) /\ w[2].of = h
            BY <1>9, <4>1
          <5>2. 1 \in 1 .. Len(v) /\ 1 + 1 = 2
            BY <1>1, <1>2, <5>1
          <5>3. v[1].of = h
            BY <1>2, <5>1, <5>2
          <5>4. QED
            BY <2>2, <5>2, <5>3 DEF Coming
        <4>2. QED
          BY <4>1
      <3>2. Len(s[h]) \in Nat
        BY <1>1, <1>9
      <3>3. Len(s[h]) = k + 1
        BY <1>9, <3>1, <3>2
      <3>4. QED
        BY <2>2, <3>3 DEF ReadOf
    <2>3. QED
      BY <2>1, <2>2
  <1>11. ASSUME NEW i \in 1 .. Len(v), v[i].of # h
         PROVE  0 <= p[v[i].of]
    <2>1. v[i].of \in Question /\ Coming(w, v[i].of)
      BY <1>2, <1>3, <1>5 DEF Coming
    <2>2. 1 <= o[v[i].of] /\ o[v[i].of] \in Int /\ p[v[i].of] = o[v[i].of] - 1
      BY <1>1, <1>4, <1>6, <1>11, <2>1
    <2>3. QED
      BY <2>2
  <1>12. ASSUME NEW i \in 1 .. Len(v)
         PROVE  Placed(v, s, p, i, v[i].of)
    <2> DEFINE x == v[i].of
    <2>1. /\ v[i] = w[i + 1] /\ i + 1 \in 1 .. Len(w) /\ i \in Nat
          /\ x \in Question /\ x \in Nat
          /\ o[x] \in Int /\ Len(s[x]) \in Nat /\ p[x] = o[x] - 1
      BY <1>1, <1>2, <1>3, <1>4, <1>5
    <2>2. Placed(w, s, o, i + 1, x)
      BY <2>1 DEF Spoken, Laid
    <2> HIDE DEF x
    <2>3. i - p[x] = (i + 1) - o[x]
      <3>1. p[x] = o[x] - 1 /\ o[x] \in Int /\ i \in Int
        BY <2>1
      <3>2. i - (o[x] - 1) = (i + 1) - o[x]
        BY <3>1
      <3>3. i - p[x] = i - (o[x] - 1)
        BY <3>1, Zenon
      <3>4. QED
        BY <3>2, <3>3, Zenon
    <2>4. i - p[x] \in 1 .. Len(s[x]) /\ w[i + 1].kind = s[x][i - p[x]]
      BY <2>2, <2>3 DEF Placed
    <2>5. p[x] + Len(s[x]) <= Len(v)
      <3>1. o[x] + Len(s[x]) <= Len(w)
        BY <2>2 DEF Placed
      <3>2. QED
        BY <1>1, <1>2, <2>1, <3>1
    <2>6. ASSUME NEW j \in 1 .. Len(v), p[x] < j, j <= p[x] + Len(s[x])
          PROVE  v[j].of = x
      <3>1. j + 1 \in 1 .. Len(w)
        BY <1>3
      <3>2. p[x] = o[x] - 1 /\ o[x] \in Int /\ Len(s[x]) \in Nat /\ j \in Int
        BY <2>1
      <3>3. o[x] < j + 1 /\ j + 1 <= o[x] + Len(s[x])
        BY <2>6, <3>2
      <3>4. w[j + 1].of = x
        BY <2>2, <3>1, <3>3 DEF Placed
      <3>5. QED
        BY <1>2, <3>4
    <2>7. ASSUME NEW j \in 1 .. i PROVE v[j].of <= x
      <3>1. j \in 1 .. Len(v) /\ j + 1 \in 1 .. i + 1
        BY <1>1, <1>2
      <3>2. w[j + 1].of <= x
        BY <2>2, <3>1 DEF Placed
      <3>3. QED
        BY <1>2, <3>1, <3>2
    <2>8. x # v[1].of => 0 <= p[x]
      <3>1. CASE x = h
        <4>1. 1 \in 1 .. i /\ 1 \in 1 .. Len(v) /\ 1 + 1 \in 1 .. Len(w)
          BY <1>1, <1>2, <1>3
        <4>2. v[1].of <= x /\ v[1] = w[1 + 1] /\ v[1].of \in Nat
          BY <1>2, <1>5, <2>7, <4>1
        <4>3. Placed(w, s, o, 1 + 1, w[1 + 1].of)
          BY <4>1 DEF Spoken, Laid
        <4>4. 1 \in 1 .. 1 + 1
          OBVIOUS
        <4>5. w[1].of <= w[1 + 1].of
          BY <4>3, <4>4 DEF Placed
        <4>6. x <= v[1].of
          BY <3>1, <4>2, <4>5
        <4>7. QED
          BY <2>1, <4>2, <4>6
      <3>2. CASE x # h
        BY <1>11, <3>2 DEF x
      <3>3. QED
        BY <3>1, <3>2
    <2>9. v[i].kind = s[x][i - p[x]]
      BY <2>1, <2>4
    <2>10. Placed(v, s, p, i, x)
      BY <2>4, <2>5, <2>6, <2>7, <2>8, <2>9 DEF Placed
    <2>11. QED
      BY <2>10 DEF x
  <1>13. Spoken(v, s, p)
    BY <1>2, <1>4, <1>5, <1>12 DEF Spoken, Laid
  <1>14. QED
    BY <1>7, <1>8, <1>10, <1>11, <1>13 DEF OneRead, p, k, v

(***************************************************************************)
(* A whole answer is added for a question later than all the others.       *)
(***************************************************************************)
WholeAnswer(a, q) == [i \in 1 .. Len(a) |-> [kind |-> a[i], of |-> q]]

OneSaid(w, s, o, q, a, v, t, p) ==
  /\ Spoken(v, t, p)
  /\ ReadOf(v, t, p, q) = 0
  /\ \A x \in Question : x # q =>
       /\ ReadOf(v, t, p, x) = ReadOf(w, s, o, x)
       /\ Coming(v, x) <=> Coming(w, x)
  /\ Len(a) >= 1 => Coming(v, q)
  /\ \A i \in 1 .. Len(v) :
       \/ v[i].of = q /\ \E j \in 1 .. Len(a) : v[i].kind = a[j]
       \/ /\ v[i].of # q /\ i \in 1 .. Len(w) /\ v[i] = w[i]
          /\ v[1] = w[1] /\ p[v[1].of] = o[w[1].of]
  /\ p[q] >= 0

LEMMA LaidSaid ==
  ASSUME NEW w, NEW s, NEW o, Spoken(w, s, o),
         NEW q \in Question, \A i \in 1 .. Len(w) : w[i].of < q,
         NEW a \in Seq(Reply)
  PROVE  OneSaid(w, s, o, q, a, w \o WholeAnswer(a, q), [s EXCEPT ![q] = a],
                 [o EXCEPT ![q] = Len(w)])
  <1> DEFINE v == w \o WholeAnswer(a, q)
             t == [s EXCEPT ![q] = a]
             p == [o EXCEPT ![q] = Len(w)]
             u == WholeAnswer(a, q)
  <1>1. /\ Len(w) \in Nat /\ w \in Seq(Message)
        /\ \A i \in 1 .. Len(w) : w[i].of \in Question /\ w[i].of \in Nat
        /\ \A x \in Question : o[x] \in Int /\ Len(s[x]) \in Nat
    BY SpokenTypes DEF Spoken
  <1>2. Len(a) \in Nat /\ \A i \in 1 .. Len(a) : a[i] \in Reply
    BY LenProperties, ElementOfSeq
  <1>3. u \in Seq(Message)
    <2>1. \A i \in 1 .. Len(a) : [kind |-> a[i], of |-> q] \in Message
      BY <1>2 DEF Message
    <2>2. QED
      BY <1>2, <2>1, IsASeq DEF WholeAnswer
  <1>4. /\ Len(u) = Len(a)
        /\ \A i \in 1 .. Len(a) : u[i].kind = a[i] /\ u[i].of = q
    BY <1>2 DEF WholeAnswer
  <1>5. v = w \o u
    OBVIOUS
  <1> HIDE DEF u, v
  <1>6. /\ v \in Seq(Message) /\ Len(v) = Len(w) + Len(a) /\ Len(v) \in Nat
        /\ \A i \in 1 .. Len(v) :
             v[i] = IF i <= Len(w) THEN w[i] ELSE u[i - Len(w)]
    BY <1>1, <1>2, <1>3, <1>4, <1>5, ConcatProperties
  <1>7. \A i \in 1 .. Len(w) : i \in 1 .. Len(v) /\ v[i] = w[i]
    BY <1>1, <1>2, <1>6
  <1>8. ASSUME NEW i \in 1 .. Len(v), i \notin 1 .. Len(w)
        PROVE  /\ i - Len(w) \in 1 .. Len(a)
               /\ v[i].of = q /\ v[i].kind = a[i - Len(w)]
    <2>1. i - Len(w) \in 1 .. Len(a) /\ ~(i <= Len(w))
      BY <1>1, <1>2, <1>6, <1>8
    <2>2. v[i] = u[i - Len(w)]
      BY <1>6, <2>1
    <2>3. QED
      BY <1>4, <2>1, <2>2
  <1>9. \A i \in 1 .. Len(w) : w[i].of # q
    BY <1>1 DEF Question
  <1>10. /\ t \in [Question -> Seq(Reply)] /\ t[q] = a
         /\ \A x \in Question : x # q => t[x] = s[x]
    BY DEF Spoken
  <1>11. /\ p \in [Question -> Int] /\ p[q] = Len(w)
         /\ \A x \in Question : x # q => p[x] = o[x]
    BY <1>1 DEF Spoken
  <1> HIDE DEF t, p
  <1>12. ~Coming(w, q)
    BY <1>9 DEF Coming
  <1>13. ASSUME NEW x \in Question, x # q
         PROVE  Coming(v, x) <=> Coming(w, x)
    BY <1>7, <1>8, <1>13 DEF Coming
  <1>14. Len(a) >= 1 => Coming(v, q)
    <2>1. ASSUME Len(a) >= 1 PROVE Coming(v, q)
      <3>1. Len(v) \in 1 .. Len(v) /\ Len(v) \notin 1 .. Len(w)
        BY <1>1, <1>2, <1>6, <2>1
      <3>2. QED
        BY <1>8, <3>1 DEF Coming
    <2>2. QED
      BY <2>1
  <1>15. \A x \in Question : x # q => ReadOf(v, t, p, x) = ReadOf(w, s, o, x)
    BY <1>10, <1>11, <1>13, Zenon DEF ReadOf
  <1>16. ReadOf(v, t, p, q) = 0
    <2>1. CASE Coming(v, q)
      <3>1. ~(p[q] < 0)
        BY <1>1, <1>11
      <3>2. QED
        BY <2>1, <3>1 DEF ReadOf
    <2>2. CASE ~Coming(v, q)
      <3>1. Len(a) = 0
        BY <1>2, <1>14, <2>2
      <3>2. QED
        BY <1>10, <2>2, <3>1 DEF ReadOf
    <2>3. QED
      BY <2>1, <2>2
  <1>17. ASSUME NEW i \in 1 .. Len(v)
         PROVE  /\ v[i].of \in Question /\ v[i].of \in Nat
                /\ v[i].of <= q
    <2>1. CASE i \in 1 .. Len(w)
      <3>1. v[i] = w[i] /\ w[i].of < q /\ w[i].of \in Question /\ w[i].of \in Nat
        BY <1>1, <1>7, <2>1
      <3>2. QED
        BY <3>1 DEF Question
    <2>2. CASE i \notin 1 .. Len(w)
      BY <1>8, <2>2 DEF Question
    <2>3. QED
      BY <2>1, <2>2
  <1>18. ASSUME NEW i \in 1 .. Len(w)
         PROVE  Placed(v, t, p, i, w[i].of)
    <2> DEFINE x == w[i].of
    <2>1. /\ x \in Question /\ x # q /\ Placed(w, s, o, i, x)
          /\ o[x] \in Int /\ Len(s[x]) \in Nat
      BY <1>1, <1>9 DEF Spoken, Laid
    <2>2. p[x] = o[x] /\ t[x] = s[x] /\ v[i] = w[i]
      BY <1>7, <1>10, <1>11, <2>1
    <2>3. 1 \in 1 .. Len(w) /\ v[1] = w[1]
      BY <1>1, <1>7
    <2> HIDE DEF x
    <2>4. o[x] + Len(s[x]) <= Len(w) /\ o[x] + Len(s[x]) <= Len(v)
      <3>1. o[x] + Len(s[x]) <= Len(w)
        BY <2>1 DEF Placed
      <3>2. QED
        BY <1>1, <1>2, <1>6, <2>1, <3>1
    <2>5. ASSUME NEW j \in 1 .. Len(v), o[x] < j, j <= o[x] + Len(s[x])
          PROVE  v[j].of = x
      <3>1. j \in 1 .. Len(w)
        BY <1>1, <2>1, <2>4, <2>5
      <3>2. w[j].of = x
        BY <2>1, <2>5, <3>1 DEF Placed
      <3>3. QED
        BY <1>7, <3>1, <3>2
    <2>6. ASSUME NEW j \in 1 .. i PROVE v[j].of <= x
      <3>1. j \in 1 .. Len(w)
        BY <1>1
      <3>2. w[j].of <= x
        BY <2>1 DEF Placed
      <3>3. QED
        BY <1>7, <3>1, <3>2
    <2>7. /\ i - p[x] \in 1 .. Len(t[x])
          /\ v[i].kind = t[x][i - p[x]]
          /\ x # v[1].of => 0 <= p[x]
      BY <2>1, <2>2, <2>3 DEF Placed
    <2>8. Placed(v, t, p, i, x)
      BY <2>2, <2>4, <2>5, <2>6, <2>7 DEF Placed
    <2>9. QED
      BY <2>8 DEF x
  <1>19. ASSUME NEW i \in 1 .. Len(v), i \notin 1 .. Len(w)
         PROVE  Placed(v, t, p, i, q)
    <2>1. /\ i - p[q] \in 1 .. Len(t[q]) /\ v[i].kind = t[q][i - p[q]]
      BY <1>8, <1>10, <1>11, <1>19
    <2>2. p[q] + Len(t[q]) <= Len(v) /\ 0 <= p[q]
      BY <1>1, <1>2, <1>6, <1>10, <1>11
    <2>3. ASSUME NEW j \in 1 .. Len(v), p[q] < j PROVE v[j].of = q
      <3>1. j \notin 1 .. Len(w)
        BY <1>1, <1>11, <2>3
      <3>2. QED
        BY <1>8, <3>1
    <2>4. \A j \in 1 .. i : v[j].of <= q
      <3>1. \A j \in 1 .. i : j \in 1 .. Len(v)
        BY <1>6
      <3>2. QED
        BY <1>17, <3>1
    <2>5. QED
      BY <2>1, <2>2, <2>3, <2>4 DEF Placed
  <1>20. ASSUME NEW i \in 1 .. Len(v)
         PROVE  Placed(v, t, p, i, v[i].of)
    <2>1. CASE i \in 1 .. Len(w)
      BY <1>7, <1>18, <2>1
    <2>2. CASE i \notin 1 .. Len(w)
      BY <1>8, <1>19, <2>2
    <2>3. QED
      BY <2>1, <2>2
  <1>21. Spoken(v, t, p)
    BY <1>6, <1>10, <1>11, <1>17, <1>20 DEF Spoken, Laid
  <1>22. ASSUME NEW i \in 1 .. Len(v)
         PROVE  \/ v[i].of = q /\ \E j \in 1 .. Len(a) : v[i].kind = a[j]
                \/ /\ v[i].of # q /\ i \in 1 .. Len(w) /\ v[i] = w[i]
                   /\ v[1] = w[1] /\ p[v[1].of] = o[w[1].of]
    <2>1. CASE i \in 1 .. Len(w)
      <3>1. 1 \in 1 .. Len(w)
        BY <1>1, <2>1
      <3>2. v[1] = w[1] /\ w[1].of \in Question /\ w[1].of # q
        BY <1>1, <1>7, <1>9, <3>1
      <3>3. p[v[1].of] = o[w[1].of]
        BY <1>11, <3>2
      <3>4. v[i].of # q /\ v[i] = w[i]
        BY <1>7, <1>9, <2>1
      <3>5. QED
        BY <2>1, <3>2, <3>3, <3>4
    <2>2. CASE i \notin 1 .. Len(w)
      BY <1>8, <2>2
    <2>3. QED
      BY <2>1, <2>2
  <1>23. p[q] >= 0
    BY <1>1, <1>11
  <1>24. QED
    BY <1>13, <1>14, <1>15, <1>16, <1>21, <1>22, <1>23 DEF OneSaid, v, t, p

-----------------------------------------------------------------------------
(* The invariant                                                           *)

(***************************************************************************)
(* The inductive invariant.                                                *)
(***************************************************************************)
Untouched(r) == r.current = 1 /\ ~r.started /\ ~r.stopped /\ r.output = <<>>

\* A redirection has its own command, or waits for it.
Attached(r, q) ==
  /\ r.count \in Table[r.pattern].counts
  /\ \/ r.state = "assigned" /\ Untouched(r)
     \/ r.state = "sent" /\ r.command = q

Listed == \A q \in list : Attached(redirect[q], q)

\* What a redirection that was sent has read of its answer.
Following(r, q, w, s, o) ==
  /\ Progress(r, s[q], ReadOf(w, s, o, q))
  /\ r.output = Kept(q, s[q], Table[r.pattern].filter)[ReadOf(w, s, o, q)]
  /\ ~Coming(w, q) => \A i \in 1 .. Len(w) : q < w[i].of /\ 0 <= o[w[1].of]

Foreign(k) ==
  \A r \in Redirected :
    k \notin Table[r].start \union Table[r].stop \union Table[r].extra

\* The messages to come are for a redirection, or answer the user.
Voiced ==
  \A i \in 1 .. Len(wire) :
    /\ wire[i].of <= issued /\ wire[i].of \notin ended
    /\ wire[i].of \in Sent \/ (wire[i].of \notin list /\ Foreign(wire[i].kind))

Story(o) ==
  /\ Spoken(wire, said, o)
  /\ \A q \in Sent : Following(redirect[q], q, wire, said, o)

Had(r, q, s) == r.output = Kept(q, s[q], Table[r.pattern].filter)[Len(s[q])]

Concluded == \A q \in ended : q <= issued /\ Had(redirect[q], q, said)

\* A queue holds later questions than were sent, in order.
Later(q, X, w) ==
  /\ \A x \in X : x < q
  /\ \A i \in 1 .. Len(w) : w[i].of < q

Lined ==
  \A p \in Queue : \A i \in 1 .. Len(outqueue[p]) :
    /\ \/ outqueue[p][i].redirect = outqueue[p][i].question
       \/ /\ outqueue[p][i].redirect = 0
          /\ outqueue[p][i].question \notin list \union ended
          /\ redirect[outqueue[p][i].question].pattern \in Plain
          /\ redirect[outqueue[p][i].question].count = 1
    /\ \A j \in 1 .. i - 1 : outqueue[p][j].question < outqueue[p][i].question
    /\ Later(outqueue[p][i].question, Sent \union ended, wire)

Orders ==
  Paired /\ Listed /\ Voiced /\ Concluded /\ Lined /\ \E o : Story(o)

-----------------------------------------------------------------------------
(* What a message does                                                     *)

LEMMA OwnMessage ==
  ASSUME TypeOK, NEW q \in Question, NEW m, m.of = q
  PROVE  /\ Takes(q, m) <=> Taking(redirect[q], m.kind)
         /\ Begins(q, m) <=> Starting(redirect[q], m.kind)
         /\ Finishes(q, m) <=> Finishing(redirect[q], m.kind)
         /\ (~Begins(q, m) /\ Match(q, m, "stop")) <=> Stopping(redirect[q], m.kind)
  <1>1. redirect[q].pattern \in Pattern
    BY DEF TypeOK, Redirect
  <1>2. /\ Match(q, m, "start") <=> m.kind \in Table[redirect[q].pattern].start
        /\ Match(q, m, "stop") <=> m.kind \in Table[redirect[q].pattern].stop
        /\ Match(q, m, "extra") <=> m.kind \in Table[redirect[q].pattern].extra
    BY <1>1, TableFacts DEF Match
  <1>3. Begins(q, m) <=> Starting(redirect[q], m.kind)
    BY <1>2 DEF Begins, Starting
  <1>4. (~Begins(q, m) /\ Match(q, m, "stop")) <=> Stopping(redirect[q], m.kind)
    BY <1>2, <1>3 DEF Stopping
  <1>5. Takes(q, m) <=> Taking(redirect[q], m.kind)
    BY <1>2 DEF Takes, Taking
  <1>6. Finishes(q, m) <=> Finishing(redirect[q], m.kind)
    BY <1>2, <1>4 DEF Finishes, Finishing
  <1>7. QED
    BY <1>3, <1>4, <1>5, <1>6

LEMMA OtherMessage ==
  ASSUME TypeOK, NEW q \in Question, NEW m, Takes(q, m)
  PROVE  IF redirect[q].stopped
           THEN m.kind \in Table[redirect[q].pattern].extra
           ELSE \/ redirect[q].started
                \/ m.kind \in Table[redirect[q].pattern].start
                                \union Table[redirect[q].pattern].stop
  <1>1. redirect[q].pattern \in Pattern
    BY DEF TypeOK, Redirect
  <1>2. QED
    BY <1>1, TableFacts DEF Takes, Match

(***************************************************************************)
(* h, if it is not 0, takes the message; the redirections that wait for an *)
(* extra message come before it, and have their last answer.               *)
(***************************************************************************)
Heeds(m, h) ==
  /\ h # 0 => h \in Takers(m)
  /\ h = 0 => Takers(m) = {}
  /\ \A r \in Takers(m) : h <= r
  /\ \A r \in Sent : r # h /\ redirect[r].stopped =>
       /\ redirect[r].current = redirect[r].count
       /\ \A x \in Takers(m) : r < x

Waiting(h) == {r \in Sent : r # h /\ redirect[r].stopped}

LEMMA HeedsOthers ==
  ASSUME TypeOK, NEW m \in Message, NEW h \in Question \union {0}, Heeds(m, h),
         RedirectMessage(m), NEW q \in Question, q # h
  PROVE  /\ redirect'[q].output = redirect[q].output
         /\ redirect'[q].pattern = redirect[q].pattern
         /\ redirect'[q].count = redirect[q].count
         /\ q \in Waiting(h) <=> q \in list /\ q \notin list'
         /\ q \in ended' <=> q \in ended \/ q \in Waiting(h)
         /\ q \in list' => q \in list
         /\ q \notin Waiting(h) => redirect'[q] = redirect[q]
  <1>1. /\ redirect \in [Question -> Redirect] /\ list \subseteq Question
        /\ redirect' = [x \in Question |-> After(x, m)]
        /\ list' = list \ Removed(m) /\ ended' = ended \union Removed(m)
    BY RedirectAssumption DEF TypeOK, RedirectMessage, Question
  <1>2. redirect'[q] = After(q, m)
    BY <1>1
  <1>3. ~IsTaker(q, m)
    <2>1. ASSUME IsTaker(q, m) PROVE FALSE
      <3>1. q \in Takers(m) /\ \A r \in Takers(m) : q <= r
        BY <2>1 DEF IsTaker
      <3>2. h # 0 /\ h \in Takers(m) /\ h <= q
        BY <3>1 DEF Heeds
      <3>3. q <= h /\ h \in Nat /\ q \in Nat
        BY <3>1, <3>2 DEF Question
      <3>4. QED
        BY <3>2, <3>3
    <2>2. QED
      BY <2>1
  <1>4. Stops(q, m) <=> q \in Waiting(h)
    BY <1>3 DEF Stops, Overdue, Waiting, Heeds
  <1>5. q \in Removed(m) <=> q \in Waiting(h)
    <2>1. q \in Waiting(h) => q \in list /\ redirect[q].current = redirect[q].count
      BY DEF Waiting, Sent, Heeds
    <2>2. redirect[q].current \in Nat /\ redirect[q].count \in Nat
      BY <1>1 DEF Redirect
    <2>3. q \in Waiting(h) => IsLast(q)
      BY <2>1, <2>2 DEF IsLast
    <2>4. QED
      BY <1>4, <2>1, <2>3 DEF Removed
  <1>6. /\ redirect'[q].pattern = redirect[q].pattern
        /\ redirect'[q].count = redirect[q].count
    BY <1>1, <1>2, AfterType
  <1>7. /\ redirect'[q].output = redirect[q].output
        /\ q \notin Waiting(h) => redirect'[q] = redirect[q]
    BY <1>1, <1>2, <1>3, <1>4, AfterFields
  <1>8. q \in Waiting(h) => q \in list
    BY DEF Waiting, Sent
  <1>9. QED
    BY <1>1, <1>5, <1>6, <1>7, <1>8

LEMMA HeedsTaker ==
  ASSUME TypeOK, NEW m \in Message, NEW h \in Question, Heeds(m, h), m.of = h,
         RedirectMessage(m), NEW r, r = redirect[h]
  PROVE  /\ h \in Sent
         /\ redirect'[h].state = "sent" /\ redirect'[h].command = r.command
         /\ Onward(redirect'[h], r, m.kind)
         /\ redirect'[h].output = IF m.kind \in Table[r.pattern].filter
                                    THEN Append(r.output, m) ELSE r.output
         /\ IF Finishing(r, m.kind) /\ r.current = r.count
              THEN h \notin list' /\ h \in ended'
              ELSE h \in list' /\ (h \in ended' => h \in ended)
  <1>1. /\ redirect \in [Question -> Redirect]
        /\ redirect' = [x \in Question |-> After(x, m)]
        /\ list' = list \ Removed(m) /\ ended' = ended \union Removed(m)
    BY DEF TypeOK, RedirectMessage
  <1>2. redirect'[h] = After(h, m) /\ h # 0
    BY <1>1 DEF Question
  <1>3. IsTaker(h, m)
    BY <1>2 DEF Heeds, IsTaker
  <1>4. h \in Sent /\ h \in list /\ r.state = "sent"
    BY <1>3 DEF IsTaker, Takers, Sent
  <1>5. Stops(h, m) <=> Finishing(r, m.kind)
    <2>1. ~Overdue(h, m)
      <3>1. h \in Takers(m) /\ ~(h < h)
        BY <1>3 DEF IsTaker, Question
      <3>2. QED
        BY <3>1 DEF Overdue
    <2>2. Stops(h, m) <=> Finishes(h, m)
      BY <1>3, <2>1 DEF Stops
    <2>3. QED
      BY <2>2, OwnMessage
  <1>6. /\ redirect'[h].state = r.state /\ redirect'[h].command = r.command
        /\ redirect'[h].pattern = r.pattern /\ redirect'[h].count = r.count
        /\ redirect'[h].current = IF Stops(h, m) THEN r.current + 1 ELSE r.current
    BY <1>1, <1>2, AfterType
  <1>7. /\ redirect'[h].output = Added(h, m)
        /\ Stops(h, m) => ~redirect'[h].started /\ ~redirect'[h].stopped
        /\ ~Stops(h, m) =>
             /\ redirect'[h].started <=> (r.started \/ Begins(h, m))
             /\ redirect'[h].stopped <=> (~Begins(h, m) /\ Match(h, m, "stop"))
    BY <1>1, <1>2, <1>3, AfterFields
  <1>8. Onward(redirect'[h], r, m.kind)
    BY <1>5, <1>6, <1>7, OwnMessage DEF Onward
  <1>9. h \in Removed(m) <=> Finishing(r, m.kind) /\ r.current = r.count
    <2>1. r.current \in Nat /\ r.count \in Nat /\ r.current <= r.count
      BY <1>1, <1>4 DEF TypeOK, Redirect
    <2>2. IsLast(h) <=> r.current = r.count
      BY <2>1 DEF IsLast
    <2>3. QED
      BY <1>4, <1>5, <2>2 DEF Removed
  <1>10. QED
    BY <1>1, <1>4, <1>6, <1>7, <1>8, <1>9 DEF Added

LEMMA OrdersTypes ==
  ASSUME Orders
  PROVE  /\ TypeOK /\ list \subseteq Question /\ ended \subseteq Question
         /\ redirect \in [Question -> Redirect]
         /\ issued \in Nat /\ MaxQuestions \in Nat /\ issued <= MaxQuestions
         /\ \A q \in list : q <= issued
         /\ \A q \in Question : q \in Nat /\ q # 0
  <1>1. TypeOK /\ MaxQuestions \in Nat
    BY RedirectAssumption DEF Orders, Paired
  <1>2. /\ issued \in Nat /\ issued <= MaxQuestions /\ list \subseteq 1 .. issued
        /\ redirect \in [Question -> Redirect] /\ ended \subseteq Question
    BY <1>1 DEF TypeOK
  <1>3. list \subseteq Question /\ \A q \in list : q <= issued
    BY <1>1, <1>2 DEF Question
  <1>4. \A q \in Question : q \in Nat /\ q # 0
    BY DEF Question
  <1>5. QED
    BY <1>1, <1>2, <1>3, <1>4

LEMMA SentFacts ==
  ASSUME Orders, NEW o, Story(o), NEW q \in Sent, NEW k,
         k = ReadOf(wire, said, o, q)
  PROVE  /\ q \in list /\ q \in Question /\ redirect[q] \in Redirect
         /\ redirect[q].pattern \in Redirected /\ redirect[q].pattern \in Pattern
         /\ redirect[q].current \in Nat /\ redirect[q].count \in Nat
         /\ redirect[q].command = q
         /\ k \in Nat /\ k <= Len(said[q]) /\ Len(said[q]) \in Nat
         /\ Coming(wire, q) => k < Len(said[q])
         /\ Coming(wire, q) /\ q # wire[1].of =>
              ~redirect[q].started /\ ~redirect[q].stopped
         /\ ~Coming(wire, q) =>
              /\ k = Len(said[q]) /\ redirect[q].stopped
              /\ redirect[q].current = redirect[q].count
  <1>1. /\ q \in list /\ q \in Question /\ redirect[q].state = "sent"
        /\ redirect[q] \in Redirect
    BY OrdersTypes DEF Sent
  <1>2. Attached(redirect[q], q)
    BY <1>1 DEF Orders, Listed
  <1>3. redirect[q].count \in Table[redirect[q].pattern].counts
    BY <1>2 DEF Attached
  <1>4. /\ redirect[q].pattern \in Pattern /\ redirect[q].current \in Nat
        /\ redirect[q].count \in Nat
    BY <1>1 DEF Redirect
  <1>5. redirect[q].pattern \in Redirected /\ redirect[q].command = q
    BY <1>1, <1>2, <1>3, <1>4 DEF Redirected, Attached
  <1>6. Spoken(wire, said, o) /\ Progress(redirect[q], said[q], k)
    BY DEF Story, Following
  <1>7. /\ Len(wire) \in Nat /\ Len(said[q]) \in Nat /\ o[q] \in Int
    BY <1>1, <1>6, SpokenTypes
  <1>8. ASSUME Coming(wire, q)
        PROVE  k \in Nat /\ k < Len(said[q])
    <2>1. PICK i \in 1 .. Len(wire) : wire[i].of = q
      BY <1>8 DEF Coming
    <2>2. Placed(wire, said, o, i, q)
      BY <1>6, <2>1 DEF Spoken, Laid
    <2>3. i - o[q] \in 1 .. Len(said[q])
      BY <2>2 DEF Placed
    <2>4. k = IF o[q] < 0 THEN 0 - o[q] ELSE 0
      BY <1>8 DEF ReadOf
    <2>5. QED
      BY <1>7, <2>3, <2>4
  <1>9. ~Coming(wire, q) => k = Len(said[q])
    BY DEF ReadOf
  <1>10. k \in Nat /\ k <= Len(said[q])
    BY <1>7, <1>8, <1>9
  <1>11. /\ k = Len(said[q]) =>
              redirect[q].stopped /\ redirect[q].current = redirect[q].count
         /\ k = 0 => ~redirect[q].started /\ ~redirect[q].stopped
    BY <1>4, <1>6, <1>7, <1>10, ProgressFacts
  <1>12. ASSUME Coming(wire, q), q # wire[1].of PROVE k = 0
    <2>1. wire # <<>>
      BY <1>12 DEF Coming
    <2>2. 1 <= o[q]
      BY <1>1, <1>6, <1>12, <2>1, FirstPlaced
    <2>3. ~(o[q] < 0)
      BY <1>7, <2>2
    <2>4. QED
      BY <1>12, <2>3 DEF ReadOf
  <1>13. QED
    BY <1>1, <1>4, <1>5, <1>7, <1>8, <1>9, <1>10, <1>11, <1>12

(***************************************************************************)
(* A redirection that has read its whole answer waits for an extra message *)
(* and is before all the messages to come.                                 *)
(***************************************************************************)
LEMMA StoppedFacts ==
  ASSUME Orders, NEW o, Story(o), NEW q \in Sent, redirect[q].stopped,
         wire = <<>> \/ q # wire[1].of
  PROVE  /\ ~Coming(wire, q) /\ redirect[q].current = redirect[q].count
         /\ wire # <<>> => q < wire[1].of /\ 0 <= o[wire[1].of]
         /\ Had(redirect[q], q, said)
  <1> DEFINE k == ReadOf(wire, said, o, q)
  <1>1. /\ Coming(wire, q) /\ q # wire[1].of => ~redirect[q].stopped
        /\ ~Coming(wire, q) => /\ k = Len(said[q])
                               /\ redirect[q].current = redirect[q].count
    BY SentFacts
  <1>2. ~Coming(wire, q)
    <2>1. wire = <<>> => ~Coming(wire, q)
      BY DEF Coming
    <2>2. QED
      BY <1>1, <2>1
  <1>3. Following(redirect[q], q, wire, said, o) /\ Spoken(wire, said, o)
    BY DEF Story
  <1>4. wire # <<>> => 1 \in 1 .. Len(wire)
    BY <1>3, FirstPlaced
  <1>5. wire # <<>> => q < wire[1].of /\ 0 <= o[wire[1].of]
    BY <1>2, <1>3, <1>4 DEF Following
  <1>6. Had(redirect[q], q, said)
    BY <1>1, <1>2, <1>3 DEF Following, Had
  <1>7. QED
    BY <1>1, <1>2, <1>5, <1>6

\* Orderly, in parts.
LEMMA OrderlyTable ==
  ASSUME Orderly
  PROVE  /\ Tabled
         /\ \A p, r \in Redirected : \A a \in Table[p].answers :
              a[1] \notin Table[r].extra
         /\ \A p \in Redirected :
              Table[p].counts \subseteq
                (IF Table[p].extra = {} THEN {1, 2} ELSE {1})
         /\ \A p \in Plain : \A a \in Table[p].answers :
              \A i \in 1 .. Len(a) : Foreign(a[i])
         /\ Prompt /\ Faults = {} /\ \A i, j \in Prio : i = j
  BY DEF Orderly, Tabled, Foreign

(***************************************************************************)
(* The message that comes first is for its redirection, if it has one.     *)
(***************************************************************************)
LEMMA HeedsWire ==
  ASSUME Orderly, Orders, NEW o, Story(o), wire # <<>>, NEW m, m = wire[1],
         m.of \in Sent
  PROVE  Heeds(m, m.of)
  <1> DEFINE h == m.of
             k == ReadOf(wire, said, o, h)
  <1>1. TypeOK /\ \A q \in Question : q \in Nat /\ q # 0
    BY OrdersTypes
  <1>2. Spoken(wire, said, o)
    BY DEF Story
  <1>3. /\ h \in Question /\ k \in Nat /\ k < Len(said[h])
        /\ m.kind = said[h][k + 1] /\ o[h] = 0 - k
    BY <1>2, ReadFirst
  <1>4. /\ redirect[h].pattern \in Redirected
        /\ redirect[h].pattern \in Pattern
        /\ redirect[h].current \in Nat /\ redirect[h].count \in Nat
        /\ Len(said[h]) \in Nat
    BY SentFacts
  <1>5. Progress(redirect[h], said[h], k)
    BY DEF Story, Following
  <1> HIDE DEF h, k
  <1>6. Tabled
    BY OrderlyTable
  <1>7. Taking(redirect[h], m.kind)
    BY <1>3, <1>4, <1>5, <1>6, ProgressHears
  <1>8. h \in Takers(m)
    BY <1>1, <1>3, <1>7, OwnMessage DEF Takers, h
  <1>9. ASSUME NEW r \in Sent, r # h, redirect[r].stopped
        PROVE  /\ redirect[r].current = redirect[r].count /\ r < h
               /\ r \notin Takers(m)
    <2>1. /\ redirect[r].current = redirect[r].count
          /\ r < h /\ 0 <= o[h]
      BY <1>9, StoppedFacts DEF h
    <2>2. k = 0
      BY <1>3, <2>1
    <2>3. \E a \in Table[redirect[h].pattern].answers : said[h][1] = a[1]
      BY <1>3, <1>4, <1>5, <2>2, ProgressFacts
    <2>4. m.kind = said[h][1]
      BY <1>3, <2>2
    <2>5. redirect[r].pattern \in Redirected /\ r \in Question
      BY <1>9, SentFacts
    <2>6. m.kind \notin Table[redirect[r].pattern].extra
      BY <1>4, <2>3, <2>4, <2>5, OrderlyTable
    <2>7. ~Takes(r, m)
      BY <1>1, <1>9, <2>5, <2>6, OtherMessage
    <2>8. QED
      BY <2>1, <2>7 DEF Takers
  <1>10. ASSUME NEW r \in Takers(m) PROVE h <= r
    <2>1. r \in Sent /\ r \in Question
      BY SentFacts DEF Takers
    <2>2. CASE ~Coming(wire, r)
      <3>1. redirect[r].stopped
        BY <2>1, <2>2, SentFacts
      <3>2. r = h
        BY <1>9, <2>1, <3>1
      <3>3. QED
        BY <1>1, <2>1, <3>2
    <2>3. CASE Coming(wire, r)
      <3>1. PICK i \in 1 .. Len(wire) : wire[i].of = r
        BY <2>3 DEF Coming
      <3>2. Placed(wire, said, o, i, r)
        BY <1>2, <3>1 DEF Spoken, Laid
      <3>3. Len(wire) \in Nat
        BY <1>2, SpokenTypes
      <3>4. 1 \in 1 .. i
        BY <3>3
      <3>5. QED
        BY <3>2, <3>4 DEF Placed, h
    <2>4. QED
      BY <2>2, <2>3
  <1>11. ASSUME NEW r \in Sent, r # h, redirect[r].stopped, NEW x \in Takers(m)
         PROVE  r < x
    <2>1. r < h /\ h <= x
      BY <1>9, <1>10, <1>11
    <2>2. x \in Question /\ r \in Question
      BY <1>11, SentFacts DEF Takers
    <2>3. QED
      BY <1>1, <1>3, <2>1, <2>2
  <1>12. h # 0
    BY <1>1, <1>3
  <1>13. Heeds(m, h)
    BY <1>8, <1>9, <1>10, <1>11, <1>12 DEF Heeds
  <1>14. QED
    BY <1>13 DEF h

(***************************************************************************)
(* Nobody takes another message: not a redirection that has not begun, nor *)
(* one that waits for an extra message.                                    *)
(***************************************************************************)
LEMMA HeedsNobody ==
  ASSUME Orderly, Orders, NEW o, Story(o), NEW m, Foreign(m.kind),
         wire = <<>> \/ wire[1].of \notin Sent
  PROVE  Heeds(m, 0)
  <1>1. TypeOK /\ \A q \in Question : q \in Nat /\ q # 0
    BY OrdersTypes
  <1>2. ASSUME NEW r \in Sent PROVE r \notin Takers(m)
    <2>1. /\ r \in Question /\ redirect[r].pattern \in Redirected
          /\ Coming(wire, r) /\ r # wire[1].of => ~redirect[r].started
          /\ ~Coming(wire, r) => redirect[r].stopped
      BY SentFacts
    <2>2. wire = <<>> => ~Coming(wire, r)
      BY DEF Coming
    <2>3. ~redirect[r].stopped => ~redirect[r].started
      BY <2>1, <2>2
    <2>4. m.kind \notin Table[redirect[r].pattern].start
                   \union Table[redirect[r].pattern].stop
                   \union Table[redirect[r].pattern].extra
      BY <2>1 DEF Foreign
    <2>5. ~Takes(r, m)
      BY <1>1, <2>1, <2>3, <2>4, OtherMessage
    <2>6. QED
      BY <2>5 DEF Takers
  <1>3. Takers(m) = {}
    BY <1>2 DEF Takers
  <1>4. \A r \in Sent : redirect[r].stopped => redirect[r].current = redirect[r].count
    BY StoppedFacts
  <1>5. QED
    BY <1>3, <1>4 DEF Heeds

(***************************************************************************)
(* The redirection that takes the first message has then read one more.    *)
(***************************************************************************)
LEMMA TakerReads ==
  ASSUME Orderly, Orders, NEW o, Story(o), wire # <<>>, NEW m \in Message, m = wire[1],
         NEW h \in Sent, h = m.of, Heeds(m, h), RedirectMessage(m),
         NEW w, w = Tail(wire)
  PROVE  IF h \in list'
           THEN Following(redirect'[h], h, w, said, Earlier(o)) /\ h \notin ended'
           ELSE ~Coming(w, h) /\ Had(redirect'[h], h, said) /\ h \in ended'
  <1> DEFINE k == ReadOf(wire, said, o, h)
             p == Earlier(o)
             r == redirect[h]
             F == Table[r.pattern].filter
  <1>1. TypeOK
    BY OrdersTypes
  <1>2. Spoken(wire, said, o) /\ Following(r, h, wire, said, o)
    BY DEF Story
  <1>3. /\ h \in Question /\ k \in Nat /\ k < Len(said[h])
        /\ m.kind = said[h][k + 1]
    BY <1>2, ReadFirst
  <1>4. /\ Spoken(w, said, p)
        /\ ReadOf(w, said, p, h) = k + 1
        /\ \A i \in 1 .. Len(w) : w[i].of # h => 0 <= p[w[i].of]
    <2>1. OneRead(wire, said, o, w, p)
      BY <1>2, LaidRead
    <2>2. QED
      BY <2>1 DEF OneRead
  <1>5. /\ r.pattern \in Redirected /\ r.current \in Nat /\ r.count \in Nat
        /\ Len(said[h]) \in Nat
    BY SentFacts
  <1>6. /\ Onward(redirect'[h], r, m.kind)
        /\ redirect'[h].output = IF m.kind \in F THEN Append(r.output, m) ELSE r.output
        /\ IF Finishing(r, m.kind) /\ r.current = r.count
             THEN h \notin list' /\ h \in ended'
             ELSE h \in list' /\ (h \in ended' => h \in ended)
    BY <1>1, <1>3, HeedsTaker
  <1>7. Progress(r, said[h], k) /\ r.output = Kept(h, said[h], F)[k]
    BY <1>2 DEF Following
  <1>8. 1 \in 1 .. Len(wire) /\ Len(wire) \in Nat
    BY <1>2, FirstPlaced, SpokenTypes
  <1>9. h \notin ended
    BY <1>8 DEF Orders, Voiced
  <1>10. Tabled
    BY OrderlyTable
  <1> HIDE DEF k, p, r, F
  <1>11. /\ Finishing(r, m.kind) /\ r.current = r.count => k + 1 = Len(said[h])
         /\ ~(Finishing(r, m.kind) /\ r.current = r.count) =>
              Progress(redirect'[h], said[h], k + 1)
    BY <1>3, <1>5, <1>6, <1>7, <1>10, ProgressHears
  <1>12. redirect'[h].output = Kept(h, said[h], F)[k + 1]
    <2>1. k \in 0 .. Len(said[h]) - 1
      BY <1>3, <1>5
    <2>2. Kept(h, said[h], F)[k + 1] =
            IF said[h][k + 1] \in F
              THEN Append(Kept(h, said[h], F)[k], [kind |-> said[h][k + 1], of |-> h])
              ELSE Kept(h, said[h], F)[k]
      BY <1>5, <2>1, KeptFacts
    <2>3. m = [kind |-> said[h][k + 1], of |-> h]
      BY <1>3 DEF Message
    <2>4. QED
      BY <1>3, <1>6, <1>7, <2>2, <2>3
  <1>13. redirect'[h].pattern = r.pattern
    BY <1>6 DEF Onward
  <1>14. ASSUME NEW i \in 1 .. Len(w), ~Coming(w, h)
         PROVE  h < w[i].of /\ 0 <= p[w[1].of]
    <2>1. /\ Len(w) = Len(wire) - 1 /\ w[i] = wire[i + 1]
      BY <1>2, HeadTailProperties DEF Spoken
    <2>2. i + 1 \in 1 .. Len(wire) /\ 1 \in 1 .. Len(w) /\ 1 \in 1 .. i + 1
      BY <1>8, <2>1
    <2>3. Placed(wire, said, o, i + 1, w[i].of)
      BY <1>2, <2>1, <2>2 DEF Spoken, Laid
    <2>4. h <= w[i].of
      BY <2>2, <2>3 DEF Placed
    <2>5. w[i].of # h /\ w[1].of # h
      BY <1>14, <2>2 DEF Coming
    <2>6. w[i].of \in Nat /\ h \in Nat
      BY <1>3, <1>4, SpokenTypes, OrdersTypes
    <2>7. 0 <= p[w[1].of]
      BY <1>4, <2>2, <2>5
    <2>8. QED
      BY <2>4, <2>5, <2>6, <2>7
  <1>15. CASE Finishing(r, m.kind) /\ r.current = r.count
    <2>1. k + 1 = Len(said[h]) /\ h \notin list' /\ h \in ended'
      BY <1>6, <1>11, <1>15
    <2>2. ~Coming(w, h)
      <3>1. ASSUME Coming(w, h) PROVE FALSE
        <4>1. PICK i \in 1 .. Len(w) : w[i].of = h
          BY <3>1 DEF Coming
        <4>2. Placed(w, said, p, i, h)
          BY <1>4, <4>1 DEF Spoken, Laid
        <4>3. i - p[h] \in 1 .. Len(said[h])
          BY <4>2 DEF Placed
        <4>4. ReadOf(w, said, p, h) = IF p[h] < 0 THEN 0 - p[h] ELSE 0
          BY <3>1 DEF ReadOf
        <4>5. p[h] \in Int /\ Len(w) \in Nat
          BY <1>3, <1>4, SpokenTypes
        <4>6. QED
          BY <1>3, <1>4, <1>5, <2>1, <4>3, <4>4, <4>5
      <3>2. QED
        BY <3>1
    <2>3. Had(redirect'[h], h, said)
      BY <1>12, <1>13, <2>1 DEF Had, F
    <2>4. QED
      BY <2>1, <2>2, <2>3
  <1>16. CASE ~(Finishing(r, m.kind) /\ r.current = r.count)
    <2>1. h \in list' /\ h \notin ended'
      BY <1>6, <1>9, <1>16
    <2>2. Progress(redirect'[h], said[h], ReadOf(w, said, p, h))
      BY <1>4, <1>11, <1>16
    <2>3. redirect'[h].output =
            Kept(h, said[h], Table[redirect'[h].pattern].filter)[ReadOf(w, said, p, h)]
      BY <1>4, <1>12, <1>13 DEF F
    <2>4. Following(redirect'[h], h, w, said, p)
      BY <1>14, <2>2, <2>3 DEF Following
    <2>5. QED
      BY <2>1, <2>4 DEF p
  <1>17. QED
    BY <1>15, <1>16

\* What comes is read; or nothing comes.
Turn(m, h, o, p) ==
  \/ /\ wire = <<>> /\ UNCHANGED wire /\ h = 0 /\ p = o
  \/ /\ wire # <<>> /\ m = wire[1] /\ wire' = Tail(wire) /\ p = Earlier(o)
     /\ h = IF m.of \in Sent THEN m.of ELSE 0

LEMMA TurnWire ==
  ASSUME Orders, NEW o, Story(o), NEW m, NEW h, NEW p, Turn(m, h, o, p)
  PROVE  /\ Spoken(wire', said, p)
         /\ \A i \in 1 .. Len(wire') : \E j \in 1 .. Len(wire) : wire'[i] = wire[j]
         /\ \A x \in Question : Coming(wire, x) /\ x # wire[1].of =>
              /\ Coming(wire', x)
              /\ ReadOf(wire', said, p, x) = ReadOf(wire, said, o, x)
  <1>1. Spoken(wire, said, o)
    BY DEF Story
  <1>2. CASE wire = <<>> /\ UNCHANGED wire /\ p = o
    <2>1. \A x : ~Coming(wire, x)
      BY <1>2 DEF Coming
    <2>2. QED
      BY <1>1, <1>2, <2>1
  <1>3. CASE wire # <<>> /\ wire' = Tail(wire) /\ p = Earlier(o)
    <2>1. /\ Spoken(wire', said, p)
          /\ \A x \in Question : x # wire[1].of =>
               /\ ReadOf(wire', said, p, x) = ReadOf(wire, said, o, x)
               /\ Coming(wire', x) <=> Coming(wire, x)
      <3>1. OneRead(wire, said, o, wire', p)
        BY <1>1, <1>3, LaidRead
      <3>2. QED
        BY <3>1 DEF OneRead
    <2>2. /\ Len(wire') = Len(wire) - 1 /\ Len(wire) \in Nat
          /\ \A i \in 1 .. Len(wire') : wire'[i] = wire[i + 1]
      BY <1>1, <1>3, HeadTailProperties DEF Spoken
    <2>3. \A i \in 1 .. Len(wire') : i + 1 \in 1 .. Len(wire)
      BY <2>2
    <2>4. QED
      BY <2>1, <2>2, <2>3
  <1>4. QED
    BY <1>2, <1>3 DEF Turn

LEMMA MessageOrders ==
  ASSUME Orderly, Orders, Paired', NEW o, Story(o), NEW m \in Message,
         NEW h \in Question \union {0}, Heeds(m, h), RedirectMessage(m),
         NEW p, Turn(m, h, o, p)
  PROVE  Orders'
  <1>1. /\ TypeOK /\ list \subseteq Question /\ ended \subseteq Question
        /\ issued \in Nat /\ \A q \in list : q <= issued
        /\ \A q \in Question : q \in Nat /\ q # 0
    BY OrdersTypes
  <1>2. UNCHANGED <<outqueue, issued, said>> /\ list' \subseteq list
    BY DEF RedirectMessage
  <1>3. /\ Spoken(wire', said, p)
        /\ \A i \in 1 .. Len(wire') : \E j \in 1 .. Len(wire) : wire'[i] = wire[j]
        /\ \A x \in Question : Coming(wire, x) /\ x # wire[1].of =>
             /\ Coming(wire', x)
             /\ ReadOf(wire', said, p, x) = ReadOf(wire, said, o, x)
    BY TurnWire
  <1>4. ASSUME NEW q \in Question, q # h
        PROVE  /\ redirect'[q].output = redirect[q].output
               /\ redirect'[q].pattern = redirect[q].pattern
               /\ redirect'[q].count = redirect[q].count
               /\ q \in Waiting(h) <=> q \in list /\ q \notin list'
               /\ q \in ended' <=> q \in ended \/ q \in Waiting(h)
               /\ q \in list' => q \in list
               /\ q \notin Waiting(h) => redirect'[q] = redirect[q]
    BY <1>1, <1>4, HeedsOthers
  <1>5. h # 0 => /\ h \in Sent /\ h = m.of /\ wire # <<>> /\ m = wire[1]
                 /\ wire' = Tail(wire) /\ p = Earlier(o)
    BY DEF Turn
  <1>6. ASSUME h # 0
        PROVE  /\ h \in Question /\ h \in list
               /\ redirect'[h].state = "sent" /\ redirect'[h].command = h
               /\ redirect'[h].count \in Table[redirect'[h].pattern].counts
               /\ IF h \in list'
                    THEN Following(redirect'[h], h, wire', said, p) /\ h \notin ended'
                    ELSE /\ ~Coming(wire', h) /\ Had(redirect'[h], h, said)
                         /\ h \in ended'
    <2>1. h \in Sent /\ h \in Question /\ h \in list /\ redirect[h].command = h
      BY <1>5, <1>6, SentFacts
    <2>2. /\ redirect'[h].state = "sent" /\ redirect'[h].command = h
          /\ Onward(redirect'[h], redirect[h], m.kind)
      BY <1>1, <1>5, <1>6, <2>1, HeedsTaker
    <2>3. redirect[h].count \in Table[redirect[h].pattern].counts
      BY <2>1 DEF Orders, Listed, Attached
    <2>4. redirect'[h].count \in Table[redirect'[h].pattern].counts
      BY <2>2, <2>3 DEF Onward
    <2>5. IF h \in list'
            THEN Following(redirect'[h], h, wire', said, p) /\ h \notin ended'
            ELSE /\ ~Coming(wire', h) /\ Had(redirect'[h], h, said)
                 /\ h \in ended'
      BY <1>5, <1>6, <2>1, TakerReads
    <2>6. QED
      BY <2>1, <2>2, <2>4, <2>5
  <1>7. ASSUME NEW q \in Waiting(h)
        PROVE  /\ q \in Sent /\ q \in Question /\ q # h /\ q \in list
               /\ ~Coming(wire, q) /\ Had(redirect[q], q, said)
    <2>1. q \in Sent /\ q # h /\ redirect[q].stopped
      BY <1>7 DEF Waiting
    <2>2. wire = <<>> \/ q # wire[1].of
      BY <2>1 DEF Turn
    <2>3. QED
      BY <1>1, <2>1, <2>2, StoppedFacts DEF Sent
  <1>8. ASSUME NEW q \in Sent', q # h
        PROVE  /\ q \in Sent /\ q \in Question /\ redirect'[q] = redirect[q]
               /\ Coming(wire, q) /\ q # wire[1].of
    <2>1. q \in list' /\ q \in list /\ q \in Question /\ redirect'[q].state = "sent"
      BY <1>1, <1>2, <1>8 DEF Sent
    <2>2. q \notin Waiting(h) /\ redirect'[q] = redirect[q]
      BY <1>4, <1>8, <2>1
    <2>3. q \in Sent
      BY <2>1, <2>2 DEF Sent
    <2>4. ~redirect[q].stopped
      BY <1>8, <2>2, <2>3 DEF Waiting
    <2>5. Coming(wire, q)
      BY <2>3, <2>4, SentFacts
    <2>6. wire # <<>>
      BY <2>5 DEF Coming
    <2>7. q # wire[1].of
      BY <1>8, <2>3, <2>6 DEF Turn
    <2>8. QED
      BY <2>1, <2>2, <2>3, <2>5, <2>7
  <1>9. Listed'
    <2>1. ASSUME NEW q \in list' PROVE Attached(redirect'[q], q)
      <3>1. CASE q = h
        <4>1. q # 0 /\ q \in Question
          BY <1>1, <1>2
        <4>2. QED
          BY <1>6, <3>1, <4>1 DEF Attached
      <3>2. CASE q # h
        <4>1. q \in list /\ q \in Question
          BY <1>1, <1>2
        <4>2. redirect'[q] = redirect[q]
          BY <1>4, <3>2, <4>1
        <4>3. QED
          BY <4>1, <4>2 DEF Orders, Listed
      <3>3. QED
        BY <3>1, <3>2
    <2>2. QED
      BY <2>1 DEF Listed
  <1>10. ASSUME NEW q \in ended'
         PROVE  /\ q \in Question /\ q <= issued /\ Had(redirect'[q], q, said)
                /\ q \in ended \/ q \in Sent
    <2>1. q \in Question
      <3>1. TypeOK'
        BY DEF Paired
      <3>2. QED
        BY <3>1 DEF TypeOK
    <2>2. CASE q = h
      <3>1. h # 0
        BY <1>1, <2>1, <2>2
      <3>2. QED
        BY <1>1, <1>5, <1>6, <1>10, <2>2, <3>1
    <2>3. CASE q # h
      <3>1. q \in ended \/ q \in Waiting(h)
        BY <1>4, <1>10, <2>1, <2>3
      <3>2. q <= issued /\ Had(redirect[q], q, said) /\ (q \in ended \/ q \in Sent)
        BY <1>1, <1>7, <3>1 DEF Orders, Concluded
      <3>3. QED
        BY <1>4, <2>1, <2>3, <3>2 DEF Had
    <2>4. QED
      BY <2>2, <2>3
  <1>11. Concluded'
    BY <1>2, <1>10 DEF Concluded
  <1>12. ASSUME NEW i \in 1 .. Len(wire')
         PROVE  /\ wire'[i].of <= issued /\ wire'[i].of \notin ended'
                /\ \/ wire'[i].of \in Sent'
                   \/ wire'[i].of \notin list' /\ Foreign(wire'[i].kind)
    <2>1. PICK j \in 1 .. Len(wire) : wire'[i] = wire[j]
      BY <1>3
    <2> DEFINE x == wire[j].of
    <2>2. /\ x <= issued /\ x \notin ended
          /\ x \in Sent \/ (x \notin list /\ Foreign(wire[j].kind))
      BY DEF Orders, Voiced
    <2>3. x \in Question
      BY SpokenTypes DEF Story
    <2>4. Coming(wire, x) /\ Coming(wire', x)
      BY <2>1 DEF Coming
    <2> HIDE DEF x
    <2>5. CASE x = h
      <3>1. h # 0
        BY <1>1, <2>3, <2>5
      <3>2. h \in list' /\ h \notin ended' /\ redirect'[h].state = "sent"
        BY <1>6, <2>4, <2>5, <3>1
      <3>3. h \in Sent'
        BY <3>2 DEF Sent
      <3>4. QED
        BY <2>1, <2>2, <2>5, <3>2, <3>3 DEF x
    <2>6. CASE x # h
      <3>1. x \notin Waiting(h)
        BY <1>7, <2>4
      <3>2. x \notin ended' /\ redirect'[x] = redirect[x]
        BY <1>4, <2>2, <2>3, <2>6, <3>1
      <3>3. x \in Sent => x \in Sent'
        <4>1. ASSUME x \in Sent PROVE x \in Sent'
          <5>1. x \in list /\ redirect[x].state = "sent"
            BY <4>1 DEF Sent
          <5>2. x \in list'
            BY <1>4, <2>3, <2>6, <3>1, <5>1
          <5>3. QED
            BY <3>2, <5>1, <5>2 DEF Sent
        <4>2. QED
          BY <4>1
      <3>4. QED
        BY <1>2, <2>1, <2>2, <3>2, <3>3 DEF x
    <2>7. QED
      BY <2>5, <2>6
  <1>13. Voiced'
    BY <1>2, <1>12 DEF Voiced
  <1>14. ASSUME NEW q, Later(q, Sent \union ended, wire)
         PROVE  Later(q, Sent' \union ended', wire')
    <2>1. ASSUME NEW x \in Sent' \union ended' PROVE x < q
      <3>1. x \in Sent \union ended
        <4>1. CASE x \in ended'
          BY <1>10, <4>1
        <4>2. CASE x \in Sent' /\ x # h
          BY <1>8, <4>2
        <4>3. CASE x \in Sent' /\ x = h
          <5>1. x \in Question
            BY <1>1, <1>2, <4>3 DEF Sent
          <5>2. QED
            BY <1>1, <1>5, <4>3, <5>1
        <4>4. QED
          BY <2>1, <4>1, <4>2, <4>3
      <3>2. QED
        BY <1>14, <3>1 DEF Later
    <2>2. \A i \in 1 .. Len(wire') : wire'[i].of < q
      BY <1>3, <1>14 DEF Later
    <2>3. QED
      BY <2>1, <2>2 DEF Later
  <1>15. Lined'
    <2>1. ASSUME NEW s \in Queue, NEW i \in 1 .. Len(outqueue[s])
          PROVE  /\ \/ outqueue[s][i].redirect = outqueue[s][i].question
                    \/ /\ outqueue[s][i].redirect = 0
                       /\ outqueue[s][i].question \notin list' \union ended'
                       /\ redirect'[outqueue[s][i].question].pattern \in Plain
                       /\ redirect'[outqueue[s][i].question].count = 1
                 /\ \A j \in 1 .. i - 1 :
                      outqueue[s][j].question < outqueue[s][i].question
                 /\ Later(outqueue[s][i].question, Sent' \union ended', wire')
      <3> DEFINE e == outqueue[s][i]
      <3>1. /\ \/ e.redirect = e.question
               \/ /\ e.redirect = 0 /\ e.question \notin list \union ended
                  /\ redirect[e.question].pattern \in Plain
                  /\ redirect[e.question].count = 1
            /\ \A j \in 1 .. i - 1 : outqueue[s][j].question < e.question
            /\ Later(e.question, Sent \union ended, wire)
        BY DEF Orders, Lined
      <3>2. e.question \in Question
        <4>1. outqueue[s] \in Seq(Entry)
          BY <1>1 DEF TypeOK
        <4>2. e \in Entry
          BY <4>1, ElementOfSeq
        <4>3. QED
          BY <4>2 DEF Entry
      <3> HIDE DEF e
      <3>3. ASSUME e.question \notin list \union ended
            PROVE  /\ e.question \notin list' \union ended'
                   /\ redirect'[e.question].pattern = redirect[e.question].pattern
                   /\ redirect'[e.question].count = redirect[e.question].count
        <4>1. e.question # h
          BY <1>6, <3>2, <3>3, <1>1
        <4>2. QED
          BY <1>2, <1>4, <3>2, <3>3, <4>1
      <3>4. Later(e.question, Sent' \union ended', wire')
        BY <1>14, <3>1
      <3>5. QED
        BY <3>1, <3>3, <3>4 DEF e
    <2>2. QED
      BY <1>2, <2>1 DEF Lined
  <1>16. ASSUME NEW q \in Sent'
         PROVE  Following(redirect'[q], q, wire', said, p)
    <2>1. CASE q = h
      <3>1. q \in list' /\ q # 0
        BY <1>1, <1>2 DEF Sent
      <3>2. QED
        BY <1>6, <2>1, <3>1
    <2>2. CASE q # h
      <3>1. /\ q \in Sent /\ q \in Question /\ redirect'[q] = redirect[q]
            /\ Coming(wire, q) /\ q # wire[1].of
        BY <1>8, <2>2
      <3>2. /\ Coming(wire', q)
            /\ ReadOf(wire', said, p, q) = ReadOf(wire, said, o, q)
        BY <1>3, <3>1
      <3>3. Following(redirect[q], q, wire, said, o)
        BY <3>1 DEF Story
      <3>4. QED
        BY <3>1, <3>2, <3>3 DEF Following
    <2>3. QED
      BY <2>1, <2>2
  <1>17. Story(p)'
    BY <1>2, <1>3, <1>16 DEF Story
  <1>18. QED
    BY <1>9, <1>11, <1>13, <1>15, <1>17 DEF Orders

-----------------------------------------------------------------------------
(* Commands                                                                *)

(***************************************************************************)
(* A command of pattern p, and n answers, is sent for question q, which is *)
(* later than all that were sent before.                                   *)
(***************************************************************************)
Goes(q, p, n) ==
  /\ q \in Question /\ p \in Pattern /\ n \in Nat \ {0}
  /\ Later(q, Sent \union ended, wire) /\ q <= issued'
  /\ \A x \in Question : x # q =>
       redirect'[x] = redirect[x] /\ (x \in list' <=> x \in list)
  /\ redirect'[q].pattern = p /\ redirect'[q].count = n
  /\ q \in list' => /\ n \in Table[p].counts /\ Untouched(redirect'[q])
                    /\ redirect'[q].state = "sent" /\ redirect'[q].command = q
  /\ q \notin list' => p \in Plain /\ n = 1
  /\ Reaches(q, p, n)
  /\ UNCHANGED ended /\ issued <= issued'

LEMMA ForeignAnswer ==
  ASSUME Orderly, NEW p \in Plain, NEW a \in Answers(p, 1),
         NEW i \in 1 .. Len(a)
  PROVE  Foreign(a[i])
  <1>1. a \in Table[p].answers
    BY DEF Answers
  <1>2. QED
    BY <1>1, OrderlyTable

LEMMA GoesOrders ==
  ASSUME Orderly, Orders, TypeOK', NEW o, Story(o),
         NEW q, NEW p, NEW n, Goes(q, p, n)
  PROVE  /\ Listed' /\ Voiced' /\ Concluded' /\ \E u : Story(u)'
         /\ Sent' \subseteq Sent \union {q}
         /\ \A i \in 1 .. Len(wire') :
              wire'[i].of = q \/ \E j \in 1 .. Len(wire) : wire'[i].of = wire[j].of
  <1>1. /\ TypeOK /\ list \subseteq Question /\ ended \subseteq Question
        /\ issued \in Nat /\ \A x \in Question : x \in Nat /\ x # 0
    BY OrdersTypes
  <1>2. /\ q \in Question /\ p \in Pattern /\ n \in Nat \ {0}
        /\ Later(q, Sent \union ended, wire)
        /\ \A x \in Question : x # q =>
             redirect'[x] = redirect[x] /\ (x \in list' <=> x \in list)
        /\ redirect'[q].pattern = p /\ redirect'[q].count = n
        /\ q \in list' => /\ n \in Table[p].counts /\ Untouched(redirect'[q])
                          /\ redirect'[q].state = "sent"
                          /\ redirect'[q].command = q
        /\ q \notin list' => p \in Plain /\ n = 1
    BY DEF Goes
  <1>3. /\ UNCHANGED ended /\ q <= issued' /\ issued <= issued'
        /\ issued' \in Nat /\ list' \subseteq Question
    <2>1. list' \subseteq 1 .. issued' /\ issued' \in 0 .. MaxQuestions
      BY DEF TypeOK
    <2>2. MaxQuestions \in Nat
      BY RedirectAssumption
    <2>3. QED
      BY <2>1, <2>2 DEF Goes, Question
  <1>4. PICK a \in Answers(p, n) :
          /\ said' = [said EXCEPT ![q] = a]
          /\ wire' = wire \o WholeAnswer(a, q)
    <2>1. "lose" \notin Faults
      BY OrderlyTable
    <2>2. QED
      BY <2>1 DEF Goes, Reaches, WholeAnswer
  <1>5. a \in Seq(Reply) /\ Spoken(wire, said, o)
    BY <1>2, AnswerType DEF Story
  <1>6. /\ \A x \in Sent : x < q /\ x # q
        /\ \A x \in ended : x < q /\ x # q
        /\ \A i \in 1 .. Len(wire) : wire[i].of < q
    BY <1>1, <1>2 DEF Later, Sent
  <1>7. PICK u : u = [o EXCEPT ![q] = Len(wire)]
    OBVIOUS
  <1>8. /\ Spoken(wire', said', u)
        /\ ReadOf(wire', said', u, q) = 0
        /\ \A x \in Question : x # q =>
             /\ ReadOf(wire', said', u, x) = ReadOf(wire, said, o, x)
             /\ Coming(wire', x) <=> Coming(wire, x)
        /\ Len(a) >= 1 => Coming(wire', q)
        /\ \A i \in 1 .. Len(wire') :
             \/ wire'[i].of = q /\ \E j \in 1 .. Len(a) : wire'[i].kind = a[j]
             \/ /\ wire'[i].of # q /\ i \in 1 .. Len(wire) /\ wire'[i] = wire[i]
                /\ wire'[1] = wire[1] /\ u[wire'[1].of] = o[wire[1].of]
        /\ u[q] >= 0
    <2>1. OneSaid(wire, said, o, q, a, wire', said', u)
      BY <1>2, <1>4, <1>5, <1>6, <1>7, LaidSaid
    <2>2. QED
      BY <2>1 DEF OneSaid
  <1>9. said'[q] = a /\ \A x \in Question : x # q => said'[x] = said[x]
    BY <1>2, <1>4, <1>5 DEF Spoken
  <1>10. ASSUME NEW x \in Sent', x # q
        PROVE  /\ x \in Sent /\ x \in Question /\ redirect'[x] = redirect[x]
               /\ said'[x] = said[x] /\ x < q
    <2>1. x \in list' /\ redirect'[x].state = "sent" /\ x \in Question
      BY <1>3, <1>10 DEF Sent
    <2>2. x \in list /\ redirect'[x] = redirect[x]
      BY <1>2, <1>10, <2>1
    <2>3. x \in Sent
      BY <2>1, <2>2 DEF Sent
    <2>4. QED
      BY <1>6, <1>9, <1>10, <2>1, <2>2, <2>3
  <1>11. Listed'
    <2>1. ASSUME NEW x \in list' PROVE Attached(redirect'[x], x)
      <3>1. CASE x = q
        BY <1>2, <3>1 DEF Attached
      <3>2. CASE x # q
        <4>1. x \in Question /\ x \in list /\ redirect'[x] = redirect[x]
          BY <1>2, <1>3, <3>2
        <4>2. QED
          BY <4>1 DEF Orders, Listed
      <3>3. QED
        BY <3>1, <3>2
    <2>2. QED
      BY <2>1 DEF Listed
  <1>12. Concluded'
    <2>1. ASSUME NEW x \in ended
          PROVE  x <= issued' /\ Had(redirect'[x], x, said')
      <3>1. x <= issued /\ Had(redirect[x], x, said)
        BY DEF Orders, Concluded
      <3>2. x \in Question /\ x # q /\ x \in Nat
        BY <1>1, <1>6
      <3>3. redirect'[x] = redirect[x] /\ said'[x] = said[x]
        BY <1>2, <1>9, <3>2
      <3>4. x <= issued'
        BY <1>1, <1>3, <3>1, <3>2
      <3>5. QED
        BY <3>1, <3>3, <3>4 DEF Had
    <2>2. QED
      BY <1>3, <2>1 DEF Concluded
  <1>13. ASSUME NEW i \in 1 .. Len(wire')
         PROVE  /\ wire'[i].of <= issued' /\ wire'[i].of \notin ended
                /\ \/ wire'[i].of \in Sent'
                   \/ wire'[i].of \notin list' /\ Foreign(wire'[i].kind)
    <2>1. CASE wire'[i].of = q
      <3>1. q <= issued' /\ q \notin ended
        BY <1>3, <1>6
      <3>2. q \in list' => q \in Sent'
        BY <1>2 DEF Sent
      <3>3. ASSUME q \notin list' PROVE Foreign(wire'[i].kind)
        <4>1. p \in Plain /\ n = 1
          BY <1>2, <3>3
        <4>2. \E j \in 1 .. Len(a) : wire'[i].kind = a[j]
          BY <1>8, <2>1
        <4>3. QED
          BY <1>4, <4>1, <4>2, ForeignAnswer
      <3>4. QED
        BY <2>1, <3>1, <3>2, <3>3
    <2>2. CASE wire'[i].of # q
      <3>1. i \in 1 .. Len(wire) /\ wire'[i] = wire[i]
        BY <1>8, <2>2
      <3> DEFINE x == wire[i].of
      <3>2. /\ x <= issued /\ x \notin ended
            /\ x \in Sent \/ (x \notin list /\ Foreign(wire[i].kind))
        BY <3>1 DEF Orders, Voiced
      <3>3. x \in Question /\ x # q
        BY <1>5, <2>2, <3>1, SpokenTypes
      <3> HIDE DEF x
      <3>4. redirect'[x] = redirect[x] /\ (x \in list' <=> x \in list)
        BY <1>2, <3>3
      <3>5. x \in Sent => x \in Sent'
        BY <3>4 DEF Sent
      <3>6. x <= issued'
        BY <1>1, <1>3, <3>2, <3>3
      <3>7. QED
        BY <3>1, <3>2, <3>4, <3>5, <3>6 DEF x
    <2>3. QED
      BY <2>1, <2>2
  <1>14. Voiced'
    BY <1>3, <1>13 DEF Voiced
  <1>15. ASSUME NEW x \in Sent'
         PROVE  Following(redirect'[x], x, wire', said', u)
    <2>1. CASE x = q
      <3>1. q \in list'
        BY <1>15, <2>1 DEF Sent
      <3> DEFINE r == redirect'[q]
      <3>2. /\ r.pattern = p /\ r.count = n /\ n \in Table[p].counts
            /\ r.current = 1 /\ ~r.started /\ ~r.stopped /\ r.output = <<>>
        BY <1>2, <3>1 DEF Untouched
      <3> HIDE DEF r
      <3>3. r.pattern \in Redirected
        BY <1>2, <3>2 DEF Redirected
      <3>4. r.count \in (IF Table[r.pattern].extra = {} THEN {1, 2} ELSE {1})
        BY <3>2, <3>3, OrderlyTable
      <3>5. Tabled /\ a \in Answers(r.pattern, r.count)
        BY <1>4, <3>2, OrderlyTable
      <3>6. Progress(r, a, 0)
        BY <3>2, <3>3, <3>4, <3>5, ProgressBegins
      <3>7. r.pattern \in Pattern /\ r.current \in Nat /\ r.count \in Nat /\ Len(a) \in Nat
        BY <1>2, <1>5, <3>2, LenProperties
      <3>8. 1 <= Len(a)
        BY <3>6, <3>7, ProgressFacts
      <3>9. Coming(wire', q)
        BY <1>8, <3>8
      <3>10. Kept(q, a, Table[r.pattern].filter)[0] = <<>>
        BY <3>7, KeptFacts
      <3>11. Following(r, q, wire', said', u)
        BY <1>8, <1>9, <3>2, <3>6, <3>9, <3>10 DEF Following
      <3>12. QED
        BY <2>1, <3>11 DEF r
    <2>2. CASE x # q
      <3>1. /\ x \in Sent /\ x \in Question /\ redirect'[x] = redirect[x]
            /\ said'[x] = said[x] /\ x < q
        BY <1>10, <2>2
      <3>2. Following(redirect[x], x, wire, said, o)
        BY <3>1 DEF Story
      <3>3. /\ ReadOf(wire', said', u, x) = ReadOf(wire, said, o, x)
            /\ Coming(wire', x) <=> Coming(wire, x)
        BY <1>8, <2>2, <3>1
      <3>4. ASSUME ~Coming(wire', x), NEW i \in 1 .. Len(wire')
            PROVE  x < wire'[i].of /\ 0 <= u[wire'[1].of]
        <4>1. \A j \in 1 .. Len(wire) : x < wire[j].of /\ 0 <= o[wire[1].of]
          BY <3>2, <3>3, <3>4 DEF Following
        <4>2. x < wire'[i].of
          BY <1>8, <3>1, <4>1
        <4>3. 1 \in 1 .. Len(wire')
          <5>1. Len(wire') \in Nat
            BY <1>8, SpokenTypes
          <5>2. QED
            BY <5>1
        <4>4. CASE wire'[1].of = q
          BY <1>8, <4>2, <4>4
        <4>5. CASE wire'[1].of # q
          BY <1>8, <4>1, <4>2, <4>3, <4>5
        <4>6. QED
          BY <4>4, <4>5
      <3>5. QED
        BY <3>1, <3>2, <3>3, <3>4 DEF Following
    <2>3. QED
      BY <2>1, <2>2
  <1>16. Story(u)'
    BY <1>8, <1>15 DEF Story
  <1>17. Sent' \subseteq Sent \union {q}
    BY <1>10
  <1>18. QED
    BY <1>8, <1>11, <1>12, <1>14, <1>16, <1>17

Started(new, rs, r, q) ==
  /\ \A x \in Question : x # r => new[x] = rs[x]
  /\ r # 0 => /\ new[r].command = q /\ new[r].state = "sent"
              /\ Untouched(rs[r]) => Untouched(new[r])
  /\ \A x \in Question : new[x].pattern = rs[x].pattern /\ new[x].count = rs[x].count

LEMMA StartOne ==
  ASSUME NEW rs \in [Question -> Redirect], NEW r \in Question \union {0},
         NEW q \in Question
  PROVE  Started(InitCommand(rs, r, q), rs, r, q)
  <1>1. Moved(InitCommand(rs, r, q), rs, r, "sent")
    BY StartType
  <1>2. CASE r = 0
    BY <1>1, <1>2 DEF InitCommand, Started
  <1>3. CASE r # 0
    <2> DEFINE one == [rs[r] EXCEPT !.state = "sent", !.command = q]
    <2>1. InitCommand(rs, r, q) = [rs EXCEPT ![r] = one]
      BY <1>3 DEF InitCommand
    <2>2. one.command = q
      BY <1>3 DEF Redirect
    <2> HIDE DEF one
    <2>3. r \in Question
      BY <1>3
    <2>4. InitCommand(rs, r, q)[r].command = q
      BY <2>1, <2>2, <2>3
    <2>5. \A x \in Question : x # r => InitCommand(rs, r, q)[x] = rs[x]
      BY <2>1
    <2>6. Untouched(rs[r]) => Untouched(InitCommand(rs, r, q)[r])
      BY <1>1, <2>3 DEF Moved, Untouched
    <2>7. QED
      BY <1>1, <1>3, <2>4, <2>5, <2>6 DEF Moved, Started
  <1>4. QED
    BY <1>2, <1>3

LEMMA AttachOne ==
  ASSUME NEW rs \in [Question -> Redirect], NEW r \in Question \union {0}
  PROVE  /\ \A x \in Question : x # r => Assign(rs, r)[x] = rs[x]
         /\ r # 0 => /\ Assign(rs, r)[r].state = "assigned"
                     /\ Untouched(rs[r]) => Untouched(Assign(rs, r)[r])
         /\ \A x \in Question : /\ Assign(rs, r)[x].pattern = rs[x].pattern
                                /\ Assign(rs, r)[x].count = rs[x].count
  <1>1. Moved(Assign(rs, r), rs, r, "assigned")
    BY AttachType
  <1>2. \A x \in Question : x # r => Assign(rs, r)[x] = rs[x]
    BY DEF Assign
  <1>3. r # 0 => /\ Assign(rs, r)[r].state = "assigned"
                 /\ Untouched(rs[r]) => Untouched(Assign(rs, r)[r])
    BY <1>1 DEF Moved, Untouched
  <1>4. QED
    BY <1>1, <1>2, <1>3 DEF Moved

LEMMA EntryType ==
  ASSUME outqueue \in [Queue -> Seq(Entry)], NEW s \in Queue,
         NEW i \in 1 .. Len(outqueue[s])
  PROVE  /\ outqueue[s][i].question \in Question
         /\ outqueue[s][i].redirect \in Question \union {0}
         /\ Len(outqueue[s]) \in Nat
  <1>1. outqueue[s] \in Seq(Entry)
    OBVIOUS
  <1>2. outqueue[s][i] \in Entry
    BY <1>1, ElementOfSeq
  <1>3. QED
    BY <1>1, <1>2, LenProperties DEF Entry

(***************************************************************************)
(* A queued command leaves.                                                *)
(***************************************************************************)
LEMMA SendOrders ==
  ASSUME Orderly, Orders, Paired', SendQueued
  PROVE  Orders'
  <1>1. /\ TypeOK /\ list \subseteq Question /\ ended \subseteq Question
        /\ redirect \in [Question -> Redirect] /\ issued \in Nat
        /\ \A x \in Question : x \in Nat /\ x # 0
        /\ outqueue \in [Queue -> Seq(Entry)] /\ TypeOK' /\ Paired
    BY OrdersTypes DEF TypeOK, Paired, Orders
  <1>2. PICK s \in Queue, q \in Question, r \in Question \union {0} :
          /\ Len(outqueue[s]) \in Nat \ {0}
          /\ outqueue[s][1].question = q /\ outqueue[s][1].redirect = r
          /\ q <= issued
          /\ redirect' = InitCommand(redirect, r, q)
          /\ redirect[q].pattern \in Pattern
          /\ redirect[q].count \in Nat \ {0}
          /\ Reaches(q, redirect[q].pattern, redirect[q].count)
          /\ \A t \in Queue : t # s => outqueue'[t] = outqueue[t]
          /\ Len(outqueue'[s]) = Len(outqueue[s]) - 1
          /\ \A i \in 1 .. Len(outqueue'[s]) :
               /\ i + 1 \in 1 .. Len(outqueue[s])
               /\ outqueue'[s][i] = outqueue[s][i + 1]
          /\ UNCHANGED <<up, list, issued, ended>>
    BY <1>1, SendFacts
  <1>3. 1 \in 1 .. Len(outqueue[s])
    BY <1>2
  <1>4. /\ \/ r = q
           \/ /\ r = 0 /\ q \notin list \union ended
              /\ redirect[q].pattern \in Plain /\ redirect[q].count = 1
        /\ Later(q, Sent \union ended, wire)
    BY <1>2, <1>3 DEF Orders, Lined
  <1>5. r # 0 => r \in list /\ redirect[r].state = "assigned"
    BY <1>2, <1>3 DEF Orders, Paired, QueuePairs
  <1>6. /\ \A x \in Question : x # r => redirect'[x] = redirect[x]
        /\ r # 0 => /\ redirect'[r].command = q /\ redirect'[r].state = "sent"
                    /\ Untouched(redirect[r]) => Untouched(redirect'[r])
        /\ redirect'[q].pattern = redirect[q].pattern
        /\ redirect'[q].count = redirect[q].count
    <2>1. Started(InitCommand(redirect, r, q), redirect, r, q)
      BY <1>1, StartOne
    <2>2. Started(redirect', redirect, r, q)
      BY <1>2, <2>1
    <2>3. QED
      BY <2>2 DEF Started
  <1>7. \A x \in Question : x # q => redirect'[x] = redirect[x]
    BY <1>1, <1>4, <1>6
  <1>8. ASSUME q \in list
        PROVE  /\ redirect[q].count \in Table[redirect[q].pattern].counts
               /\ Untouched(redirect'[q])
               /\ redirect'[q].state = "sent" /\ redirect'[q].command = q
    <2>1. r = q /\ r # 0
      BY <1>1, <1>4, <1>8
    <2>2. Attached(redirect[q], q) /\ redirect[q].state = "assigned"
      BY <1>5, <1>8, <2>1 DEF Orders, Listed
    <2>3. Untouched(redirect[q])
      BY <2>2 DEF Attached
    <2>4. QED
      BY <1>6, <2>1, <2>2, <2>3 DEF Attached
  <1>9. q \notin list => redirect[q].pattern \in Plain /\ redirect[q].count = 1
    BY <1>1, <1>4, <1>5
  <1>10. Goes(q, redirect[q].pattern, redirect[q].count)
    BY <1>1, <1>2, <1>4, <1>6, <1>7, <1>8, <1>9 DEF Goes
  <1>11. PICK o : Story(o)
    BY DEF Orders
  <1>12. /\ Listed' /\ Voiced' /\ Concluded' /\ \E u : Story(u)'
         /\ Sent' \subseteq Sent \union {q}
         /\ \A i \in 1 .. Len(wire') :
              wire'[i].of = q \/ \E j \in 1 .. Len(wire) : wire'[i].of = wire[j].of
    BY <1>1, <1>10, <1>11, GoesOrders
  <1>13. ASSUME NEW c, Later(c, Sent \union ended, wire), q < c
         PROVE  Later(c, Sent' \union ended', wire')
    BY <1>2, <1>12, <1>13 DEF Later
  <1>14. \A t \in Queue : t = s
    BY OrderlyTable DEF Queue
  <1>15. ASSUME NEW i \in 1 .. Len(outqueue'[s])
         PROVE  /\ \/ outqueue'[s][i].redirect = outqueue'[s][i].question
                   \/ /\ outqueue'[s][i].redirect = 0
                      /\ outqueue'[s][i].question \notin list' \union ended'
                      /\ redirect'[outqueue'[s][i].question].pattern \in Plain
                      /\ redirect'[outqueue'[s][i].question].count = 1
                /\ \A j \in 1 .. i - 1 :
                     outqueue'[s][j].question < outqueue'[s][i].question
                /\ Later(outqueue'[s][i].question, Sent' \union ended', wire')
    <2>1. i + 1 \in 1 .. Len(outqueue[s]) /\ outqueue'[s][i] = outqueue[s][i + 1]
      BY <1>2
    <2> DEFINE e == outqueue[s][i + 1]
    <2> DEFINE at == i + 1
    <2>2. at \in 1 .. Len(outqueue[s]) /\ at = i + 1 /\ e = outqueue[s][at]
      BY <2>1
    <2> HIDE DEF at, e
    <2>3. /\ \/ outqueue[s][at].redirect = outqueue[s][at].question
             \/ /\ outqueue[s][at].redirect = 0
                /\ outqueue[s][at].question \notin list \union ended
                /\ redirect[outqueue[s][at].question].pattern \in Plain
                /\ redirect[outqueue[s][at].question].count = 1
          /\ \A j \in 1 .. at - 1 :
               outqueue[s][j].question < outqueue[s][at].question
          /\ Later(outqueue[s][at].question, Sent \union ended, wire)
      BY <2>2 DEF Orders, Lined
    <2>4. /\ \/ e.redirect = e.question
             \/ /\ e.redirect = 0 /\ e.question \notin list \union ended
                /\ redirect[e.question].pattern \in Plain
                /\ redirect[e.question].count = 1
          /\ \A j \in 1 .. at - 1 : outqueue[s][j].question < e.question
          /\ Later(e.question, Sent \union ended, wire)
      BY <2>2, <2>3
    <2>5. e.question \in Question
      <3>1. outqueue[s][at].question \in Question
        BY <1>1, <2>2, EntryType
      <3>2. QED
        BY <2>2, <3>1
    <2>6. q < e.question
      <3>1. 1 \in 1 .. at - 1
        BY <2>2
      <3>2. QED
        BY <1>2, <2>4, <3>1
    <2>7. e.question # q
      BY <1>1, <2>6
    <2>8. redirect'[e.question] = redirect[e.question]
      BY <1>7, <2>5, <2>7
    <2>9. ASSUME NEW j \in 1 .. i - 1
          PROVE  outqueue'[s][j].question < e.question
      <3>1. j \in 1 .. Len(outqueue'[s]) /\ j + 1 \in 1 .. at - 1
        BY <1>2, <2>2
      <3>2. QED
        BY <1>2, <2>4, <3>1
    <2>10. Later(e.question, Sent' \union ended', wire')
      BY <1>13, <2>4, <2>6
    <2>11. QED
      BY <1>2, <2>1, <2>4, <2>8, <2>9, <2>10 DEF e
  <1>16. Lined'
    <2>1. \A t \in Queue : outqueue'[t] = outqueue'[s]
      BY <1>14
    <2>2. QED
      BY <1>15, <2>1 DEF Lined
  <1>17. QED
    BY <1>12, <1>16 DEF Orders

(***************************************************************************)
(* A command is only queued: nothing else changes.                         *)
(***************************************************************************)
LEMMA WaitsOrders ==
  ASSUME Orders, NEW q \in Question, Later(q, Sent \union ended, wire),
         \A x \in Question : x # q =>
           redirect'[x] = redirect[x] /\ (x \in list' <=> x \in list),
         q \in list' => Attached(redirect'[q], q) /\ redirect'[q].state # "sent",
         list' \subseteq Question, issued' \in Nat, issued <= issued',
         UNCHANGED <<wire, said, ended>>
  PROVE  /\ Listed' /\ Voiced' /\ Concluded' /\ \E o : Story(o)'
         /\ Sent' = Sent
  <1>1. /\ list \subseteq Question /\ ended \subseteq Question /\ issued \in Nat
        /\ \A x \in Question : x \in Nat /\ x # 0
    BY OrdersTypes
  <1>2. PICK o : Story(o)
    BY DEF Orders
  <1>3. /\ \A x \in Sent : x # q
        /\ \A x \in ended : x # q
        /\ \A i \in 1 .. Len(wire) : wire[i].of # q
    BY <1>1 DEF Later, Sent
  <1>4. ASSUME NEW x \in Sent'
        PROVE  x \in Sent /\ redirect'[x] = redirect[x]
    <2>1. x \in list' /\ redirect'[x].state = "sent" /\ x \in Question
      BY <1>4 DEF Sent
    <2>2. x # q
      BY <2>1
    <2>3. QED
      BY <2>1, <2>2 DEF Sent
  <1>5. ASSUME NEW x \in Sent PROVE x \in Sent' /\ redirect'[x] = redirect[x]
    <2>1. x \in list /\ redirect[x].state = "sent" /\ x \in Question /\ x # q
      BY <1>1, <1>3 DEF Sent
    <2>2. QED
      BY <2>1 DEF Sent
  <1>6. Sent' = Sent
    BY <1>4, <1>5
  <1>7. Listed'
    <2>1. ASSUME NEW x \in list' PROVE Attached(redirect'[x], x)
      <3>1. CASE x # q
        <4>1. x \in list /\ redirect'[x] = redirect[x]
          BY <3>1
        <4>2. QED
          BY <4>1 DEF Orders, Listed
      <3>2. QED
        BY <3>1
    <2>2. QED
      BY <2>1 DEF Listed
  <1>8. Voiced'
    <2>1. ASSUME NEW i \in 1 .. Len(wire)
          PROVE  /\ wire[i].of <= issued' /\ wire[i].of \notin ended
                 /\ \/ wire[i].of \in Sent
                    \/ wire[i].of \notin list' /\ Foreign(wire[i].kind)
      <3>1. /\ wire[i].of <= issued /\ wire[i].of \notin ended
            /\ wire[i].of \in Sent \/ (wire[i].of \notin list /\ Foreign(wire[i].kind))
        BY DEF Orders, Voiced
      <3>2. wire[i].of \in Question /\ wire[i].of # q
        BY <1>2, <1>3, SpokenTypes DEF Story
      <3>3. wire[i].of \in list' <=> wire[i].of \in list
        BY <3>2
      <3>4. wire[i].of <= issued'
        BY <1>1, <3>1, <3>2
      <3>5. QED
        BY <3>1, <3>3, <3>4
    <2>2. QED
      BY <1>6, <2>1 DEF Voiced
  <1>9. Concluded'
    <2>1. ASSUME NEW x \in ended
          PROVE  x <= issued' /\ Had(redirect'[x], x, said)
      <3>1. x \in Question /\ x \in Nat /\ redirect'[x] = redirect[x]
        BY <1>1, <1>3
      <3>2. x <= issued /\ Had(redirect[x], x, said)
        BY DEF Orders, Concluded
      <3>3. QED
        BY <1>1, <3>1, <3>2
    <2>2. QED
      BY <2>1 DEF Concluded
  <1>10. Story(o)'
    BY <1>2, <1>4 DEF Story
  <1>11. QED
    BY <1>6, <1>7, <1>8, <1>9, <1>10

(***************************************************************************)
(* A question is asked: it goes at once, if nothing waits, or it waits.    *)
(* irc_redirect_search_available() finds the redirection just created: no  *)
(* other one is without its command.                                       *)
(***************************************************************************)
LEMMA AskOrders ==
  ASSUME Orderly, Orders, Paired', NEW p \in Pattern, NEW n \in Nat \ {0},
         NEW prio \in Prio, NEW f \in BOOLEAN, Ask(p, n, prio, f),
         IF f THEN n \in Table[p].counts ELSE p \in Plain /\ n = 1
  PROVE  Orders'
  <1>1. /\ TypeOK /\ list \subseteq Question /\ ended \subseteq Question
        /\ redirect \in [Question -> Redirect] /\ issued \in Nat
        /\ \A x \in list : x <= issued
        /\ \A x \in Question : x \in Nat /\ x # 0
        /\ outqueue \in [Queue -> Seq(Entry)] /\ TypeOK'
    BY OrdersTypes DEF TypeOK, Paired
  <1> DEFINE q == issued + 1
             fresh == Fresh(p, n)
  <1>2. /\ q \in Question /\ issued' = q /\ q \notin list
        /\ fresh \in [Question -> Redirect]
        /\ \A x \in Question : x # q => fresh[x] = redirect[x]
        /\ fresh[q] = New(p, n) /\ list' \subseteq Question
        /\ UNCHANGED ended
    BY <1>1, AskFacts
  <1>3. list' = IF f THEN list \union {q} ELSE list
    BY DEF Ask
  <1>4. \/ \E r \in list' \union {0} :
           /\ prio \in Queue /\ IsAvailable(r, list', fresh)
           /\ Enqueue(prio, q, r) /\ redirect' = Assign(fresh, r)
           /\ UNCHANGED <<wire, said>>
        \/ \E r \in list' \union {0} :
           /\ prio \in Queue => outqueue[prio] = <<>>
           /\ IsAvailable(r, list', fresh)
           /\ redirect' = InitCommand(fresh, r, q)
           /\ Reaches(q, p, n) /\ UNCHANGED outqueue
    <2>1. "drop" \notin Faults
      BY OrderlyTable
    <2>2. QED
      BY <1>3, <2>1 DEF Ask, Fresh, Queue
  <1>5. /\ Untouched(fresh[q]) /\ fresh[q].pattern = p /\ fresh[q].count = n
        /\ fresh[q].state = "available"
    BY <1>2 DEF New, Untouched
  <1>6. PICK o : Story(o)
    BY DEF Orders
  <1>7. Later(q, Sent \union ended, wire)
    <2>1. \A x \in list : x < q
      BY <1>1
    <2>2. \A x \in ended : x < q
      BY <1>1 DEF Orders, Concluded
    <2>3. \A i \in 1 .. Len(wire) : wire[i].of \in Nat /\ wire[i].of <= issued
      BY <1>6, SpokenTypes DEF Story, Orders, Voiced
    <2>4. \A i \in 1 .. Len(wire) : wire[i].of < q
      BY <1>1, <2>3
    <2>5. QED
      BY <2>1, <2>2, <2>4 DEF Later, Sent
  <1>8. issued \in Nat /\ issued' \in Nat /\ issued <= issued' /\ q \in Nat
    BY <1>1, <1>2
  <1>9. \A s \in Queue : s = prio
    BY OrderlyTable DEF Queue
  <1>10. ASSUME NEW s \in Queue, NEW i \in 1 .. Len(outqueue[s])
         PROVE  outqueue[s][i].question < q
    <2>1. outqueue[s][i].question <= issued
      BY DEF Orders, Paired, Asked
    <2>2. outqueue[s][i].question \in Nat
      BY <1>1, EntryType
    <2>3. QED
      BY <1>1, <2>1, <2>2
  <1> HIDE DEF q, fresh
  <1>11. ASSUME NEW r \in list' \union {0}, IsAvailable(r, list', fresh)
         PROVE  r = IF f THEN q ELSE 0
    <2>1. ASSUME NEW x \in list PROVE x \notin Available(list', fresh)
      <3>1. fresh[x] = redirect[x] /\ Attached(redirect[x], x)
        BY <1>1, <1>2 DEF Orders, Listed
      <3>2. fresh[x].state # "available"
        BY <3>1 DEF Attached
      <3>3. QED
        BY <3>2 DEF Available
    <2>2. Available(list', fresh) = IF f THEN {q} ELSE {}
      BY <1>3, <1>5, <2>1 DEF Available
    <2>3. QED
      BY <1>11, <2>2 DEF IsAvailable
  <1>12. /\ q \in list' <=> f
         /\ \A x \in Question : x # q => (x \in list' <=> x \in list)
    BY <1>2, <1>3
  <1>13. ASSUME NEW r \in list' \union {0}, prio \in Queue => outqueue[prio] = <<>>,
                IsAvailable(r, list', fresh), redirect' = InitCommand(fresh, r, q),
                Reaches(q, p, n), UNCHANGED outqueue
         PROVE  Orders'
    <2>1. r = (IF f THEN q ELSE 0) /\ r \in Question \union {0}
      BY <1>2, <1>11, <1>13
    <2>2. /\ \A x \in Question : x # r => redirect'[x] = fresh[x]
          /\ r # 0 => /\ redirect'[r].command = q /\ redirect'[r].state = "sent"
                      /\ Untouched(fresh[r]) => Untouched(redirect'[r])
          /\ redirect'[q].pattern = fresh[q].pattern
          /\ redirect'[q].count = fresh[q].count
      <3>1. Started(InitCommand(fresh, r, q), fresh, r, q)
        BY <1>2, <2>1, StartOne
      <3>2. Started(redirect', fresh, r, q)
        BY <1>13, <3>1
      <3>3. QED
        BY <1>2, <3>2 DEF Started
    <2>3. \A x \in Question : x # q => redirect'[x] = redirect[x]
      BY <1>1, <1>2, <2>1, <2>2
    <2>4. f => /\ n \in Table[p].counts /\ Untouched(redirect'[q])
               /\ redirect'[q].state = "sent" /\ redirect'[q].command = q
      BY <1>1, <1>2, <1>5, <2>1, <2>2
    <2>5. Goes(q, p, n)
      BY <1>2, <1>5, <1>7, <1>8, <1>12, <1>13, <2>2, <2>3, <2>4 DEF Goes
    <2>6. Listed' /\ Voiced' /\ Concluded' /\ \E u : Story(u)'
      BY <1>1, <1>6, <2>5, GoesOrders
    <2>7. ASSUME NEW s \in Queue PROVE 1 .. Len(outqueue'[s]) = {}
      <3>1. outqueue'[s] = <<>>
        BY <1>9, <1>13
      <3>2. QED
        BY <3>1
    <2>8. Lined'
      BY <2>7 DEF Lined
    <2>9. QED
      BY <2>6, <2>8 DEF Orders
  <1>14. ASSUME NEW r \in list' \union {0}, prio \in Queue,
                IsAvailable(r, list', fresh), Enqueue(prio, q, r),
                redirect' = Assign(fresh, r), UNCHANGED <<wire, said>>
         PROVE  Orders'
    <2>1. r = (IF f THEN q ELSE 0) /\ r \in Question \union {0}
      BY <1>2, <1>11, <1>14
    <2>2. /\ \A x \in Question : x # r => redirect'[x] = fresh[x]
          /\ r # 0 => /\ redirect'[r].state = "assigned"
                      /\ Untouched(fresh[r]) => Untouched(redirect'[r])
          /\ redirect'[q].pattern = fresh[q].pattern
          /\ redirect'[q].count = fresh[q].count
      BY <1>2, <1>14, <2>1, AttachOne
    <2>3. \A x \in Question : x # q => redirect'[x] = redirect[x]
      BY <1>1, <1>2, <2>1, <2>2
    <2>4. q \in list' => Attached(redirect'[q], q) /\ redirect'[q].state # "sent"
      <3>1. ASSUME f
            PROVE  /\ n \in Table[p].counts /\ Untouched(redirect'[q])
                   /\ redirect'[q].state = "assigned"
                   /\ redirect'[q].pattern = p /\ redirect'[q].count = n
        BY <1>1, <1>2, <1>5, <2>1, <2>2, <3>1
      <3>2. QED
        BY <1>12, <3>1 DEF Attached
    <2>5. /\ Listed' /\ Voiced' /\ Concluded' /\ \E u : Story(u)'
          /\ Sent' = Sent
      BY <1>2, <1>7, <1>8, <1>12, <1>14, <2>3, <2>4, WaitsOrders
    <2>6. Longer(prio, [question |-> q, redirect |-> r])
      BY <1>1, <1>2, <1>14, <2>1, EnqueueType
    <2> DEFINE k == Len(outqueue[prio])
    <2>7. /\ k \in Nat /\ Len(outqueue'[prio]) = k + 1
          /\ \A i \in 1 .. k : outqueue'[prio][i] = outqueue[prio][i]
          /\ outqueue'[prio][k + 1].question = q
          /\ outqueue'[prio][k + 1].redirect = r
      BY <2>6 DEF Longer
    <2>8. ASSUME NEW i \in 1 .. Len(outqueue'[prio])
          PROVE  /\ \/ outqueue'[prio][i].redirect = outqueue'[prio][i].question
                    \/ /\ outqueue'[prio][i].redirect = 0
                       /\ outqueue'[prio][i].question \notin list' \union ended'
                       /\ redirect'[outqueue'[prio][i].question].pattern \in Plain
                       /\ redirect'[outqueue'[prio][i].question].count = 1
                 /\ \A j \in 1 .. i - 1 :
                      outqueue'[prio][j].question < outqueue'[prio][i].question
                 /\ Later(outqueue'[prio][i].question, Sent' \union ended', wire')
      <3>1. CASE i = k + 1
        <4>1. \/ r = q
              \/ /\ r = 0 /\ q \notin list' \union ended'
                 /\ redirect'[q].pattern \in Plain /\ redirect'[q].count = 1
          <5>1. CASE f
            BY <2>1, <5>1
          <5>2. CASE ~f
            <6>1. q \notin ended
              BY <1>7, <1>8 DEF Later
            <6>2. QED
              BY <1>2, <1>5, <1>12, <2>1, <2>2, <5>2, <6>1
          <5>3. QED
            BY <5>1, <5>2
        <4>2. ASSUME NEW j \in 1 .. i - 1
              PROVE  outqueue'[prio][j].question < q
          <5>1. j \in 1 .. k
            BY <2>7, <3>1
          <5>2. QED
            BY <1>10, <1>14, <2>7, <5>1
        <4>3. Later(q, Sent' \union ended', wire')
          BY <1>2, <1>7, <1>14, <2>5
        <4>4. QED
          BY <2>7, <3>1, <4>1, <4>2, <4>3
      <3>2. CASE i # k + 1
        <4>1. i \in 1 .. k /\ outqueue'[prio][i] = outqueue[prio][i]
          BY <2>7, <3>2
        <4> DEFINE e == outqueue[prio][i]
        <4>2. /\ \/ e.redirect = e.question
                 \/ /\ e.redirect = 0 /\ e.question \notin list \union ended
                    /\ redirect[e.question].pattern \in Plain
                    /\ redirect[e.question].count = 1
              /\ \A j \in 1 .. i - 1 : outqueue[prio][j].question < e.question
              /\ Later(e.question, Sent \union ended, wire)
          BY <1>14, <4>1 DEF Orders, Lined
        <4>3. e.question \in Question /\ e.question < q
          BY <1>1, <1>10, <1>14, <4>1, EntryType
        <4> HIDE DEF e
        <4>4. e.question # q
          BY <1>8, <4>3
        <4>5. \A j \in 1 .. i - 1 : outqueue'[prio][j].question < e.question
          <5>1. \A j \in 1 .. i - 1 : j \in 1 .. k
            BY <2>7, <4>1
          <5>2. QED
            BY <2>7, <4>2, <5>1
        <4>6. Later(e.question, Sent' \union ended', wire')
          BY <1>2, <1>14, <2>5, <4>2
        <4>7. /\ e.question \in list' <=> e.question \in list
              /\ redirect'[e.question] = redirect[e.question]
          BY <1>12, <2>3, <4>3, <4>4
        <4>8. QED
          BY <1>2, <4>1, <4>2, <4>5, <4>6, <4>7 DEF e
      <3>3. QED
        BY <3>1, <3>2
    <2>9. Lined'
      <3>1. \A s \in Queue : outqueue'[s] = outqueue'[prio]
        BY <1>9
      <3>2. QED
        BY <2>8, <3>1 DEF Lined
    <2>10. QED
      BY <2>5, <2>9 DEF Orders
  <1>15. QED
    BY <1>4, <1>13, <1>14

(***************************************************************************)
(* The timer ends a redirection: it had all of its answer, the end of      *)
(* which might have been followed by an extra message.                     *)
(***************************************************************************)
LEMMA TimeoutOrders ==
  ASSUME Orderly, Orders, Paired', NEW q \in Question, Timeout(q)
  PROVE  Orders'
  <1>1. /\ TypeOK /\ list \subseteq Question /\ issued \in Nat
        /\ \A x \in list : x <= issued
    BY OrdersTypes
  <1>2. /\ q \in list /\ redirect[q].state = "sent"
        /\ Prompt => \A i \in 1 .. Len(wire) : wire[i].of # redirect[q].command
        /\ list' = list \ {q} /\ ended' = ended \union {q}
        /\ UNCHANGED <<redirect, outqueue, wire, issued, said>>
    BY DEF Timeout
  <1>3. PICK o : Story(o)
    BY DEF Orders
  <1>4. q \in Sent
    BY <1>2 DEF Sent
  <1>5. redirect[q].command = q
    BY <1>3, <1>4, SentFacts
  <1>6. Prompt
    BY OrderlyTable
  <1>7. ~Coming(wire, q)
    BY <1>2, <1>5, <1>6 DEF Coming
  <1>8. ReadOf(wire, said, o, q) = Len(said[q])
    BY <1>7 DEF ReadOf
  <1>9. Had(redirect[q], q, said)
    <2>1. Following(redirect[q], q, wire, said, o)
      BY <1>3, <1>4 DEF Story
    <2>2. QED
      BY <1>8, <2>1 DEF Following, Had
  <1>10. Sent' = Sent \ {q}
    BY <1>2 DEF Sent
  <1>11. Sent' \union ended' = Sent \union ended
    BY <1>2, <1>4, <1>10
  <1>12. Listed'
    BY <1>2 DEF Orders, Listed
  <1>13. Voiced'
    <2>1. ASSUME NEW i \in 1 .. Len(wire)
          PROVE  /\ wire[i].of <= issued /\ wire[i].of \notin ended'
                 /\ \/ wire[i].of \in Sent'
                    \/ wire[i].of \notin list' /\ Foreign(wire[i].kind)
      <3>1. /\ wire[i].of <= issued /\ wire[i].of \notin ended
            /\ wire[i].of \in Sent \/ (wire[i].of \notin list /\ Foreign(wire[i].kind))
        BY DEF Orders, Voiced
      <3>2. wire[i].of # q
        BY <1>7 DEF Coming
      <3>3. QED
        BY <1>2, <1>10, <3>1, <3>2
    <2>2. QED
      BY <1>2, <2>1 DEF Voiced
  <1>14. Concluded'
    <2>1. q <= issued
      BY <1>1, <1>2
    <2>2. QED
      BY <1>2, <1>9, <2>1 DEF Orders, Concluded
  <1>15. Lined'
    <2>1. ASSUME NEW s \in Queue, NEW i \in 1 .. Len(outqueue[s])
          PROVE  /\ \/ outqueue[s][i].redirect = outqueue[s][i].question
                    \/ /\ outqueue[s][i].redirect = 0
                       /\ outqueue[s][i].question \notin list' \union ended'
                       /\ redirect[outqueue[s][i].question].pattern \in Plain
                       /\ redirect[outqueue[s][i].question].count = 1
                 /\ \A j \in 1 .. i - 1 :
                      outqueue[s][j].question < outqueue[s][i].question
                 /\ Later(outqueue[s][i].question, Sent \union ended, wire)
      <3> DEFINE e == outqueue[s][i]
      <3>1. /\ \/ e.redirect = e.question
               \/ /\ e.redirect = 0 /\ e.question \notin list \union ended
                  /\ redirect[e.question].pattern \in Plain
                  /\ redirect[e.question].count = 1
            /\ \A j \in 1 .. i - 1 : outqueue[s][j].question < e.question
            /\ Later(e.question, Sent \union ended, wire)
        BY DEF Orders, Lined
      <3> HIDE DEF e
      <3>2. e.question \notin list \union ended => e.question \notin list' \union ended'
        BY <1>2
      <3>3. QED
        BY <3>1, <3>2 DEF e
    <2>2. QED
      BY <1>2, <1>11, <2>1 DEF Lined
  <1>16. Story(o)'
    <2>1. \A x \in Sent' : Following(redirect[x], x, wire, said, o)
      BY <1>3, <1>10 DEF Story
    <2>2. Spoken(wire, said, o)
      BY <1>3 DEF Story
    <2>3. QED
      BY <1>2, <2>1, <2>2 DEF Story
  <1>17. QED
    BY <1>12, <1>13, <1>14, <1>15, <1>16 DEF Orders

\* Nothing is to come.
LEMMA SilentSpoken ==
  ASSUME NEW s \in [Question -> Seq(Reply)]
  PROVE  Spoken(<<>>, s, [x \in Question |-> 0])
  <1>1. Len(<<>>) = 0 /\ <<>> \in Seq(Message)
    BY EmptySeq
  <1>2. 1 .. Len(<<>>) = {}
    BY <1>1
  <1>3. QED
    BY <1>1, <1>2 DEF Spoken, Laid

(***************************************************************************)
(* The link is lost: the answers of those that had one stay.               *)
(***************************************************************************)
LEMMA DisconnectOrders ==
  ASSUME Orders, Paired', Disconnect
  PROVE  Orders'
  <1>1. TypeOK
    BY OrdersTypes
  <1>2. /\ list' = {} /\ wire' = <<>> /\ outqueue' = NoQueue
        /\ UNCHANGED <<redirect, issued, said, ended>>
    BY DEF Disconnect
  <1>3. Sent' = {}
    BY <1>2 DEF Sent
  <1>4. 1 .. Len(wire') = {}
    BY <1>2
  <1>5. \A s \in Queue : outqueue'[s] = <<>>
    BY <1>2 DEF NoQueue
  <1>6. \A s \in Queue : 1 .. Len(outqueue'[s]) = {}
    BY <1>5
  <1>7. Listed' /\ Voiced' /\ Concluded' /\ Lined'
    <2>1. Listed'
      BY <1>2 DEF Listed
    <2>2. Voiced'
      BY <1>4 DEF Voiced
    <2>3. Concluded'
      BY <1>2 DEF Orders, Concluded
    <2>4. Lined'
      BY <1>6 DEF Lined
    <2>5. QED
      BY <2>1, <2>2, <2>3, <2>4
  <1> DEFINE o == [x \in Question |-> 0]
  <1>8. Spoken(wire', said', o)
    BY <1>1, <1>2, SilentSpoken DEF TypeOK
  <1> HIDE DEF o
  <1>9. Story(o)'
    BY <1>3, <1>8 DEF Story
  <1>10. QED
    BY <1>7, <1>9 DEF Orders

\* The variables of Orders do not change.
LEMMA StillOrders ==
  ASSUME Orders, Paired',
         UNCHANGED <<list, redirect, outqueue, wire, issued, said, ended>>
  PROVE  Orders'
  <1>1. PICK o : Story(o)
    BY DEF Orders
  <1>2. Sent' = Sent
    BY DEF Sent
  <1>3. Story(o)'
    BY <1>1, <1>2 DEF Story
  <1>4. Listed' /\ Voiced' /\ Concluded' /\ Lined'
    <2>1. Listed'
      BY DEF Orders, Listed
    <2>2. Voiced'
      BY <1>2 DEF Orders, Voiced
    <2>3. Concluded'
      BY DEF Orders, Concluded
    <2>4. Lined'
      BY <1>2 DEF Orders, Lined
    <2>5. QED
      BY <2>1, <2>2, <2>3, <2>4
  <1>5. QED
    BY <1>3, <1>4 DEF Orders

\* The server's message that comes next.
LEMMA ReceiveOrders ==
  ASSUME Orderly, Orders, Paired', Receive
  PROVE  Orders'
  <1>1. PICK o : Story(o)
    BY DEF Orders
  <1> DEFINE m == wire[1]
             h == IF m.of \in Sent THEN m.of ELSE 0
             p == Earlier(o)
  <1>2. wire # <<>> /\ RedirectMessage(m) /\ wire' = Tail(wire)
    BY DEF Receive
  <1>3. 1 \in 1 .. Len(wire) /\ wire \in Seq(Message)
    BY <1>1, <1>2, FirstPlaced DEF Story, Spoken
  <1>4. m \in Message
    BY <1>3, ElementOfSeq
  <1>5. Turn(m, h, o, p)
    BY <1>2 DEF Turn
  <1>6. h \in Question \union {0}
    BY OrdersTypes DEF Sent
  <1>7. Heeds(m, h)
    <2>1. CASE m.of \in Sent
      BY <1>1, <1>2, <2>1, HeedsWire
    <2>2. CASE m.of \notin Sent
      <3>1. Foreign(m.kind)
        BY <1>3, <2>2 DEF Orders, Voiced
      <3>2. Heeds(m, 0)
        BY <1>1, <2>2, <3>1, HeedsNobody
      <3>3. QED
        BY <2>2, <3>2
    <2>3. QED
      BY <2>1, <2>2
  <1> HIDE DEF m, h, p
  <1>8. QED
    BY <1>1, <1>2, <1>4, <1>5, <1>6, <1>7, MessageOrders

\* A message that nobody asked for comes between two answers.
LEMMA NoiseOrders ==
  ASSUME Orderly, Orders, Paired', ReceiveNoise
  PROVE  Orders'
  <1>1. PICK o : Story(o)
    BY DEF Orders
  <1> DEFINE m == [kind |-> Noise, of |-> 0]
  <1>2. Faults = {}
    BY OrderlyTable
  <1>3. wire = <<>> /\ RedirectMessage(m) /\ UNCHANGED wire
    BY <1>2 DEF ReceiveNoise
  <1>4. m \in Message /\ m.kind = Noise
    BY DEF Message
  <1>5. Foreign(m.kind)
    <2>1. ASSUME NEW r \in Redirected
          PROVE  Noise \notin Table[r].start \union Table[r].stop \union Table[r].extra
      <3>1. r \in Pattern /\ Noise \notin Reply
        BY RedirectAssumption DEF Redirected
      <3>2. QED
        BY <3>1, TableFacts
    <2>2. QED
      BY <1>4, <2>1 DEF Foreign
  <1> HIDE DEF m
  <1>6. Heeds(m, 0)
    BY <1>1, <1>3, <1>5, HeedsNobody
  <1>7. Turn(m, 0, o, o)
    BY <1>3 DEF Turn
  <1>8. QED
    BY <1>1, <1>3, <1>4, <1>6, <1>7, MessageOrders

LEMMA InitOrders == Init => Orders
  <1> SUFFICES ASSUME Init PROVE Orders
    OBVIOUS
  <1>1. Paired /\ TypeOK
    BY InitPaired, InitTypeOK
  <1>2. /\ list = {} /\ wire = <<>> /\ ended = {}
        /\ \A s \in Queue : outqueue[s] = <<>>
    BY DEF Init
  <1>3. Sent = {}
    BY <1>2 DEF Sent
  <1>4. 1 .. Len(wire) = {} /\ \A s \in Queue : 1 .. Len(outqueue[s]) = {}
    <2>1. Len(<<>>) = 0 /\ 1 .. 0 = {}
      OBVIOUS
    <2>2. QED
      BY <1>2, <2>1
  <1>5. Listed /\ Voiced /\ Concluded /\ Lined
    BY <1>2, <1>4 DEF Listed, Voiced, Concluded, Lined
  <1> DEFINE o == [x \in Question |-> 0]
  <1>6. Spoken(wire, said, o)
    BY <1>1, <1>2, SilentSpoken DEF TypeOK
  <1> HIDE DEF o
  <1>7. Story(o)
    BY <1>3, <1>6 DEF Story
  <1>8. QED
    BY <1>1, <1>5, <1>7 DEF Orders

LEMMA StepOrders == Orderly /\ Orders /\ [Next]_vars => Orders'
  <1> SUFFICES ASSUME Orderly, Orders, [Next]_vars PROVE Orders'
    OBVIOUS
  <1>1. Paired'
    BY StepPaired DEF Orders
  <1>2. CASE AskRedirected
    <2>1. PICK p \in Pattern, prio \in Prio :
            \E n \in Table[p].counts : Ask(p, n, prio, TRUE)
      BY <1>2 DEF AskRedirected
    <2>2. PICK n \in Table[p].counts : Ask(p, n, prio, TRUE)
      BY <2>1
    <2>3. n \in Nat \ {0} /\ TRUE \in BOOLEAN
      BY TableFacts
    <2>4. QED
      BY <1>1, <2>2, <2>3, AskOrders
  <1>3. CASE AskPlain
    <2>1. PICK p \in Plain, prio \in Prio : Ask(p, 1, prio, FALSE)
      BY <1>3 DEF AskPlain
    <2>2. p \in Pattern /\ 1 \in Nat \ {0} /\ FALSE \in BOOLEAN
      BY RedirectAssumption
    <2>3. QED
      BY <1>1, <2>1, <2>2, AskOrders
  <1>4. CASE SendQueued
    BY <1>1, <1>4, SendOrders
  <1>5. CASE Receive
    BY <1>1, <1>5, ReceiveOrders
  <1>6. CASE ReceiveNoise
    BY <1>1, <1>6, NoiseOrders
  <1>7. CASE TimerCheck
    BY <1>1, <1>7, TimeoutOrders DEF TimerCheck
  <1>8. CASE Disconnect
    BY <1>1, <1>8, DisconnectOrders
  <1>9. CASE Reconnect
    BY <1>1, <1>9, StillOrders DEF Reconnect
  <1>10. CASE DeleteQueues
    <2>1. Faults = {}
      BY OrderlyTable
    <2>2. QED
      BY <1>10, <2>1 DEF DeleteQueues
  <1>11. CASE UNCHANGED vars
    BY <1>1, <1>11, StillOrders DEF vars
  <1>12. QED
    BY <1>2, <1>3, <1>4, <1>5, <1>6, <1>7, <1>8, <1>9, <1>10, <1>11 DEF Next

(***************************************************************************)
(* irc_redirect_message(), irc_redirect_search_available() and the timer,  *)
(* with no string to compare: if the patterns, the priorities and the      *)
(* server are Orderly, each redirection that ended has got the whole of    *)
(* the answer to its question, whatever the number of questions.           *)
(***************************************************************************)
THEOREM AnswersAreWhole == Orderly => (Spec => []AnswersWhole)
  <1> SUFFICES ASSUME Orderly PROVE Spec => []AnswersWhole
    OBVIOUS
  <1>1. Init => Orders
    BY InitOrders
  <1>2. Orders /\ [Next]_vars => Orders'
    BY StepOrders
  <1>3. Orders => AnswersWhole
    BY DEF Orders, Concluded, Had, AnswersWhole
  <1>4. QED
    BY <1>1, <1>2, <1>3, PTL DEF Spec
=============================================================================
