-------------------------- MODULE IrcOutqueue_proofs --------------------------
(***************************************************************************)
(* Proofs about IrcOutqueue, for any delays, any number of messages, any   *)
(* changes of the clock and any depth of handlers that send messages;      *)
(* MaxDepth = 1 is assumed where the code needs it.                        *)
(***************************************************************************)
EXTENDS IrcOutqueue, SequenceTheorems, TLAPS

-----------------------------------------------------------------------------
(* Facts about the stack of calls and the queues.                          *)

(***************************************************************************)
(* The innermost call and the calls around it.                             *)
(***************************************************************************)
LEMMA LastFront ==
  ASSUME NEW S, NEW s \in Seq(S), s # <<>>
  PROVE  /\ Len(s) \in Nat /\ Len(s) >= 1
         /\ Last(s) = s[Len(s)] /\ Last(s) \in S
         /\ Front(s) \in Seq(S) /\ Len(Front(s)) = Len(s) - 1
         /\ \A i \in 1 .. Len(s) - 1 : Front(s)[i] = s[i]
  <1>1. Len(s) \in Nat /\ Len(s) >= 1
    OBVIOUS
  <1>2. Last(s) = s[Len(s)]
    BY DEF Last
  <1>3. s[Len(s)] \in S
    BY <1>1
  <1>4. Front(s) = SubSeq(s, 1, Len(s) - 1)
    BY DEF Front
  <1>5. /\ Front(s) \in Seq(S) /\ Len(Front(s)) = Len(s) - 1
        /\ \A i \in 1 .. Len(s) - 1 : Front(s)[i] = s[i]
    <2> DEFINE n == Len(s) - 1
    <2>1. n \in Nat /\ n = n - 1 + 1 /\ \A i \in 1 .. n : 1 + i - 1 = i
      BY <1>1
    <2>2. \A i \in 1 .. n : s[i] \in S
      BY <1>1, ElementOfSeq
    <2> HIDE DEF n
    <2>3. /\ SubSeq(s, 1, n) \in Seq(S)
          /\ Len(SubSeq(s, 1, n)) = IF 1 <= n THEN n - 1 + 1 ELSE 0
          /\ \A i \in 1 .. n - 1 + 1 : SubSeq(s, 1, n)[i] = s[1 + i - 1]
      BY <2>1, <2>2, SubSeqProperties
    <2>4. /\ SubSeq(s, 1, n) \in Seq(S) /\ Len(SubSeq(s, 1, n)) = n
          /\ \A i \in 1 .. n : SubSeq(s, 1, n)[i] = s[i]
      BY <2>1, <2>3
    <2>5. QED
      BY <1>4, <2>4 DEF n
  <1>6. QED
    BY <1>1, <1>2, <1>3, <1>5

(***************************************************************************)
(* Constants and operators of the clock stay in their ranges.              *)
(***************************************************************************)
LEMMA ClockFacts ==
  ASSUME NEW age \in -MaxBack .. Far
  PROVE  /\ Far \in Nat /\ MaxBack \in Nat
         /\ FixClock(age) \in 0 .. Far
         /\ Older(age) \in -MaxBack .. Far
         /\ age >= 0 => Older(age) \in 0 .. Far
  BY OutqueueAssumption DEF FixClock, Older

-----------------------------------------------------------------------------
(* The inductive invariant.                                                *)

(***************************************************************************)
(* Each queue is in the order of issue, behind every message of its        *)
(* priority that was found fit to go at once.                              *)
(***************************************************************************)
Ordered ==
  /\ \A p \in Prio : \A i \in 1 .. Len(outqueue[p]) :
       /\ outqueue[p][i] <= issued
       /\ \A j \in 1 .. i - 1 : outqueue[p][j] < outqueue[p][i]
  /\ \A k \in 1 .. Len(calls) : calls[k].msg <= issued
  /\ NoneJumpsQueue

(***************************************************************************)
(* Only the outermost call can be one of the timer, and its message is     *)
(* still the head of its queue.                                            *)
(***************************************************************************)
OneQueued ==
  /\ \A k \in 1 .. Len(calls) :
       calls[k].queued => k = 1 /\ calls[k].prio \in Prio
  /\ TakenIsHead

(***************************************************************************)
(* What was written and what is in the static buffer was issued.  When no  *)
(* handler sends, the buffer holds the message of the call, and neither    *)
(* that message nor one that waits comes before one that was written.      *)
(***************************************************************************)
Own(k) ==
  /\ buffer.prio = calls[k].prio /\ buffer.msg = calls[k].msg
  /\ calls[k].prio \in Prio => calls[k].msg > top[calls[k].prio]

Sent ==
  /\ buffer.msg <= issued
  /\ \A p \in Prio : top[p] <= issued
  /\ MaxDepth = 1 =>
       /\ \A p \in Prio : \A i \in 1 .. Len(outqueue[p]) :
            outqueue[p][i] > top[p]
       /\ \A k \in 1 .. Len(calls) : ~calls[k].queued => Own(k)

(***************************************************************************)
(* When no handler sends, last_user_message is never older than the last   *)
(* message really is, and the message being sent is due.                   *)
(***************************************************************************)
Spaced ==
  MaxDepth = 1 =>
    /\ since <= gap
    /\ \A k \in 1 .. Len(calls) :
         calls[k].prio \in Prio => gap >= ANTI_FLOOD[calls[k].prio]

IInv == TypeOK /\ Ordered /\ OneQueued /\ Sent /\ Spaced

(***************************************************************************)
(* The server starts without messages.                                     *)
(***************************************************************************)
LEMMA InitInv == Init => IInv
  <1> SUFFICES ASSUME Init
               PROVE  IInv
    OBVIOUS
  <1> USE OutqueueAssumption DEF Init, Prio
  <1>1. TypeOK
    <2>1. last \in Text /\ buffer \in Text
      BY DEF NoText, Text
    <2>2. calls \in Seq(Call) /\ Len(calls) <= MaxDepth
      OBVIOUS
    <2>3. outqueue \in [Prio -> Seq(Message)]
      OBVIOUS
    <2>4. /\ since \in -MaxBack .. Far /\ issued \in 0 .. MaxMessages
          /\ jumps \in 0 .. MaxJumps /\ top \in [Prio -> 0 .. MaxMessages]
          /\ gap \in 0 .. Far /\ idle \in Nat
      OBVIOUS
    <2>5. QED
      BY <2>1, <2>2, <2>3, <2>4 DEF TypeOK
  <1>2. Ordered /\ OneQueued
    BY DEF Ordered, NoneJumpsQueue, OneQueued, TakenIsHead
  <1>3. Sent /\ Spaced
    BY DEF Sent, Spaced, NoText
  <1>4. QED
    BY <1>1, <1>2, <1>3 DEF IInv

(***************************************************************************)
(* The types of what the queues and the stack of calls hold.               *)
(***************************************************************************)
LEMMA Typed ==
  ASSUME TypeOK
  PROVE  /\ issued \in Nat /\ gap \in Nat /\ since \in Int
         /\ buffer.prio \in Prio \cup {NoPrio} /\ buffer.msg \in Nat
         /\ \A p \in Prio : /\ outqueue[p] \in Seq(Message)
                            /\ Len(outqueue[p]) \in Nat /\ top[p] \in Nat
                            /\ ANTI_FLOOD[p] \in Nat
         /\ \A p \in Prio : \A i \in 1 .. Len(outqueue[p]) :
              outqueue[p][i] \in Message /\ outqueue[p][i] \in Nat
         /\ calls \in Seq(Call) /\ Len(calls) \in Nat
         /\ \A k \in 1 .. Len(calls) :
              /\ calls[k] \in Call
              /\ calls[k].prio \in Prio \cup {NoPrio}
              /\ calls[k].msg \in Message /\ calls[k].msg \in Nat
              /\ calls[k].queued \in BOOLEAN
  <1> USE OutqueueAssumption DEF TypeOK
  <1>1. /\ issued \in Nat /\ gap \in Nat /\ since \in Int
        /\ \A p \in Prio : /\ outqueue[p] \in Seq(Message)
                           /\ top[p] \in Nat /\ ANTI_FLOOD[p] \in Nat
    OBVIOUS
  <1>2. \A p \in Prio : Len(outqueue[p]) \in Nat
    OBVIOUS
  <1>3. \A p \in Prio : \A i \in 1 .. Len(outqueue[p]) :
          outqueue[p][i] \in Message /\ outqueue[p][i] \in Nat
    BY <1>1, ElementOfSeq DEF Message
  <1>4. calls \in Seq(Call) /\ Len(calls) \in Nat
    OBVIOUS
  <1>5. \A k \in 1 .. Len(calls) : calls[k] \in Call
    BY <1>4, ElementOfSeq
  <1>6. \A c \in Call : /\ c.prio \in Prio \cup {NoPrio}
                       /\ c.msg \in Message /\ c.msg \in Nat
                       /\ c.queued \in BOOLEAN
    BY DEF Call, Message
  <1>7. buffer.prio \in Prio \cup {NoPrio} /\ buffer.msg \in Nat
    BY DEF Text
  <1>8. QED
    BY <1>1, <1>2, <1>3, <1>4, <1>5, <1>6, <1>7

-----------------------------------------------------------------------------
(* Every action keeps the invariant.                                       *)

(***************************************************************************)
(* Sending a message: it is queued behind all others, or goes at once.     *)
(***************************************************************************)
LEMMA SubmitStep ==
  ASSUME IInv, Len(calls) < MaxDepth, NEW p \in Prio \cup {NoPrio}, Submit(p)
  PROVE  IInv'
  <1> USE OutqueueAssumption
  <1> DEFINE m == issued + 1
  <1>1. /\ issued' = m /\ m \in Message /\ m \in 0 .. MaxMessages
        /\ issued \in Nat
    BY DEF IInv, TypeOK, Submit, Message
  <1>2. since' \in 0 .. Far /\ (MaxDepth = 1 => since' <= gap)
    BY ClockFacts DEF IInv, TypeOK, Spaced, Submit, FixClock
  <1>7. /\ buffer' = [prio |-> p, msg |-> m]
        /\ buffer'.prio = p /\ buffer'.msg = m /\ buffer' \in Text
    BY <1>1 DEF Submit, Text
  <1>8. /\ buffer'.msg <= issued'
        /\ \A q \in Prio : top[q] < m /\ top'[q] <= issued'
    <2>1. \A q \in Prio : top[q] <= issued /\ top[q] \in Nat
      BY Typed DEF IInv, Sent
    <2>2. top' = top
      BY DEF Submit
    <2>3. QED
      BY <1>1, <1>7, <2>1, <2>2
  <1>3. /\ top' = top /\ last' = last /\ gap' = gap /\ idle' = idle
        /\ link' = link /\ due' = due /\ jumps' = jumps
    BY DEF Submit
  <1>4. CASE MustQueue(p, since')
    <2>1. outqueue' = [outqueue EXCEPT ![p] = Append(@, m)] /\ calls' = calls
      BY <1>1, <1>4 DEF Submit, OutqueueAdd
    <2>2. p \in Prio /\ outqueue[p] \in Seq(Message)
      BY <1>4 DEF IInv, TypeOK, MustQueue
    <2>3. /\ Append(outqueue[p], m) \in Seq(Message)
          /\ Len(Append(outqueue[p], m)) = Len(outqueue[p]) + 1
          /\ \A i \in 1 .. Len(outqueue[p]) :
               Append(outqueue[p], m)[i] = outqueue[p][i]
          /\ Append(outqueue[p], m)[Len(outqueue[p]) + 1] = m
      BY <1>1, <2>2, AppendProperties
    <2>4. TypeOK'
      BY <1>1, <1>2, <1>3, <1>7, <2>1, <2>2, <2>3 DEF IInv, TypeOK
    <2>5. Ordered'
      <3>2. ASSUME NEW q \in Prio, NEW i \in 1 .. Len(outqueue'[q])
            PROVE  /\ outqueue'[q][i] <= issued'
                   /\ \A j \in 1 .. i - 1 : outqueue'[q][j] < outqueue'[q][i]
        <4>0. DOMAIN outqueue = Prio
          BY DEF IInv, TypeOK
        <4>1. CASE q # p
          <5>1. outqueue'[q] = outqueue[q]
            BY <2>1, <4>0, <4>1
          <5>2. /\ outqueue[q][i] <= issued
                /\ \A j \in 1 .. i - 1 : outqueue[q][j] < outqueue[q][i]
            BY <3>2, <5>1 DEF IInv, Ordered
          <5>3. outqueue[q][i] \in Nat
            BY <3>2, <5>1, Typed DEF IInv
          <5>4. outqueue[q][i] <= issued'
            BY <1>1, <5>2, <5>3
          <5>5. QED
            BY <5>1, <5>2, <5>4
        <4>2. CASE q = p
          <5>1. outqueue'[q] = Append(outqueue[p], m)
            BY <2>1, <2>2, <4>0, <4>2
          <5>2. CASE i \in 1 .. Len(outqueue[p])
            <6> DEFINE new == Append(outqueue[p], m)
            <6>1. /\ outqueue[p][i] <= issued
                  /\ \A j \in 1 .. i - 1 : outqueue[p][j] < outqueue[p][i]
              BY <2>2, <5>2 DEF IInv, Ordered
            <6>2. outqueue[p][i] \in Nat /\ Len(outqueue[p]) \in Nat
              BY <2>2, <5>2, Typed DEF IInv
            <6>3. \A j \in 1 .. i - 1 : j \in 1 .. Len(outqueue[p])
              BY <5>2, <6>2
            <6>4. /\ new[i] = outqueue[p][i]
                  /\ \A j \in 1 .. i - 1 : new[j] = outqueue[p][j]
              BY <2>3, <5>2, <6>3
            <6>5. outqueue[p][i] <= issued'
              BY <1>1, <6>1, <6>2
            <6>6. outqueue'[q] = new
              BY <5>1
            <6> HIDE DEF new
            <6>7. QED
              BY <6>1, <6>4, <6>5, <6>6
          <5>3. CASE i = Len(outqueue[p]) + 1
            <6>1. outqueue'[q][i] = m
              BY <2>3, <5>1, <5>3
            <6>3. ASSUME NEW j \in 1 .. i - 1
                  PROVE  outqueue'[q][j] <= issued /\ outqueue'[q][j] \in Nat
              <7>1. Len(outqueue[p]) \in Nat
                BY <2>2, Typed DEF IInv
              <7>2. j \in 1 .. Len(outqueue[p])
                BY <5>3, <6>3, <7>1
              <7>3. outqueue'[q][j] = outqueue[p][j]
                BY <2>3, <5>1, <7>2
              <7>4. outqueue[p][j] <= issued
                BY <2>2, <7>2 DEF IInv, Ordered
              <7>5. outqueue[p][j] \in Nat
                BY <2>2, <7>2, Typed DEF IInv
              <7>6. QED
                BY <7>3, <7>4, <7>5
            <6>5. \A x \in Nat : x <= issued => x < m
              BY <1>1
            <6>6. \A j \in 1 .. i - 1 : outqueue'[q][j] < m
              BY <6>3, <6>5
            <6>7. m <= issued'
              BY <1>1
            <6>8. QED
              BY <6>1, <6>6, <6>7
          <5>4. i \in 1 .. Len(outqueue[p]) \/ i = Len(outqueue[p]) + 1
            <6>1. i \in 1 .. Len(outqueue[p]) + 1
              BY <2>3, <3>2, <5>1
            <6>2. Len(outqueue[p]) \in Nat
              BY <2>2, Typed DEF IInv
            <6>3. QED
              BY <6>1, <6>2
          <5>5. QED
            BY <5>2, <5>3, <5>4
        <4>3. QED
          BY <4>1, <4>2
      <3>3. \A k \in 1 .. Len(calls') : calls'[k].msg <= issued'
        <4>1. \A k \in 1 .. Len(calls) :
                calls[k].msg <= issued /\ calls[k].msg \in Nat
          BY Typed DEF IInv, Ordered
        <4>2. QED
          BY <1>1, <2>1, <4>1
      <3>4. NoneJumpsQueue'
        <4> SUFFICES ASSUME NEW k \in 1 .. Len(calls), ~calls[k].queued,
                            calls[k].prio \in Prio,
                            NEW i \in 1 .. Len(outqueue'[calls[k].prio])
                     PROVE  outqueue'[calls[k].prio][i] > calls[k].msg
          BY <2>1 DEF NoneJumpsQueue
        <4>1. /\ calls[k].msg <= issued /\ calls[k].msg \in Nat
              /\ DOMAIN outqueue = Prio
          BY Typed DEF IInv, Ordered, TypeOK
        <4>2. \A l \in 1 .. Len(outqueue[calls[k].prio]) :
                outqueue[calls[k].prio][l] > calls[k].msg
          BY DEF IInv, Ordered, NoneJumpsQueue
        <4>3. CASE calls[k].prio # p
          BY <2>1, <4>1, <4>2, <4>3
        <4>4. CASE calls[k].prio = p
          <5>1. outqueue'[p] = Append(outqueue[p], m)
            BY <2>1, <2>2, <4>1
          <5>2. i \in 1 .. Len(outqueue[p]) \/ i = Len(outqueue[p]) + 1
            BY <2>2, <2>3, <4>4, <5>1, Typed DEF IInv
          <5>3. m > calls[k].msg
            BY <1>1, <4>1
          <5>4. QED
            BY <2>3, <4>2, <4>4, <5>1, <5>2, <5>3
        <4>5. QED
          BY <4>3, <4>4
      <3>5. QED
        BY <3>2, <3>3, <3>4 DEF Ordered
    <2>6. OneQueued'
      <3>1. \A k \in 1 .. Len(calls') :
              calls'[k].queued => k = 1 /\ calls'[k].prio \in Prio
        BY <2>1 DEF IInv, OneQueued
      <3>2. ASSUME NEW k \in 1 .. Len(calls'), calls'[k].queued
            PROVE  /\ outqueue'[calls'[k].prio] # <<>>
                   /\ Head(outqueue'[calls'[k].prio]) = calls'[k].msg
        <4>1. /\ calls[k].prio \in Prio
              /\ outqueue[calls[k].prio] # <<>>
              /\ Head(outqueue[calls[k].prio]) = calls[k].msg
          BY <2>1, <3>2 DEF IInv, OneQueued, TakenIsHead
        <4>2. CASE calls[k].prio # p
          BY <2>1, <2>2, <4>1, <4>2 DEF IInv, TypeOK
        <4>3. CASE calls[k].prio = p
          <5>1. outqueue'[p] = Append(outqueue[p], m)
            BY <2>1, <2>2 DEF IInv, TypeOK
          <5>2. outqueue[p] # <<>> /\ Head(outqueue[p]) = calls[k].msg
            BY <4>1, <4>3
          <5>3. /\ Append(outqueue[p], m) # <<>>
                /\ Head(Append(outqueue[p], m)) = Head(outqueue[p])
            BY <2>2, <2>3, <5>2
          <5>4. calls'[k] = calls[k]
            BY <2>1
          <5>5. QED
            BY <4>3, <5>1, <5>2, <5>3, <5>4
        <4>4. QED
          BY <4>2, <4>3
      <3>3. QED
        BY <3>1, <3>2 DEF OneQueued, TakenIsHead
    <2>7. Spaced'
      BY <1>2, <1>3, <2>1 DEF IInv, Spaced
    <2>8. Sent'
      <3> SUFFICES ASSUME MaxDepth = 1
                   PROVE  /\ \A q \in Prio : \A i \in 1 .. Len(outqueue'[q]) :
                               outqueue'[q][i] > top'[q]
                          /\ \A k \in 1 .. Len(calls') :
                               ~calls'[k].queued => Own(k)'
        BY <1>8 DEF Sent
      <3>1. \A k \in 1 .. Len(calls') : FALSE
        BY <2>1, Typed DEF IInv
      <3>2. ASSUME NEW q \in Prio, NEW i \in 1 .. Len(outqueue'[q])
            PROVE  outqueue'[q][i] > top'[q]
        <4>1. \A l \in 1 .. Len(outqueue[q]) : outqueue[q][l] > top[q]
          BY DEF IInv, Sent
        <4>2. m > top[q] /\ top'[q] = top[q] /\ DOMAIN outqueue = Prio
          BY <1>1, <1>3, <1>8, Typed DEF IInv, TypeOK
        <4>3. CASE q # p
          BY <2>1, <3>2, <4>1, <4>2, <4>3
        <4>4. CASE q = p
          <5>1. outqueue'[p] = Append(outqueue[p], m)
            BY <2>1, <2>2, <4>2
          <5>2. i \in 1 .. Len(outqueue[p]) \/ i = Len(outqueue[p]) + 1
            BY <2>2, <2>3, <3>2, <4>4, <5>1, Typed DEF IInv
          <5>3. QED
            BY <2>3, <4>1, <4>2, <4>4, <5>1, <5>2
        <4>5. QED
          BY <4>3, <4>4
      <3>3. QED
        BY <3>1, <3>2
    <2>9. QED
      BY <2>4, <2>5, <2>6, <2>7, <2>8 DEF IInv
  <1>5. CASE ~MustQueue(p, since')
    <2> DEFINE c == [prio |-> p, msg |-> m, queued |-> FALSE]
    <2>1. calls' = Append(calls, c) /\ outqueue' = outqueue
      BY <1>1, <1>5 DEF Submit
    <2>2. p \in Prio => outqueue[p] = <<>> /\ since' >= ANTI_FLOOD[p]
      BY <1>2, <1>5 DEF MustQueue
    <2>3. c \in Call /\ c.prio = p /\ c.msg = m /\ c.queued = FALSE
      BY <1>1 DEF Call
    <2>4. calls \in Seq(Call) /\ Len(calls) \in Nat
      BY DEF IInv, TypeOK
    <2> HIDE DEF c, m
    <2>5. /\ calls' \in Seq(Call)
          /\ Len(calls') = Len(calls) + 1
          /\ \A k \in 1 .. Len(calls) : calls'[k] = calls[k]
          /\ calls'[Len(calls) + 1] = c
      BY <2>1, <2>3, <2>4, AppendProperties
    <2>6. \A k \in 1 .. Len(calls') :
            \/ k \in 1 .. Len(calls) /\ calls'[k] = calls[k]
            \/ k = Len(calls) + 1 /\ calls'[k] = c
      BY <2>4, <2>5
    <2>7. TypeOK'
      <3>1. Len(calls') <= MaxDepth
        BY <2>4, <2>5
      <3>2. QED
        BY <1>1, <1>2, <1>3, <1>7, <2>1, <2>5, <3>1 DEF IInv, TypeOK
    <2>8. Ordered'
      <3>1. \A q \in Prio : \A i \in 1 .. Len(outqueue'[q]) :
              /\ outqueue'[q][i] <= issued'
              /\ \A j \in 1 .. i - 1 : outqueue'[q][j] < outqueue'[q][i]
        <4>1. \A x \in Nat : x <= issued => x <= issued'
          BY <1>1 DEF m
        <4>2. QED
          BY <2>1, <4>1, Typed DEF IInv, Ordered
      <3>2. \A k \in 1 .. Len(calls') : calls'[k].msg <= issued'
        <4>1. \A k \in 1 .. Len(calls) :
                calls[k].msg <= issued /\ calls[k].msg \in Nat
          BY Typed DEF IInv, Ordered
        <4>2. QED
          BY <1>1, <2>3, <2>6, <4>1 DEF m
      <3>3. NoneJumpsQueue'
        <4> SUFFICES ASSUME NEW k \in 1 .. Len(calls'), ~calls'[k].queued,
                            calls'[k].prio \in Prio,
                            NEW i \in 1 .. Len(outqueue[calls'[k].prio])
                     PROVE  outqueue[calls'[k].prio][i] > calls'[k].msg
          BY <2>1 DEF NoneJumpsQueue
        <4>1. CASE k \in 1 .. Len(calls) /\ calls'[k] = calls[k]
          BY <4>1 DEF IInv, Ordered, NoneJumpsQueue
        <4>2. CASE k = Len(calls) + 1 /\ calls'[k] = c
          BY <2>2, <2>3, <4>2
        <4>3. QED
          BY <2>6, <4>1, <4>2
      <3>4. QED
        BY <3>1, <3>2, <3>3 DEF Ordered
    <2>9. OneQueued'
      BY <2>1, <2>3, <2>6 DEF IInv, OneQueued, TakenIsHead
    <2>10. Sent' /\ Spaced'
      <3>1. ASSUME MaxDepth = 1, NEW k \in 1 .. Len(calls')
            PROVE  /\ calls'[k].prio \in Prio =>
                        gap' >= ANTI_FLOOD[calls'[k].prio]
                   /\ Own(k)'
        <4>1. k = Len(calls) + 1 /\ calls'[k] = c
          BY <2>4, <2>6, <3>1
        <4>2. /\ gap \in Nat /\ since' \in Nat /\ since' <= gap
              /\ p \in Prio => ANTI_FLOOD[p] \in Nat
          BY <1>2, <3>1, Typed DEF IInv
        <4>3. p \in Prio => top'[p] < m
          BY <1>3, <1>8
        <4>4. Own(k)'
          <5>1. p \in Prio => m > top'[p]
            BY <1>1, <1>3, <4>3, Typed DEF IInv
          <5>2. QED
            BY <1>7, <2>3, <4>1, <5>1 DEF Own
        <4>5. p \in Prio => gap' >= ANTI_FLOOD[p]
          BY <1>3, <2>2, <4>2
        <4>6. QED
          BY <2>3, <4>1, <4>4, <4>5
      <3>2. MaxDepth = 1 => \A q \in Prio : \A i \in 1 .. Len(outqueue'[q]) :
              outqueue'[q][i] > top'[q]
        BY <1>3, <2>1 DEF IInv, Sent
      <3>3. Sent'
        BY <1>8, <3>1, <3>2 DEF Sent
      <3>4. Spaced'
        BY <1>2, <1>3, <3>1 DEF Spaced
      <3>5. QED
        BY <3>3, <3>4
    <2>11. QED
      BY <2>7, <2>8, <2>9, <2>10 DEF IInv
  <1>6. QED
    BY <1>4, <1>5

(***************************************************************************)
(* The timer: the head of a queue is taken, or nothing is.                 *)
(***************************************************************************)
LEMMA TimerSendStep ==
  ASSUME IInv, TimerSend
  PROVE  IInv'
  <1> USE OutqueueAssumption
  <1>1. /\ calls = <<>> /\ due' = FALSE
        /\ UNCHANGED <<link, outqueue, buffer, issued, jumps, top, last, gap>>
    BY DEF TimerSend
  <1>2. /\ FixClock(since) \in 0 .. Far
        /\ MaxDepth = 1 => FixClock(since) <= gap
    BY ClockFacts, Typed DEF IInv, TypeOK, Spaced, FixClock
  <1>3. since' \in -MaxBack .. Far /\ (MaxDepth = 1 => since' <= gap')
    BY <1>1, <1>2 DEF IInv, TypeOK, Spaced, TimerSend
  <1>4. idle' \in Nat
    BY DEF IInv, TypeOK, TimerSend, Longer
  <1>5. \/ calls' = <<>>
        \/ \E p \in Prio : /\ TakesFrom(p, since')
                          /\ calls' = <<[prio |-> p, msg |-> Head(outqueue[p]),
                                         queued |-> TRUE]>>
    BY <1>1 DEF TimerSend
  <1>6. CASE calls' = <<>>
    <2>1. TypeOK'
      BY <1>1, <1>3, <1>4, <1>6 DEF IInv, TypeOK
    <2>2. Ordered' /\ Sent'
      BY <1>1, <1>6 DEF IInv, Ordered, NoneJumpsQueue, Sent
    <2>3. OneQueued'
      BY <1>6 DEF OneQueued, TakenIsHead
    <2>4. Spaced'
      BY <1>3, <1>6 DEF Spaced
    <2>5. QED
      BY <2>1, <2>2, <2>3, <2>4 DEF IInv
  <1>7. ASSUME NEW p \in Prio, TakesFrom(p, since'),
               calls' = <<[prio |-> p, msg |-> Head(outqueue[p]),
                           queued |-> TRUE]>>
        PROVE  IInv'
    <2> DEFINE c == [prio |-> p, msg |-> Head(outqueue[p]), queued |-> TRUE]
    <2>1. outqueue[p] # <<>> /\ since' >= ANTI_FLOOD[p]
      BY <1>7 DEF TakesFrom, CanTake
    <2>2. outqueue[p] \in Seq(Message)
      BY DEF IInv, TypeOK
    <2>3. /\ Head(outqueue[p]) \in Message /\ Head(outqueue[p]) = outqueue[p][1]
          /\ 1 \in 1 .. Len(outqueue[p])
      BY <2>1, <2>2
    <2>4. /\ c \in Call /\ c.prio = p /\ c.msg = Head(outqueue[p])
          /\ c.queued = TRUE
      BY <2>3 DEF Call
    <2> HIDE DEF c
    <2>5. /\ calls' \in Seq(Call) /\ Len(calls') = 1 /\ calls'[1] = c
          /\ \A k \in 1 .. Len(calls') : k = 1
      BY <1>7, <2>4 DEF c
    <2>6. TypeOK'
      <3>1. Len(calls') <= MaxDepth
        BY <2>5
      <3>2. QED
        BY <1>1, <1>3, <1>4, <2>5, <3>1 DEF IInv, TypeOK
    <2>7. Ordered' /\ Sent'
      <3>1. c.msg <= issued
        BY <2>3, <2>4, Typed DEF IInv, Ordered
      <3>2. QED
        BY <1>1, <2>4, <2>5, <3>1 DEF IInv, Ordered, NoneJumpsQueue, Sent
    <2>8. OneQueued'
      BY <1>1, <2>1, <2>4, <2>5 DEF OneQueued, TakenIsHead
    <2>9. Spaced'
      <3>1. MaxDepth = 1 => gap' >= ANTI_FLOOD[p]
        BY <1>1, <1>3, <2>1, Typed DEF IInv, TypeOK
      <3>2. QED
        BY <1>3, <2>4, <2>5, <3>1 DEF Spaced
    <2>10. QED
      BY <2>6, <2>7, <2>8, <2>9 DEF IInv
  <1>8. QED
    BY <1>5, <1>6, <1>7

(***************************************************************************)
(* The end of a message sent at once, which writes the static buffer: what *)
(* waits was issued after the message of the call.                         *)
(***************************************************************************)
LEMMA SendDirectStep ==
  ASSUME IInv, NEW ok \in BOOLEAN, SendDirect(ok)
  PROVE  IInv'
  <1> USE OutqueueAssumption
  <1> DEFINE n == Len(calls)
             c == calls[n]
  <1>1. calls # <<>> /\ calls \in Seq(Call)
    BY DEF IInv, TypeOK, SendDirect
  <1>2. /\ n \in Nat /\ n >= 1 /\ Last(calls) = c
        /\ Front(calls) \in Seq(Call) /\ Len(Front(calls)) = n - 1
        /\ \A i \in 1 .. n - 1 : Front(calls)[i] = calls[i]
    BY <1>1, LastFront
  <1>3. /\ c \in Call /\ c.prio \in Prio \cup {NoPrio} /\ c.msg \in Nat
        /\ n \in 1 .. Len(calls)
    BY <1>2, Typed DEF IInv
  <1>4. /\ ~c.queued /\ calls' = Front(calls)
        /\ UNCHANGED <<link, outqueue, due, buffer, issued, jumps>>
    BY <1>2 DEF SendDirect
  <1> DEFINE w == buffer.prio
             v == IF buffer.msg > top[w] THEN buffer.msg ELSE top[w]
  <1>5. \/ /\ last' = [prio |-> w, msg |-> buffer.msg]
           /\ \/ w \in Prio /\ top' = [top EXCEPT ![w] = v] /\ gap' = 0
              \/ w \notin Prio /\ UNCHANGED <<top, gap>>
        \/ UNCHANGED <<top, last, gap>>
    BY DEF SendDirect, Written
  <1>6. \/ ok /\ c.prio \in Prio /\ since' = 0 /\ idle' = 0
        \/ ~(ok /\ c.prio \in Prio) /\ UNCHANGED <<since, idle>>
    BY <1>2 DEF SendDirect
  <1>7. (ok /\ Written(w, buffer.msg)) \/ (~ok /\ UNCHANGED <<top, last, gap>>)
    BY DEF SendDirect
  <1> HIDE DEF n, c
  <1>8. \A k \in 1 .. Len(calls') :
          k \in 1 .. Len(calls) /\ calls'[k] = calls[k]
    BY <1>2, <1>4 DEF n
  <1>9. /\ w \in Prio \cup {NoPrio} /\ buffer.msg \in 0 .. MaxMessages
        /\ [prio |-> w, msg |-> buffer.msg] \in Text
        /\ \A q \in Prio : top[q] \in 0 .. MaxMessages
        /\ DOMAIN top = Prio
    BY DEF IInv, TypeOK, Text
  <1>10. w \in Prio => v \in 0 .. MaxMessages /\ (v = top[w] \/ v = buffer.msg)
    BY <1>9
  <1> HIDE DEF v, w
  <1>11. \A q \in Prio : top'[q] = top[q] \/ (q = w /\ top'[q] = buffer.msg)
    BY <1>5, <1>9, <1>10
  <1>12. TypeOK'
    <2>1. top' \in [Prio -> 0 .. MaxMessages]
      BY <1>5, <1>9, <1>10 DEF IInv, TypeOK
    <2>2. last' \in Text
      BY <1>5, <1>9 DEF IInv, TypeOK
    <2>3. gap' \in 0 .. Far /\ since' \in -MaxBack .. Far /\ idle' \in Nat
      BY <1>5, <1>6 DEF IInv, TypeOK
    <2>4. calls' \in Seq(Call) /\ Len(calls') <= MaxDepth
      BY <1>2, <1>4 DEF IInv, TypeOK, n
    <2>5. QED
      BY <1>4, <2>1, <2>2, <2>3, <2>4 DEF IInv, TypeOK
  <1>13. Ordered' /\ OneQueued'
    BY <1>4, <1>8 DEF IInv, Ordered, NoneJumpsQueue, OneQueued, TakenIsHead
  <1>14. MaxDepth = 1 => Len(calls') = 0
    BY <1>2, <1>4 DEF IInv, TypeOK, n
  <1>15. Sent'
    <2>1. buffer'.msg <= issued' /\ \A q \in Prio : top'[q] <= issued'
      BY <1>4, <1>11 DEF IInv, Sent
    <2>2. ASSUME MaxDepth = 1, NEW q \in Prio,
                 NEW i \in 1 .. Len(outqueue'[q])
          PROVE  outqueue'[q][i] > top'[q]
      <3>1. outqueue[q][i] > top[q] /\ outqueue' = outqueue
        BY <1>4, <2>2 DEF IInv, Sent
      <3>2. c.prio = w /\ c.msg = buffer.msg
        BY <1>3, <1>4, <2>2 DEF IInv, Sent, Own, c, w
      <3>3. q = w => outqueue[q][i] > buffer.msg
        BY <1>3, <1>4, <2>2, <3>2 DEF IInv, Ordered, NoneJumpsQueue, c
      <3>4. QED
        BY <1>11, <3>1, <3>3
    <2>3. QED
      BY <1>14, <2>1, <2>2 DEF Sent
  <1>16. Spaced'
    <2> SUFFICES ASSUME MaxDepth = 1
                 PROVE  since' <= gap'
      BY <1>14 DEF Spaced
    <2>1. c.prio = w
      BY <1>3, <1>4 DEF IInv, Sent, Own, c, w
    <2>2. CASE ok /\ c.prio \in Prio
      <3>1. Written(w, buffer.msg) /\ w \in Prio
        BY <1>7, <2>1, <2>2
      <3>2. gap' = 0
        BY <3>1 DEF Written
      <3>3. QED
        BY <1>6, <2>2, <3>2
    <2>3. CASE ~(ok /\ c.prio \in Prio)
      <3>1. UNCHANGED gap
        BY <1>7, <2>1, <2>3 DEF Written
      <3>2. QED
        BY <1>6, <2>3, <3>1 DEF IInv, Spaced
    <2>4. QED
      BY <2>2, <2>3
  <1>17. QED
    BY <1>12, <1>13, <1>15, <1>16 DEF IInv

(***************************************************************************)
(* The end of a message taken from a queue: it is the head, and the rest   *)
(* of the queue comes after it.                                            *)
(***************************************************************************)
LEMMA SendQueuedStep ==
  ASSUME IInv, NEW ok \in BOOLEAN, SendQueued(ok)
  PROVE  IInv'
  <1> USE OutqueueAssumption
  <1> DEFINE c == calls[1]
             p == c.prio
  <1>1. calls # <<>> /\ calls \in Seq(Call)
    BY DEF IInv, TypeOK, SendQueued
  <1>2. /\ Last(calls) = calls[Len(calls)] /\ Len(calls) \in Nat
        /\ Len(calls) >= 1 /\ Len(Front(calls)) = Len(calls) - 1
        /\ Front(calls) \in Seq(Call)
    BY <1>1, LastFront
  <1>3. Len(calls) = 1 /\ Last(calls) = c /\ c.queued
    BY <1>2 DEF IInv, OneQueued, SendQueued
  <1>4. /\ c \in Call /\ p \in Prio /\ c.msg \in Nat /\ c.msg \in Message
        /\ c.msg <= issued
    BY <1>3, Typed DEF IInv, Ordered, OneQueued
  <1>5. outqueue[p] # <<>> /\ Head(outqueue[p]) = c.msg
    BY <1>3 DEF IInv, OneQueued, TakenIsHead
  <1>6. calls' = <<>>
    BY <1>2, <1>3 DEF SendQueued
  <1>7. /\ outqueue' = [outqueue EXCEPT ![p] = Tail(@)]
        /\ since' = 0 /\ idle' = 0
        /\ UNCHANGED <<link, due, buffer, issued, jumps>>
    BY <1>3 DEF SendQueued, OutqueueFree
  <1>8. \/ /\ top' = [top EXCEPT ![p] = IF c.msg > @ THEN c.msg ELSE @]
           /\ last' = [prio |-> p, msg |-> c.msg]
           /\ gap' = 0
        \/ UNCHANGED <<top, last, gap>>
    BY <1>3, <1>4 DEF SendQueued, Written
  <1> DEFINE v == IF c.msg > top[p] THEN c.msg ELSE top[p]
  <1> HIDE DEF c, p
  <1>9. /\ (top' = [top EXCEPT ![p] = v]) \/ (top' = top)
        /\ v \in 0 .. MaxMessages
    BY <1>4, <1>8 DEF IInv, TypeOK, Message
  <1> HIDE DEF v
  <1>10. outqueue[p] \in Seq(Message) /\ DOMAIN outqueue = Prio
    BY <1>4 DEF IInv, TypeOK
  <1>11. /\ Tail(outqueue[p]) \in Seq(Message)
         /\ Len(Tail(outqueue[p])) = Len(outqueue[p]) - 1
         /\ \A i \in 1 .. Len(Tail(outqueue[p])) :
              Tail(outqueue[p])[i] = outqueue[p][i + 1]
    BY <1>5, <1>10, HeadTailProperties
  <1>12. TypeOK'
    <2>1. top' \in [Prio -> 0 .. MaxMessages]
      BY <1>4, <1>9 DEF IInv, TypeOK
    <2>2. last' \in Text
      BY <1>4, <1>8 DEF IInv, TypeOK, Message, Text
    <2>3. gap' \in 0 .. Far /\ since' \in -MaxBack .. Far /\ idle' \in Nat
      BY <1>7, <1>8 DEF IInv, TypeOK
    <2>4. outqueue' \in [Prio -> Seq(Message)]
      BY <1>7, <1>11 DEF IInv, TypeOK
    <2>5. calls' \in Seq(Call) /\ Len(calls') <= MaxDepth
      BY <1>6
    <2>6. QED
      BY <1>7, <2>1, <2>2, <2>3, <2>4, <2>5 DEF IInv, TypeOK
  <1>13. ASSUME NEW q \in Prio, NEW i \in 1 .. Len(outqueue'[q])
         PROVE  /\ outqueue'[q][i] <= issued'
                /\ \A j \in 1 .. i - 1 : outqueue'[q][j] < outqueue'[q][i]
                /\ MaxDepth = 1 => outqueue'[q][i] > top'[q]
    <2>1. CASE q # p
      <3>1. outqueue'[q] = outqueue[q] /\ top'[q] = top[q]
        BY <1>7, <1>8, <1>10, <2>1 DEF IInv, TypeOK
      <3>2. QED
        BY <1>7, <1>13, <3>1 DEF IInv, Ordered, Sent
    <2>2. CASE q = p
      <3>1. outqueue'[q] = Tail(outqueue[p]) /\ Len(outqueue[p]) \in Nat
        BY <1>7, <1>10, <2>2
      <3>2. /\ i + 1 \in 1 .. Len(outqueue[p]) /\ 1 \in 1 .. i + 1 - 1
            /\ outqueue'[q][i] = outqueue[p][i + 1]
        BY <1>11, <1>13, <3>1
      <3>3. outqueue[p][1] = c.msg
        BY <1>5, <1>10
      <3>4. /\ outqueue[p][i + 1] <= issued
            /\ \A j \in 1 .. i + 1 - 1 : outqueue[p][j] < outqueue[p][i + 1]
            /\ MaxDepth = 1 => outqueue[p][i + 1] > top[p]
        BY <1>4, <3>2 DEF IInv, Ordered, Sent
      <3>5. top'[q] = top[p] \/ top'[q] = c.msg
        BY <1>4, <1>8, <2>2 DEF IInv, TypeOK
      <3>6. MaxDepth = 1 => outqueue'[q][i] > top'[q]
        <4>1. outqueue[p][1] < outqueue[p][i + 1]
          BY <3>2, <3>4
        <4>2. outqueue[p][i + 1] \in Nat
          BY <1>4, <3>2, Typed DEF IInv
        <4>3. QED
          BY <1>4, <3>2, <3>3, <3>4, <3>5, <4>1, <4>2
      <3>7. \A j \in 1 .. i - 1 : /\ outqueue'[q][j] = outqueue[p][j + 1]
                                 /\ j + 1 \in 1 .. i + 1 - 1
        BY <1>11, <1>13, <3>1
      <3>8. QED
        BY <1>7, <3>2, <3>4, <3>6, <3>7
    <2>3. QED
      BY <2>1, <2>2
  <1>14. Ordered' /\ OneQueued'
    BY <1>6, <1>13 DEF Ordered, NoneJumpsQueue, OneQueued, TakenIsHead
  <1>15. Sent'
    <2>1. buffer'.msg <= issued'
      BY <1>7 DEF IInv, Sent
    <2>2. \A q \in Prio : top'[q] <= issued'
      BY <1>4, <1>7, <1>8 DEF IInv, Sent, TypeOK
    <2>3. QED
      BY <1>6, <1>13, <2>1, <2>2 DEF Sent
  <1>16. Spaced'
    BY <1>6, <1>7, <1>8, Typed DEF IInv, Spaced
  <1>17. QED
    BY <1>12, <1>14, <1>15, <1>16 DEF IInv

(***************************************************************************)
(* The connection, the user and the clock touch the stack of calls never,  *)
(* and the queues only to empty them.                                      *)
(***************************************************************************)
LEMMA OtherSteps ==
  ASSUME IInv,
         Login \/ Connected \/ Disconnect \/ DeleteQueues \/ Tick \/ ClockBack
  PROVE  IInv'
  <1> USE OutqueueAssumption
  <1> DEFINE Same == UNCHANGED <<calls, buffer, issued, top, last>>
  <1> USE DEF Login, Connected, Disconnect, DeleteQueues, EmptyQueues, Tick,
              ClockBack
  <1>1. /\ calls = <<>> /\ Same /\ link' \in {"down", "login", "up"}
        /\ due' \in BOOLEAN /\ jumps' \in 0 .. MaxJumps /\ idle' \in Nat
        /\ outqueue' = outqueue \/ outqueue' = FreeAll
    <2>1. calls = <<>> /\ Same
      OBVIOUS
    <2>2. link' \in {"down", "login", "up"}
      BY DEF IInv, TypeOK
    <2>3. due' \in BOOLEAN
      BY Zenon DEF IInv, TypeOK
    <2>4. jumps' \in 0 .. MaxJumps /\ idle' \in Nat
      <3>1. jumps \in 0 .. MaxJumps /\ idle \in Nat /\ MaxJumps \in Nat
        BY DEF IInv, TypeOK
      <3>2. jumps' = jumps \/ (jumps < MaxJumps /\ jumps' = jumps + 1)
        OBVIOUS
      <3>3. idle' \in {idle, 0, idle + 1}
        OBVIOUS
      <3>4. QED
        BY <3>1, <3>2, <3>3
    <2>5. outqueue' = outqueue \/ outqueue' = FreeAll
      OBVIOUS
    <2>6. QED
      BY <2>1, <2>2, <2>3, <2>4, <2>5
  <1>2. /\ since' \in -MaxBack .. Far /\ gap' \in 0 .. Far
        /\ MaxDepth = 1 => since' <= gap'
    <2>1. CASE UNCHANGED <<since, gap>>
      BY <2>1 DEF IInv, TypeOK, Spaced
    <2>2. CASE Tick
      BY <2>2 DEF IInv, TypeOK, Spaced, Older
    <2>3. CASE ClockBack
      BY <2>3 DEF IInv, TypeOK, Spaced
    <2>4. QED
      BY <2>1, <2>2, <2>3
  <1>3. outqueue' \in [Prio -> Seq(Message)]
    <2>1. FreeAll \in [Prio -> Seq(Message)]
      BY DEF FreeAll
    <2>2. outqueue \in [Prio -> Seq(Message)]
      BY DEF IInv, TypeOK
    <2>3. QED
      BY <1>1, <2>1, <2>2
  <1>4. TypeOK'
    BY <1>1, <1>2, <1>3 DEF IInv, TypeOK
  <1>5. Ordered' /\ Sent'
    <2>1. Len(calls) = 0 /\ calls' = calls
      BY <1>1
    <2>2. CASE outqueue' = outqueue
      BY <1>1, <2>1, <2>2 DEF IInv, Ordered, NoneJumpsQueue, Sent
    <2>3. CASE outqueue' = FreeAll
      <3>1. \A q \in Prio : Len(outqueue'[q]) = 0
        BY <2>3 DEF FreeAll
      <3>2. QED
        BY <1>1, <2>1, <3>1 DEF IInv, Ordered, NoneJumpsQueue, Sent
    <2>4. QED
      BY <1>1, <2>2, <2>3
  <1>6. OneQueued' /\ Spaced'
    BY <1>1, <1>2 DEF OneQueued, TakenIsHead, Spaced
  <1>7. QED
    BY <1>4, <1>5, <1>6 DEF IInv

(***************************************************************************)
(* Every step keeps the invariant.                                         *)
(***************************************************************************)
LEMMA StepInv == IInv /\ [Next]_vars => IInv'
  <1> SUFFICES ASSUME IInv, [Next]_vars
               PROVE  IInv'
    OBVIOUS
  <1>1. CASE Send
    BY <1>1, SubmitStep DEF Send
  <1>2. CASE SendReturns
    BY <1>2, SendDirectStep, SendQueuedStep DEF SendReturns
  <1>3. CASE TimerSend
    BY <1>3, TimerSendStep
  <1>4. CASE Login \/ Connected \/ Disconnect \/ DeleteQueues \/ Tick \/ ClockBack
    BY <1>4, OtherSteps
  <1>5. CASE UNCHANGED vars
    BY <1>5 DEF vars, IInv, TypeOK, Ordered, NoneJumpsQueue, OneQueued,
       TakenIsHead, Sent, Own, Spaced
  <1>6. QED
    BY <1>1, <1>2, <1>3, <1>4, <1>5 DEF Next

(***************************************************************************)
(* The inductive invariant holds in every reachable state.                 *)
(***************************************************************************)
THEOREM OutqueueInvariant == Spec => []IInv
  BY InitInv, StepInv, PTL DEF Spec

(***************************************************************************)
(* Type correctness of the sending of messages.                            *)
(***************************************************************************)
THEOREM TypeCorrect == Spec => []TypeOK
  <1>1. IInv => TypeOK
    BY DEF IInv
  <1>2. QED
    BY <1>1, OutqueueInvariant, PTL

(***************************************************************************)
(* Whatever the handlers of irc_out send, a message is let go at once only *)
(* ahead of none that waits, and the message that is being taken stays the *)
(* head of its queue.                                                      *)
(***************************************************************************)
THEOREM QueuesKeepOrder == Spec => []QueuesInOrder
  <1>1. IInv => QueuesInOrder
    BY DEF IInv, Ordered, OneQueued, QueuesInOrder
  <1>2. QED
    BY <1>1, OutqueueInvariant, PTL

(***************************************************************************)
(* The calls that end, when the handlers send nothing: what is written is  *)
(* the message of the call.                                                *)
(***************************************************************************)
LEMMA WritesOwn ==
  ASSUME IInv, MaxDepth = 1, NEW ok \in BOOLEAN,
         SendDirect(ok) \/ SendQueued(ok)
  PROVE  LET c == calls[Len(calls)] IN
         /\ calls # <<>> /\ Last(calls) = c /\ Len(calls) \in 1 .. Len(calls)
         /\ Written(c.prio, c.msg) \/ UNCHANGED <<top, last, gap>>
  <1>1. calls # <<>> /\ calls \in Seq(Call)
    BY DEF SendDirect, SendQueued, IInv, TypeOK
  <1>2. /\ Len(calls) >= 1 /\ Len(calls) \in Nat
        /\ Last(calls) = calls[Len(calls)]
    BY <1>1, LastFront
  <1> DEFINE c == calls[Len(calls)]
  <1>3. CASE SendDirect(ok)
    <2>1. buffer.prio = c.prio /\ buffer.msg = c.msg
      BY <1>2, <1>3 DEF SendDirect, IInv, Sent, Own
    <2>2. QED
      BY <1>1, <1>2, <1>3, <2>1 DEF SendDirect
  <1>4. CASE SendQueued(ok)
    BY <1>1, <1>2, <1>4 DEF SendQueued
  <1>5. QED
    BY <1>3, <1>4

(***************************************************************************)
(* If the handlers send nothing, the anti-flood delay of each priority     *)
(* passes before each of its messages, whatever the clock does.            *)
(***************************************************************************)
THEOREM DelaysAreKept == ASSUME MaxDepth = 1 PROVE Spec => AntiFlood
  <1>1. IInv /\ [Next]_vars =>
          [(last' # last /\ last'.prio \in Prio) =>
             gap >= ANTI_FLOOD[last'.prio]]_vars
    <2> SUFFICES ASSUME IInv, Next, last' # last, last'.prio \in Prio
                 PROVE  gap >= ANTI_FLOOD[last'.prio]
      OBVIOUS
    <2>1. PICK ok \in BOOLEAN : SendDirect(ok) \/ SendQueued(ok)
      BY DEF Next, Send, Submit, TimerSend, Login, Connected, Disconnect,
             DeleteQueues, EmptyQueues, Tick, ClockBack, SendReturns
    <2> DEFINE c == calls[Len(calls)]
    <2>2. /\ Len(calls) \in 1 .. Len(calls)
          /\ last' = [prio |-> c.prio, msg |-> c.msg]
      BY <2>1, WritesOwn DEF Written
    <2>3. c.prio \in Prio => gap >= ANTI_FLOOD[c.prio]
      BY <2>2 DEF IInv, Spaced
    <2>4. QED
      BY <2>2, <2>3
  <1>2. QED
    BY <1>1, OutqueueInvariant, PTL DEF Spec, AntiFlood

(***************************************************************************)
(* If the handlers send nothing, a message sent at once is the one that    *)
(* they were called for, as the comment of irc_server_send_one_msg() says. *)
(* (With handlers that send, TLC finds the contrary.)                      *)
(***************************************************************************)
THEOREM HandlersSeeWhatIsSent ==
  ASSUME MaxDepth = 1 PROVE Spec => SignalledIsWritten
  <1>1. IInv /\ [Next]_vars =>
          [SendDirect(TRUE) => last'.msg = Last(calls).msg]_vars
    <2> SUFFICES ASSUME IInv, SendDirect(TRUE)
                 PROVE  last'.msg = Last(calls).msg
      OBVIOUS
    <2> DEFINE n == Len(calls)
    <2>1. calls # <<>> /\ ~Last(calls).queued /\ last' = [prio |-> buffer.prio,
                                                       msg |-> buffer.msg]
      BY DEF SendDirect, Written
    <2>2. n \in 1 .. n /\ Last(calls) = calls[n]
      BY WritesOwn
    <2>3. buffer.msg = calls[n].msg
      BY <2>1, <2>2 DEF IInv, Sent, Own
    <2>4. QED
      BY <2>1, <2>2, <2>3
  <1>2. QED
    BY <1>1, OutqueueInvariant, PTL DEF Spec, SignalledIsWritten

-----------------------------------------------------------------------------
(* The two queues and the messages sent at once make one queue.            *)

(***************************************************************************)
(* What is pending when no call is open, and under a call at either end.   *)
(***************************************************************************)
LEMMA PendingFacts ==
  ASSUME TypeOK
  PROVE  /\ \A p \in Prio : outqueue[p] \in Seq(Message)
         /\ calls = <<>> => Pending = outqueue
         /\ calls # <<>> /\ Last(calls).queued => Pending = outqueue
         /\ calls # <<>> /\ ~Last(calls).queued =>
              Pending = [outqueue EXCEPT
                           ![Last(calls).prio] = <<Last(calls).msg>> \o @]
  <1>1. outqueue \in [Prio -> Seq(Message)]
    BY DEF TypeOK
  <1>2. \A p \in Prio : <<>> \o outqueue[p] = outqueue[p]
    BY <1>1
  <1>3. ASSUME \A p \in Prio : Direct(p) = <<>>
        PROVE  Pending = outqueue
    BY <1>1, <1>2, <1>3 DEF Pending
  <1>4. calls = <<>> => Pending = outqueue
    BY <1>3 DEF Direct
  <1>5. calls # <<>> /\ Last(calls).queued => Pending = outqueue
    BY <1>3 DEF Direct
  <1>6. ASSUME calls # <<>>, ~Last(calls).queued
        PROVE  Pending = [outqueue EXCEPT
                            ![Last(calls).prio] = <<Last(calls).msg>> \o @]
    <2>1. \A p \in Prio : p # Last(calls).prio => Pending[p] = outqueue[p]
      BY <1>2 DEF Pending, Direct
    <2>2. \A p \in Prio : p = Last(calls).prio =>
            Pending[p] = <<Last(calls).msg>> \o outqueue[p]
      BY <1>6 DEF Pending, Direct
    <2>3. QED
      BY <1>1, <2>1, <2>2 DEF Pending
  <1>7. QED
    BY <1>1, <1>4, <1>5, <1>6

(***************************************************************************)
(* The sending of a message is its issue.                                  *)
(***************************************************************************)
LEMMA SubmitIssues ==
  ASSUME IInv, IInv', Len(calls) < MaxDepth, MaxDepth = 1,
         NEW p \in Prio, Submit(p)
  PROVE  F!Issue(p)
  <1> DEFINE m == issued + 1
  <1>1. calls = <<>> /\ Pending = outqueue
    <2>1. calls \in Seq(Call) /\ Len(calls) = 0
      BY Typed DEF IInv
    <2>2. calls = <<>>
      BY <2>1
    <2>3. QED
      BY <2>2, PendingFacts DEF IInv
  <1>2. issued < MaxMessages /\ issued' = m /\ UNCHANGED top
    BY DEF Submit
  <1>3. m \in Message /\ outqueue \in [Prio -> Seq(Message)]
    BY <1>2, OutqueueAssumption DEF IInv, TypeOK, Message
  <1>4. Pending' = [outqueue EXCEPT ![p] = Append(@, m)]
    <2>1. CASE MustQueue(p, since')
      <3>1. calls' = <<>> /\ outqueue' = [outqueue EXCEPT ![p] = Append(@, m)]
        BY <1>1, <1>2, <2>1 DEF Submit, OutqueueAdd
      <3>2. Pending' = outqueue'
        <4>1. outqueue' \in [Prio -> Seq(Message)]
          BY DEF IInv, TypeOK
        <4>2. \A q \in Prio : <<>> \o outqueue'[q] = outqueue'[q]
          BY <4>1
        <4>3. \A q \in Prio : Pending'[q] = outqueue'[q]
          BY <3>1, <4>2 DEF Pending, Direct
        <4>4. Pending' = [q \in Prio |-> Pending'[q]]
          BY DEF Pending
        <4>5. QED
          BY <4>1, <4>3, <4>4
      <3>3. QED
        BY <3>1, <3>2
    <2>2. CASE ~MustQueue(p, since')
      <3> DEFINE c == [prio |-> p, msg |-> m, queued |-> FALSE]
      <3>1. calls' = <<c>> /\ outqueue' = outqueue /\ outqueue[p] = <<>>
        BY <1>1, <1>2, <2>2 DEF Submit, MustQueue
      <3>2. /\ calls' # <<>> /\ Last(calls') = c /\ c.prio = p /\ c.msg = m
            /\ c.queued = FALSE
        BY <3>1 DEF Last
      <3> HIDE DEF c
      <3>3. Pending' = [outqueue EXCEPT ![p] = <<m>> \o @]
        <4>1. \A q \in Prio : Pending'[q] =
                 (IF q = p THEN <<m>> ELSE <<>>) \o outqueue[q]
          BY <3>1, <3>2 DEF Pending, Direct
        <4>2. \A q \in Prio : <<>> \o outqueue[q] = outqueue[q]
          BY <1>3
        <4>3. Pending' = [q \in Prio |-> Pending'[q]]
          BY DEF Pending
        <4>4. QED
          BY <1>3, <4>1, <4>2, <4>3
      <3>4. <<m>> \o <<>> = Append(<<>>, m)
        OBVIOUS
      <3>5. QED
        BY <1>3, <3>1, <3>3, <3>4
    <2>3. QED
      BY <2>1, <2>2
  <1>5. QED
    BY <1>1, <1>2, <1>4 DEF F!Issue

(***************************************************************************)
(* A message of no priority leaves what is pending as it is.               *)
(***************************************************************************)
LEMMA PendingOther ==
  ASSUME TypeOK, calls # <<>> => Last(calls).prio \notin Prio
  PROVE  Pending = outqueue
  <1>1. outqueue \in [Prio -> Seq(Message)]
    BY DEF TypeOK
  <1>2. \A p \in Prio : <<>> \o outqueue[p] = outqueue[p]
    BY <1>1
  <1>3. \A p \in Prio : Direct(p) = <<>>
    BY DEF Direct
  <1>4. QED
    BY <1>1, <1>2, <1>3 DEF Pending

(***************************************************************************)
(* A message of no priority only takes a number.                           *)
(***************************************************************************)
LEMMA OtherIssues ==
  ASSUME IInv, IInv', Len(calls) < MaxDepth, MaxDepth = 1, Submit(NoPrio)
  PROVE  F!Other
  <1>1. NoPrio \notin Prio
    BY DEF NoPrio, Prio
  <1>2. calls = <<>>
    BY Typed DEF IInv
  <1> DEFINE c == [prio |-> NoPrio, msg |-> issued', queued |-> FALSE]
  <1>3. /\ calls' = <<c>> /\ outqueue' = outqueue /\ top' = top
        /\ issued < MaxMessages /\ issued' = issued + 1
    BY <1>1, <1>2 DEF Submit, MustQueue
  <1>4. Last(calls').prio \notin Prio
    BY <1>1, <1>3 DEF Last
  <1>5. Pending = outqueue
    BY <1>2, PendingOther DEF IInv
  <1>6. Pending' = outqueue'
    <2>1. TypeOK' /\ (calls' # <<>> => Last(calls').prio \notin Prio)
      BY <1>4 DEF IInv
    <2>2. outqueue' \in [Prio -> Seq(Message)]
      BY <2>1 DEF TypeOK
    <2>3. \A p \in Prio : <<>> \o outqueue'[p] = outqueue'[p]
      BY <2>2
    <2>4. \A p \in Prio : Direct(p)' = <<>>
      BY <1>4 DEF Direct
    <2>5. QED
      BY <2>2, <2>3, <2>4 DEF Pending
  <1>7. QED
    BY <1>3, <1>5, <1>6 DEF F!Other

(***************************************************************************)
(* The end of a call delivers the head of what is pending, or loses it.    *)
(***************************************************************************)
LEMMA ReturnTakes ==
  ASSUME IInv, IInv', MaxDepth = 1, NEW ok \in BOOLEAN,
         SendDirect(ok) \/ SendQueued(ok), Last(calls).prio \in Prio
  PROVE  \E p \in Prio : F!Deliver(p) \/ F!Lose(p)
  <1> DEFINE c == Last(calls)
             p == c.prio
  <1>1. calls # <<>> /\ calls \in Seq(Call) /\ Len(calls) <= 1
    BY DEF SendDirect, SendQueued, IInv, TypeOK
  <1>2. /\ Len(calls) = 1 /\ c = calls[1] /\ 1 \in 1 .. Len(calls)
        /\ Front(calls) = <<>>
    <2>1. /\ Len(calls) \in Nat /\ Len(calls) >= 1 /\ c = calls[Len(calls)]
          /\ Front(calls) \in Seq(Call) /\ Len(Front(calls)) = Len(calls) - 1
      BY <1>1, LastFront
    <2>2. Len(calls) = 1 /\ Len(Front(calls)) = 0
      BY <1>1, <2>1
    <2>3. Front(calls) = <<>>
      BY <2>1, <2>2
    <2>4. QED
      BY <2>1, <2>2, <2>3
  <1>3. p \in Prio /\ c.msg \in Message /\ c.msg \in Nat
    BY <1>2, Typed DEF IInv
  <1>10. \A i \in 1 .. Len(outqueue[p]) : outqueue[p][i] > top[p]
    BY <1>3 DEF IInv, Sent
  <1>4. calls' = <<>> /\ issued' = issued /\ Pending' = outqueue'
    <2>1. calls' = <<>> /\ issued' = issued
      BY <1>2 DEF SendDirect, SendQueued
    <2>2. \A q \in Prio : <<>> \o outqueue'[q] = outqueue'[q]
      BY DEF IInv, TypeOK
    <2>3. \A q \in Prio : Pending'[q] = outqueue'[q]
      BY <2>1, <2>2 DEF Pending, Direct
    <2>4. DOMAIN outqueue' = Prio /\ Pending' = [q \in Prio |-> Pending'[q]]
      BY DEF IInv, TypeOK, Pending
    <2>5. outqueue' = [q \in Prio |-> outqueue'[q]]
      BY <2>4 DEF IInv, TypeOK
    <2>6. QED
      BY <2>1, <2>3, <2>4, <2>5
  <1>5. outqueue \in [Prio -> Seq(Message)]
    BY DEF IInv, TypeOK
  <1>6. /\ Pending[p] # <<>> /\ Head(Pending[p]) = c.msg
        /\ Pending' = [Pending EXCEPT ![p] = Tail(@)]
        /\ c.msg > top[p]
    <2>1. CASE SendDirect(ok)
      <3>1. ~c.queued /\ outqueue' = outqueue
        BY <2>1 DEF SendDirect
      <3>2. Pending = [outqueue EXCEPT ![p] = <<c.msg>> \o @]
        BY <1>1, <3>1, PendingFacts DEF IInv
      <3>3. outqueue[p] \in Seq(Message)
        BY <1>3, <1>5
      <3> HIDE DEF c, p
      <3>4. /\ <<c.msg>> \o outqueue[p] # <<>>
            /\ Head(<<c.msg>> \o outqueue[p]) = c.msg
            /\ Tail(<<c.msg>> \o outqueue[p]) = outqueue[p]
        BY <1>3, <3>3
      <3>5. c.msg > top[p]
        BY <1>2, <1>3, <3>1 DEF IInv, Sent, Own, c, p
      <3>6. Pending[p] = <<c.msg>> \o outqueue[p]
        BY <1>3, <1>5, <3>2
      <3>7. [Pending EXCEPT ![p] = Tail(@)] = outqueue
        BY <1>3, <1>5, <3>2, <3>4
      <3>8. QED
        BY <1>4, <3>1, <3>4, <3>5, <3>6, <3>7
    <2>2. CASE SendQueued(ok)
      <3>1. c.queued /\ outqueue' = [outqueue EXCEPT ![p] = Tail(@)]
        BY <2>2 DEF SendQueued, OutqueueFree
      <3>2. Pending = outqueue
        BY <1>1, <3>1, PendingFacts DEF IInv
      <3>3. outqueue[p] # <<>> /\ Head(outqueue[p]) = c.msg
        BY <1>2, <3>1 DEF IInv, OneQueued, TakenIsHead
      <3>4. c.msg > top[p]
        <4>1. 1 \in 1 .. Len(outqueue[p]) /\ outqueue[p][1] = c.msg
          BY <1>3, <1>5, <3>3
        <4>2. QED
          BY <1>10, <4>1
      <3>5. QED
        BY <1>4, <3>1, <3>2, <3>3, <3>4
    <2>3. QED
      BY <2>1, <2>2
  <1>7. UNCHANGED top \/ top' = [top EXCEPT ![p] = c.msg]
    <2>1. \/ UNCHANGED top
          \/ top' = [top EXCEPT ![p] = IF c.msg > @ THEN c.msg ELSE @]
      BY <1>3, WritesOwn DEF Written
    <2>2. QED
      BY <1>6, <2>1
  <1>8. F!Deliver(p) \/ F!Lose(p)
    BY <1>4, <1>6, <1>7 DEF F!Deliver, F!Lose, F!Take
  <1>9. QED
    BY <1>3, <1>8

(***************************************************************************)
(* The end of a message of no priority changes nothing that is pending.    *)
(***************************************************************************)
LEMMA ReturnOther ==
  ASSUME IInv, IInv', MaxDepth = 1, NEW ok \in BOOLEAN,
         SendDirect(ok) \/ SendQueued(ok), Last(calls).prio \notin Prio
  PROVE  UNCHANGED <<issued, Pending, top>>
  <1>1. calls # <<>> /\ calls \in Seq(Call) /\ Len(calls) = 1
    <2>1. calls # <<>> /\ calls \in Seq(Call) /\ Len(calls) <= 1
      BY DEF SendDirect, SendQueued, IInv, TypeOK
    <2>2. Len(calls) >= 1 /\ Len(calls) \in Nat
      BY <2>1, LastFront
    <2> DEFINE n == Len(calls)
    <2>3. n \in Nat /\ n >= 1 /\ n <= 1
      BY <2>1, <2>2
    <2> HIDE DEF n
    <2>4. n = 1
      BY <2>3
    <2>5. QED
      BY <2>1, <2>4 DEF n
  <1>2. /\ Last(calls) = calls[1] /\ Front(calls) = <<>>
    <2>1. /\ Last(calls) = calls[1] /\ Len(Front(calls)) = 0
          /\ Front(calls) \in Seq(Call)
      BY <1>1, LastFront
    <2>2. QED
      BY <2>1
  <1>3. ~SendQueued(ok)
    BY <1>1, <1>2 DEF SendQueued, IInv, OneQueued
  <1>4. calls' = <<>> /\ UNCHANGED <<issued, outqueue>>
    BY <1>2, <1>3 DEF SendDirect
  <1>5. UNCHANGED top
    BY <1>1, WritesOwn DEF Written
  <1>6. Pending = outqueue
    BY PendingOther DEF IInv
  <1>7. Pending' = outqueue'
    <2>1. outqueue' \in [Prio -> Seq(Message)]
      BY DEF IInv, TypeOK
    <2>2. \A p \in Prio : <<>> \o outqueue'[p] = outqueue'[p]
      BY <2>1
    <2>3. \A p \in Prio : Direct(p)' = <<>>
      BY <1>4 DEF Direct
    <2>4. QED
      BY <2>1, <2>2, <2>3 DEF Pending
  <1>8. QED
    BY <1>4, <1>5, <1>6, <1>7

(***************************************************************************)
(* If the handlers send nothing, the anti-flood of each priority is a      *)
(* queue: it implements MessageFifo.                                       *)
(***************************************************************************)
THEOREM ImplementsFifo == ASSUME MaxDepth = 1 PROVE Spec => Fifo
  <1>1. Init => F!Init
    <2> SUFFICES ASSUME Init
                 PROVE  F!Init
      OBVIOUS
    <2>1. Pending = outqueue
      BY InitInv, PendingFacts DEF Init, IInv
    <2>2. QED
      BY <2>1 DEF Init, F!Init
  <1>2. IInv /\ IInv' /\ [Next]_vars => [F!Next]_(F!vars)
    <2> SUFFICES ASSUME IInv, IInv', [Next]_vars
                 PROVE  F!Next \/ UNCHANGED <<issued, Pending, top>>
      BY DEF F!vars
    <2>1. CASE Send
      BY <2>1, SubmitIssues, OtherIssues DEF Send, F!Next
    <2>2. CASE SendReturns
      BY <2>2, ReturnTakes, ReturnOther DEF SendReturns, F!Next
    <2>3. CASE TimerSend
      <3>1. calls = <<>> /\ UNCHANGED <<outqueue, issued, top>>
        BY <2>3 DEF TimerSend
      <3>2. calls' = <<>> \/ Last(calls').queued
        BY <2>3 DEF TimerSend, Last
      <3>3. \A q \in Prio : Direct(q) = <<>> /\ Direct(q)' = <<>>
        BY <3>1, <3>2 DEF Direct
      <3>4. QED
        BY <3>1, <3>3 DEF Pending
    <2>4. CASE Login \/ Connected \/ Tick \/ ClockBack
      BY <2>4 DEF Login, Connected, Tick, ClockBack, Pending, Direct
    <2>5. CASE Disconnect \/ DeleteQueues
      <3>1. /\ calls' = <<>> /\ UNCHANGED <<issued, top>>
            /\ outqueue' = [q \in Prio |-> <<>>]
        BY <2>5 DEF Disconnect, DeleteQueues, EmptyQueues, FreeAll
      <3>2. Pending' = [q \in Prio |-> <<>>]
        BY <3>1 DEF Pending, Direct
      <3>3. QED
        BY <3>1, <3>2 DEF F!Next, F!Flush
    <2>6. CASE UNCHANGED vars
      BY <2>6 DEF vars, Pending, Direct
    <2>7. QED
      BY <2>1, <2>2, <2>3, <2>4, <2>5, <2>6 DEF Next
  <1>3. QED
    BY <1>1, <1>2, OutqueueInvariant, PTL DEF Spec, Fifo, F!Spec

-----------------------------------------------------------------------------
(* The connection that ends, and the timer that finds nothing to take.     *)

(***************************************************************************)
(* A closed connection has neither a queued message nor an open call.      *)
(***************************************************************************)
Closed == link = "down" => outqueue = FreeAll /\ calls = <<>>

(***************************************************************************)
(* What was queued for a connection never reaches the next one.            *)
(***************************************************************************)
THEOREM QueuesDieWithLink == Spec => []NothingOutlivesLink
  <1>1. Init => Closed
    BY DEF Init, Closed, FreeAll
  <1>2. IInv /\ Closed /\ [Next]_vars => Closed'
    <2> SUFFICES ASSUME IInv, Closed, [Next]_vars
                 PROVE  Closed'
      OBVIOUS
    <2>1. CASE Send
      BY <2>1 DEF Send, Submit, Closed
    <2>2. CASE SendReturns
      BY <2>2 DEF SendReturns, SendDirect, SendQueued, Closed
    <2>3. CASE TimerSend
      BY <2>3 DEF TimerSend, Closed
    <2>4. CASE Login \/ Connected \/ Tick \/ ClockBack
      BY <2>4 DEF Login, Connected, Tick, ClockBack, Closed
    <2>5. CASE Disconnect \/ DeleteQueues
      BY <2>5 DEF Disconnect, DeleteQueues, EmptyQueues, Closed
    <2>6. CASE UNCHANGED vars
      BY <2>6 DEF vars, Closed, FreeAll
    <2>7. QED
      BY <2>1, <2>2, <2>3, <2>4, <2>5, <2>6 DEF Next
  <1>3. Closed => NothingOutlivesLink
    BY DEF Closed, NothingOutlivesLink
  <1>4. QED
    BY <1>1, <1>2, <1>3, OutqueueInvariant, PTL DEF Spec

(***************************************************************************)
(* The timer cannot have found nothing more often than the seconds since   *)
(* the last message, as long as these can be told from Far.                *)
(***************************************************************************)
Patient ==
  /\ since < 0 => idle = 0
  /\ since >= 0 /\ since < Far => idle <= since + (IF due THEN 0 ELSE 1)
  /\ SilenceIsBounded

(***************************************************************************)
(* A timer that takes nothing found every waiting message too young.       *)
(***************************************************************************)
LEMMA NothingToTake ==
  ASSUME NEW age \in Nat, \A p \in Prio : ~TakesFrom(p, age)
  PROVE  \A p \in Prio : ~CanTake(p, age)
  <1>1. ~CanTake(1, age)
    BY DEF TakesFrom, Prio
  <1>2. \A q \in Prio : q < 2 => q = 1
    BY DEF Prio
  <1>3. ~CanTake(2, age)
    BY <1>1, <1>2 DEF TakesFrom, Prio
  <1>4. QED
    BY <1>1, <1>3 DEF Prio

(***************************************************************************)
(* While something waits on a connected server, the timer leaves it no     *)
(* more times than the longest delay, even after the clock was set back.   *)
(***************************************************************************)
THEOREM SilenceEnds == Spec => []SilenceIsBounded
  <1> USE OutqueueAssumption
  <1>1. Init => Patient
    BY DEF Init, Patient, SilenceIsBounded, FixClock, Prio
  <1>2. IInv /\ Patient /\ [Next]_vars => Patient'
    <2> SUFFICES ASSUME IInv, Patient, [Next]_vars
                 PROVE  Patient'
      OBVIOUS
    <2>0. /\ since \in Int /\ since <= Far /\ idle \in Nat /\ due \in BOOLEAN
          /\ Far \in Nat
      BY DEF IInv, TypeOK
    <2>10. PICK s \in Int : since' = s
      <3>1. since' \in Int
        BY StepInv DEF IInv, TypeOK
      <3>2. QED
        BY <3>1
    <2>1. ASSUME idle' = 0
          PROVE  Patient'
      <3>1. \A p \in Prio : ANTI_FLOOD[p] \in Nat
        OBVIOUS
      <3>2. 1 \in Prio
        BY DEF Prio
      <3>3. SilenceIsBounded'
        BY <2>1, <3>1, <3>2 DEF SilenceIsBounded
      <3>4. QED
        BY <2>10, <2>1, <3>3 DEF Patient
    <2>2. ASSUME idle' = idle, due' = due,
                 since' = since \/ since' = FixClock(since)
          PROVE  Patient'
      <3>1. SilenceIsBounded'
        BY <2>2 DEF Patient, SilenceIsBounded
      <3>2. since' < 0 => since = since'
        BY <2>0, <2>2 DEF FixClock
      <3>3. since' >= 0 => since = since' \/ idle = 0
        BY <2>0, <2>2 DEF FixClock, Patient
      <3>4. QED
        BY <2>0, <2>10, <2>2, <3>1, <3>2, <3>3 DEF Patient
    <2>3. CASE Send
      <3>1. /\ idle' = idle /\ due' = due /\ since' = FixClock(since)
        BY <2>3 DEF Send, Submit
      <3>2. QED
        BY <2>2, <3>1
    <2>4. CASE SendReturns
      <3>1. idle' = 0 \/ (idle' = idle /\ due' = due /\ since' = since)
        BY <2>4 DEF SendReturns, SendDirect, SendQueued
      <3>2. QED
        BY <2>1, <2>2, <3>1
    <2>5. CASE TimerSend
      <3>1. due = TRUE /\ due' = FALSE
        BY <2>5 DEF TimerSend
      <3>2. CASE idle' = 0
        BY <2>1, <3>2
      <3>3. CASE idle' = idle /\ (since' = since \/ since' = FixClock(since))
        <4>1. SilenceIsBounded'
          BY <3>3 DEF Patient, SilenceIsBounded
        <4>2. since' < 0 => idle' = 0
          BY <2>0, <3>3 DEF FixClock, Patient
        <4>3. since' >= 0 => since = since' \/ idle = 0
          BY <2>0, <3>3 DEF FixClock, Patient
        <4>4. since >= 0 /\ since < Far => idle <= since
          BY <2>0, <3>1 DEF Patient
        <4>5. since' >= 0 /\ since' < Far => idle' <= since' + 1
          BY <2>0, <2>10, <3>3, <4>3, <4>4
        <4>6. QED
          BY <3>1, <4>1, <4>2, <4>5 DEF Patient
      <3>4. CASE /\ idle' = Longer(idle) /\ since' = FixClock(since)
                 /\ outqueue # FreeAll
                 /\ \A p \in Prio : ~TakesFrom(p, since')
        <4>1. since' \in Nat /\ since' <= Far
          BY <2>0, <3>4 DEF FixClock
        <4>2. \A p \in Prio : ~CanTake(p, since')
          BY <3>4, <4>1, NothingToTake
        <4>3. PICK p \in Prio : outqueue[p] # <<>>
          BY <3>4 DEF IInv, TypeOK, FreeAll
        <4>4. since' < ANTI_FLOOD[p] /\ ANTI_FLOOD[p] \in Nat
              /\ ANTI_FLOOD[p] <= Far
          BY <4>1, <4>2, <4>3 DEF CanTake
        <4>5. CASE since < 0
          <5>1. idle = 0 /\ idle' = 1
            BY <2>0, <3>4, <4>5 DEF Patient, Longer
          <5>2. idle' <= ANTI_FLOOD[p] /\ idle' <= since' + 1
            BY <2>10, <4>1, <4>4, <5>1
          <5>3. QED
            BY <3>1, <4>1, <5>2 DEF Patient, SilenceIsBounded
        <4>6. CASE since >= 0
          <5>1. since' = since /\ since < Far
            BY <2>0, <3>4, <4>4, <4>6 DEF FixClock
          <5>2. idle <= since
            BY <2>0, <3>1, <4>6, <5>1 DEF Patient
          <5>3. idle' <= ANTI_FLOOD[p] /\ idle' <= since' + 1
            BY <2>0, <3>4, <4>1, <4>4, <5>1, <5>2 DEF Longer
          <5>4. QED
            BY <3>1, <4>1, <5>3 DEF Patient, SilenceIsBounded
        <4>7. QED
          BY <2>0, <4>5, <4>6
      <3>5. QED
        BY <2>5, <3>2, <3>3, <3>4 DEF TimerSend
    <2>6. CASE Tick
      <3>1. idle' = idle /\ due = FALSE /\ due' = TRUE /\ since' = Older(since)
        BY <2>0, <2>6 DEF Tick
      <3>2. since' < 0 => since < 0
        BY <2>0, <3>1 DEF Older
      <3>3. since >= 0 /\ since < Far => idle <= since + 1
        BY <2>0, <3>1 DEF Patient
      <3>4. since < 0 => idle = 0
        BY DEF Patient
      <3>5. since' >= 0 /\ since' < Far => idle <= since'
        BY <2>0, <3>1, <3>3, <3>4 DEF Older
      <3>6. since' < 0 => idle = 0
        BY <3>2, <3>4
      <3>7. SilenceIsBounded'
        BY <3>1 DEF Patient, SilenceIsBounded
      <3>8. since' + 0 = since'
        BY <2>10
      <3>9. QED
        BY <3>1, <3>5, <3>6, <3>7, <3>8 DEF Patient
    <2>7. CASE Disconnect \/ DeleteQueues \/ ClockBack
      BY <2>1, <2>7 DEF Disconnect, DeleteQueues, EmptyQueues, ClockBack
    <2>8. CASE Login \/ Connected \/ UNCHANGED vars
      <3>1. idle' = idle /\ due' = due /\ since' = since
        BY <2>8 DEF Login, Connected, vars
      <3>2. QED
        BY <2>2, <3>1
    <2>9. QED
      BY <2>3, <2>4, <2>5, <2>6, <2>7, <2>8 DEF Next
  <1>3. Patient => SilenceIsBounded
    BY DEF Patient
  <1>4. QED
    BY <1>1, <1>2, <1>3, OutqueueInvariant, PTL DEF Spec
=============================================================================
