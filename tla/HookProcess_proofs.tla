------------------------- MODULE HookProcess_proofs -------------------------
(***************************************************************************)
(* Safety of HookProcess, for every number of commands and every size of   *)
(* the buffers, the reads and the pipes: no buffer is overrun, no child is *)
(* left, and the callback gets the output as ProcessOutput promises.       *)
(*                                                                         *)
(* The strengthening counts the output: what a command wrote was given to  *)
(* the callback, or is in the buffer, or is in the pipe.  While the pipes  *)
(* are read for the last time, each round leaves less in them, so that the *)
(* rounds are enough for what a pipe holds.                                *)
(***************************************************************************)
EXTENDS HookProcess, WellFoundedInduction, TLAPS

USE ProcessAssumption

\* A hook that did not run: nothing was written, read or sent.
Fresh(d, c) ==
  /\ c.status = "none" /\ c.open = {} /\ c.left = {}
  /\ c.piped = Nothing /\ c.wrote = Nothing
  /\ d.sent = Nothing /\ d.buffer = Nothing /\ d.fd = {}

\* A hook that runs: where its output is, and who can still write.
Flow(d, c) ==
  /\ c.status \in {"alive", "exited", "signaled"}
  /\ \A s \in Stream : d.sent[s] + d.buffer[s] + c.piped[s] = c.wrote[s]
  /\ \A s \in Stream \ d.fd : c.piped[s] = 0 /\ s \notin c.open
  /\ c.status # "alive" => c.open \subseteq c.left

\* The data of a hook and its child.
DataOK(d, c) ==
  /\ d \in HookData /\ c \in ChildData
  /\ d.state = "freed" <=> d.result # Running
  /\ ~d.overrun
  /\ \A s \in Stream : d.buffer[s] <= BufferSize
  /\ d.state # "runs" => c.status \in {"none", "gone"}
  /\ d.state \in {"none", "waits"} => Fresh(d, c)
  /\ d.state = "runs" => Flow(d, c)

HookOK(h) == DataOK(hook[h], child[h]) /\ (h > created => hook[h].state = "none")

\* The last reads: what is left in a pipe that nobody writes to any more.
LastReads(h, n) ==
  /\ hook[h].state = "runs" /\ child[h].status \in {"exited", "signaled"}
  /\ \A s \in Stream \ child[h].left :
       child[h].piped[s] = 0 \/ child[h].piped[s] + n * ReadSize <= PipeSize

LoopOK == loop.does = "drain" => loop.at \in Hook /\ LastReads(loop.at, loop.rounds)

\* The variables have the right shape.
Shape ==
  /\ created \in 0 .. MaxHooks /\ loop \in LoopState
  /\ hook \in [Hook -> HookData] /\ child \in [Hook -> ChildData]

IInv == Shape /\ LoopOK /\ \A h \in Hook : HookOK(h)

\* The invariants of the runs follow.
LEMMA IInvImplies == IInv => TypeOK /\ BufferFits /\ NoChildLeft
<1> SUFFICES ASSUME IInv PROVE TypeOK /\ BufferFits /\ NoChildLeft OBVIOUS
<1>1. \A h \in Hook : DataOK(hook[h], child[h]) BY DEF IInv, HookOK
<1>2. TypeOK BY <1>1 DEF IInv, Shape, TypeOK, DataOK
<1>3. BufferFits BY <1>1 DEF BufferFits, DataOK
<1>4. NoChildLeft BY <1>1 DEF NoChildLeft, DataOK
<1>5. QED BY <1>2, <1>3, <1>4

LEMMA InitCorrect == Init => IInv
<1> SUFFICES ASSUME Init PROVE IInv OBVIOUS
<1>1. created = 0 /\ loop = AtPoll BY DEF Init
<1>2. Nothing \in [Stream -> Nat] /\ Nothing \in [Stream -> 0 .. PipeSize]
      /\ \A s \in Stream : Nothing[s] = 0
  BY DEF Nothing
<1>3. hook \in [Hook -> HookData]
  BY <1>2 DEF Init, HookData
<1>4. child \in [Hook -> ChildData]
  <2>1. ASSUME NEW h \in Hook PROVE child[h] \in ChildData
    BY <1>2, <2>1 DEF Init, ChildData
  <2>2. QED BY <2>1 DEF Init
<1>5. Shape BY <1>1, <1>3, <1>4 DEF Shape, LoopState, AtPoll
<1>6. LoopOK BY <1>1 DEF LoopOK, AtPoll
<1>7. ASSUME NEW h \in Hook PROVE HookOK(h)
  <2>1. /\ hook[h].state = "none" /\ hook[h].result = Running /\ ~hook[h].overrun
        /\ hook[h].buffer = Nothing /\ hook[h].sent = Nothing /\ hook[h].fd = {}
    BY DEF Init
  <2>2. /\ child[h].status = "none" /\ child[h].open = {} /\ child[h].left = {}
        /\ child[h].piped = Nothing /\ child[h].wrote = Nothing
    BY DEF Init
  <2>3. QED BY <1>2, <1>3, <1>4, <2>1, <2>2 DEF HookOK, DataOK, Fresh
<1>8. QED BY <1>5, <1>6, <1>7 DEF IInv

\* A step keeps the invariant if it keeps it for the hooks that it touches.
Elsewhere(S) ==
  /\ created <= created'
  /\ \A g \in Hook \ S : hook'[g] = hook[g] /\ child'[g] = child[g]

LEMMA SomeHooks ==
  ASSUME IInv, NEW S \in SUBSET Hook, Shape', LoopOK', Elsewhere(S),
         \A h \in S : HookOK(h)'
  PROVE  IInv'
<1>1. ASSUME NEW h \in Hook, h \notin S PROVE HookOK(h)'
  <2>1. hook'[h] = hook[h] /\ child'[h] = child[h] /\ created <= created'
    BY <1>1 DEF Elsewhere
  <2>2. HookOK(h) /\ created \in Nat /\ created' \in Nat BY DEF IInv, Shape
  <2>3. h > created' => h > created BY <2>1, <2>2 DEF Hook
  <2>4. QED BY <2>1, <2>2, <2>3 DEF HookOK
<1>2. ASSUME NEW h \in Hook PROVE HookOK(h)'
  BY <1>1, <1>2
<1>3. QED BY <1>2 DEF IInv

\* The most common case: one hook gets the data `d' and its child `c'.
LEMMA OneHook ==
  ASSUME IInv, NEW h \in Hook, NEW d, NEW c, DataOK(d, c), d.state # "none",
         h <= created', created' \in created .. MaxHooks,
         hook' = [hook EXCEPT ![h] = d], child' = [child EXCEPT ![h] = c],
         loop' \in LoopState, LoopOK'
  PROVE  IInv'
<1>1. d \in HookData /\ c \in ChildData BY DEF DataOK
<1>2. Shape /\ created \in 0 .. MaxHooks BY DEF IInv, Shape
<1>3. hook' \in [Hook -> HookData] /\ child' \in [Hook -> ChildData]
  BY <1>1, <1>2 DEF Shape
<1>4. Shape' BY <1>2, <1>3 DEF Shape
<1>5. Elsewhere({h}) BY <1>2 DEF Shape, Elsewhere
<1>6. hook'[h] = d /\ child'[h] = c BY <1>2 DEF Shape
<1>7. HookOK(h)' BY <1>2, <1>6 DEF HookOK, Hook
<1>8. QED BY <1>4, <1>5, <1>7, SomeHooks

-----------------------------------------------------------------------------
(* The operations on the data of a hook                                    *)

\* The numbers of bytes of a stream.
LEMMA Counts ==
  ASSUME NEW d \in HookData, NEW c \in ChildData, NEW s \in Stream
  PROVE  /\ d.sent[s] \in Nat /\ d.buffer[s] \in Nat
         /\ c.piped[s] \in Nat /\ c.piped[s] <= PipeSize /\ c.wrote[s] \in Nat
<1>1. d.sent \in [Stream -> Nat] /\ d.buffer \in [Stream -> Nat] BY DEF HookData
<1>2. c.piped \in [Stream -> 0 .. PipeSize] /\ c.wrote \in [Stream -> Nat]
  BY DEF ChildData
<1>3. c.piped[s] \in 0 .. PipeSize BY <1>2
<1>4. c.piped[s] \in Nat /\ c.piped[s] <= PipeSize BY <1>3
<1>5. d.sent[s] \in Nat /\ d.buffer[s] \in Nat BY <1>1
<1>6. c.wrote[s] \in Nat BY <1>2
<1>7. QED BY <1>4, <1>5, <1>6

\* The timeout in calls of the timer, and the data of a hook that starts.
LEMMA StartedOK ==
  ASSUME NEW d, NEW c, DataOK(d, c), d.state \in {"none", "waits"},
         NEW S \in SUBSET Stream
  PROVE  /\ DataOK(Started(d, S), Forked(c, S))
         /\ Started(d, S).state = "runs" /\ Started(d, S).sent = d.sent
         /\ Started(d, S).result = d.result
         /\ Forked(c, S).open = S /\ Forked(c, S).wrote = c.wrote
         /\ Forked(c, S).left = c.left
<1> DEFINE e == Started(d, S)
           f == Forked(c, S)
<1>1. d \in HookData /\ c \in ChildData /\ Fresh(d, c) BY DEF DataOK
<1>2. MaxCalls(d.timeout) \in Nat BY <1>1 DEF MaxCalls, HookData
<1>3. e \in HookData /\ e.state = "runs" /\ e.fd = S /\ e.sent = d.sent
      /\ e.buffer = d.buffer /\ e.result = d.result /\ e.overrun = d.overrun
  BY <1>1, <1>2 DEF Started, HookData
<1>4. f \in ChildData /\ f.status = "alive" /\ f.open = S /\ f.wrote = c.wrote
      /\ f.left = c.left /\ f.piped = c.piped
  BY <1>1 DEF Forked, ChildData
<1> HIDE DEF e, f
<1>5. Flow(e, f)
  <2>1. \A s \in Stream : e.sent[s] = 0 /\ e.buffer[s] = 0 /\ f.piped[s] = 0
                          /\ f.wrote[s] = 0
    BY <1>1, <1>3, <1>4 DEF Fresh, Nothing
  <2>2. QED BY <1>3, <1>4, <2>1 DEF Flow
<1>6. DataOK(e, f) BY <1>3, <1>4, <1>5 DEF DataOK
<1>7. QED BY <1>3, <1>4, <1>6 DEF e, f

\* What hook_process_send_buffers() leaves.
LEMMA SendFacts ==
  ASSUME NEW d \in HookData
  PROVE  /\ SendBuffers(d) \in HookData
         /\ SendBuffers(d).buffer = Nothing
         /\ \A s \in Stream : SendBuffers(d).sent[s] = d.sent[s] + d.buffer[s]
         /\ SendBuffers(d).state = d.state /\ SendBuffers(d).result = d.result
         /\ SendBuffers(d).fd = d.fd /\ SendBuffers(d).overrun = d.overrun
         /\ SendBuffers(d).flush = d.flush
<1>1. Nothing \in [Stream -> Nat] BY DEF Nothing
<1>2. [s \in Stream |-> d.sent[s] + d.buffer[s]] \in [Stream -> Nat] BY DEF HookData
<1>3. QED BY <1>1, <1>2 DEF SendBuffers, HookData

LEMMA SentOK ==
  ASSUME NEW d, NEW c, DataOK(d, c), d.state = "runs"
  PROVE  DataOK(SendBuffers(d), c)
<1> DEFINE e == SendBuffers(d)
<1>1. d \in HookData /\ c \in ChildData /\ Flow(d, c) BY DEF DataOK
<1>2. /\ e \in HookData /\ e.buffer = Nothing
      /\ \A s \in Stream : e.sent[s] = d.sent[s] + d.buffer[s]
      /\ e.state = d.state /\ e.result = d.result
      /\ e.fd = d.fd /\ e.overrun = d.overrun
  BY <1>1, SendFacts
<1> HIDE DEF e
<1>3. \A s \in Stream : e.buffer[s] = 0 BY <1>2 DEF Nothing
<1>4. Flow(e, c)
  <2>1. \A s \in Stream : d.sent[s] \in Nat /\ d.buffer[s] \in Nat /\ c.piped[s] \in Nat
    BY <1>1, Counts
  <2>2. ASSUME NEW s \in Stream
        PROVE  e.sent[s] + e.buffer[s] + c.piped[s] = c.wrote[s]
    <3>1. d.sent[s] + d.buffer[s] + c.piped[s] = c.wrote[s] BY <1>1 DEF Flow
    <3>2. QED BY <1>2, <1>3, <2>1, <3>1
  <2>3. QED BY <1>1, <1>2, <2>2 DEF Flow
<1>5. DataOK(e, c) BY <1>1, <1>2, <1>3, <1>4 DEF DataOK
<1>6. QED BY <1>5 DEF e

\* A hook that ends or is removed, and its child.
LEMMA FreedOK ==
  ASSUME NEW d, NEW c, DataOK(d, c), d.state # "freed",
         NEW r \in Code \union {Error, Removed}
  PROVE  /\ DataOK(Freed(d, r), Killed(c))
         /\ Freed(d, r).state = "freed" /\ Freed(d, r).sent = d.sent
         /\ Freed(d, r).result = r
         /\ Killed(c).open = c.open /\ Killed(c).wrote = c.wrote
         /\ Killed(c).left = c.left
<1> DEFINE e == Freed(d, r)
           f == Killed(c)
<1>1. d \in HookData /\ c \in ChildData BY DEF DataOK
<1>2. r # Running /\ Nothing \in [Stream -> Nat]
  BY DEF Running, Error, Removed, Nothing
<1>3. e \in HookData /\ e.state = "freed" /\ e.sent = d.sent /\ e.result = r
      /\ e.overrun = d.overrun /\ e.buffer = Nothing
  BY <1>1, <1>2 DEF Freed, HookData
<1>4. f \in ChildData /\ f.status \in {"none", "gone"} /\ f.open = c.open
      /\ f.wrote = c.wrote /\ f.left = c.left
  BY <1>1 DEF Killed, ChildData
<1> HIDE DEF e, f
<1>5. DataOK(e, f) BY <1>2, <1>3, <1>4 DEF DataOK, Nothing
<1>6. QED BY <1>3, <1>4, <1>5 DEF e, f

\* hook_process_add_to_buffer(): nothing is written past the end.
LEMMA AddedFacts ==
  ASSUME NEW d \in HookData, ~d.overrun, NEW s \in Stream,
         \A x \in Stream : d.buffer[x] <= BufferSize,
         NEW n \in Nat, n <= ReadSize
  PROVE  LET e == AddToBuffer(d, s, n) IN
         /\ e \in HookData /\ ~e.overrun
         /\ \A x \in Stream : e.buffer[x] <= BufferSize
         /\ \A x \in Stream : d.sent[x] <= e.sent[x]
         /\ \A x \in Stream : e.sent[x] + e.buffer[x]
                                = d.sent[x] + d.buffer[x] + (IF x = s THEN n ELSE 0)
         /\ e.state = d.state /\ e.result = d.result /\ e.fd = d.fd
<1> DEFINE g == IF d.buffer[s] + n > BufferSize THEN SendBuffers(d) ELSE d
           e == Copied(g, s, n)
<1>1. /\ g \in HookData /\ ~g.overrun
      /\ g.buffer[s] + n <= BufferSize
      /\ \A x \in Stream : g.buffer[x] <= BufferSize
      /\ \A x \in Stream : d.sent[x] <= g.sent[x]
      /\ \A x \in Stream : g.sent[x] + g.buffer[x] = d.sent[x] + d.buffer[x]
      /\ g.state = d.state /\ g.result = d.result /\ g.fd = d.fd
  <2>1. \A x \in Stream : d.sent[x] \in Nat /\ d.buffer[x] \in Nat
    BY DEF HookData
  <2>2. CASE d.buffer[s] + n > BufferSize
    <3>1. g = SendBuffers(d) BY <2>2
    <3>2. \A x \in Stream : g.buffer[x] = 0 /\ g.sent[x] = d.sent[x] + d.buffer[x]
      BY <3>1, SendFacts DEF Nothing
    <3>3. g \in HookData /\ g.overrun = d.overrun
          /\ g.state = d.state /\ g.result = d.result /\ g.fd = d.fd
      BY <3>1, SendFacts
    <3> HIDE DEF g
    <3>4. QED BY <2>1, <3>2, <3>3
  <2>3. CASE ~ (d.buffer[s] + n > BufferSize)
    <3>1. g = d BY <2>3
    <3> HIDE DEF g
    <3>2. QED BY <2>1, <2>3, <3>1
  <2>4. QED BY <2>2, <2>3
<1>2. AddToBuffer(d, s, n) = e BY DEF AddToBuffer
<1> HIDE DEF g
<1>3. \A x \in Stream : g.buffer[x] \in Nat /\ g.sent[x] \in Nat
                        /\ d.sent[x] \in Nat /\ d.buffer[x] \in Nat
  BY <1>1 DEF HookData
<1> DEFINE b == [g.buffer EXCEPT ![s] = @ + n]
<1>4. /\ b \in [Stream -> Nat] /\ b[s] = g.buffer[s] + n
      /\ \A x \in Stream \ {s} : b[x] = g.buffer[x]
  BY <1>1, <1>3 DEF HookData
<1>5. e = [g EXCEPT !.buffer = b, !.overrun = @ \/ g.buffer[s] + n > BufferSize]
  BY <1>1 DEF Copied, HookData
<1>6. ~ (g.buffer[s] + n > BufferSize) BY <1>1, <1>3
<1> HIDE DEF b
<1>7. e \in HookData /\ e.buffer = b /\ e.sent = g.sent /\ ~e.overrun
      /\ e.state = g.state /\ e.result = g.result /\ e.fd = g.fd
  <2> DEFINE o == g.overrun \/ g.buffer[s] + n > BufferSize
  <2>1. e = [g EXCEPT !.buffer = b, !.overrun = o] BY <1>5
  <2>2. o \in BOOLEAN /\ ~o BY <1>1, <1>6
  <2> HIDE DEF o, e
  <2>3. g \in HookData BY <1>1
  <2>4. e \in HookData BY <1>4, <2>1, <2>2, <2>3, ZenonT(60) DEF HookData
  <2>5. /\ e.buffer = b /\ e.sent = g.sent /\ e.overrun = o
        /\ e.state = g.state /\ e.result = g.result /\ e.fd = g.fd
    BY <2>1, <2>3 DEF HookData
  <2>6. QED BY <2>2, <2>4, <2>5
<1> HIDE DEF e
<1>8. \A x \in Stream : e.buffer[x] <= BufferSize BY <1>1, <1>4, <1>7
<1>9. ASSUME NEW x \in Stream
      PROVE  e.sent[x] + e.buffer[x]
               = d.sent[x] + d.buffer[x] + (IF x = s THEN n ELSE 0)
  <2>1. e.sent[x] = g.sent[x] /\ e.buffer[x] = b[x] BY <1>7
  <2>2. g.sent[x] + g.buffer[x] = d.sent[x] + d.buffer[x] BY <1>1
  <2>3. g.buffer[x] \in Nat /\ g.sent[x] \in Nat /\ d.sent[x] + d.buffer[x] \in Nat
    BY <1>3
  <2>4. CASE x = s
    <3>1. b[x] = g.buffer[x] + n BY <1>4, <2>4
    <3>2. QED BY <2>1, <2>2, <2>3, <2>4, <3>1
  <2>5. CASE x # s
    <3>1. b[x] = g.buffer[x] BY <1>4, <2>5
    <3>2. QED BY <2>1, <2>2, <2>5, <3>1, <2>3
  <2>6. QED BY <2>4, <2>5
<1>10. QED BY <1>1, <1>2, <1>7, <1>8, <1>9

\* What a read of one stream, if it is in S, makes of the hook and the child.
WasRead(e, f, d, c, S, s) ==
  /\ DataOK(e, f)
  /\ \A x \in Stream : d.sent[x] <= e.sent[x]
  /\ e.state = d.state /\ e.result = d.result /\ e.fd = d.fd
  /\ f.status = c.status /\ f.open = c.open /\ f.left = c.left
  /\ f.wrote = c.wrote
  /\ \A x \in Stream : x # s \/ x \notin S => f.piped[x] = c.piped[x]
  /\ s \in S => f.piped[s] = c.piped[s] - Available(c, s)

\* hook_process_child_read(): what leaves the pipe is in the buffer or given.
LEMMA ReceivedOK ==
  ASSUME NEW d, NEW c, DataOK(d, c), d.state = "runs", NEW s \in Stream,
         NEW e, e = Received(d, s, Available(c, s)), NEW f, f = Taken(c, {s})
  PROVE  WasRead(e, f, d, c, {s}, s)
<1> DEFINE n == Available(c, s)
           g == AddToBuffer(d, s, n)
<1>1. d \in HookData /\ c \in ChildData /\ Flow(d, c) /\ ~d.overrun
      /\ \A x \in Stream : d.buffer[x] <= BufferSize
  BY DEF DataOK
<1>2. n \in Nat /\ n <= ReadSize /\ n <= c.piped[s]
  BY <1>1, Counts DEF Available
<1> HIDE DEF n
<1>3. /\ g \in HookData /\ ~g.overrun
      /\ \A x \in Stream : g.buffer[x] <= BufferSize
      /\ \A x \in Stream : d.sent[x] <= g.sent[x]
      /\ \A x \in Stream : g.sent[x] + g.buffer[x]
                             = d.sent[x] + d.buffer[x] + (IF x = s THEN n ELSE 0)
      /\ g.state = d.state /\ g.result = d.result /\ g.fd = d.fd
  BY <1>1, <1>2, AddedFacts
<1> DEFINE p == [x \in Stream |-> IF x = s THEN c.piped[x] - n ELSE c.piped[x]]
<1>4. p \in [Stream -> 0 .. PipeSize]
  <2>1. ASSUME NEW x \in Stream PROVE p[x] \in 0 .. PipeSize
    BY <1>1, <1>2, <2>1, Counts
  <2>2. QED BY <2>1
<1>5. f = [c EXCEPT !.piped = p] BY <1>1 DEF Taken, ChildData, n
<1>6. \A x \in Stream : p[x] = c.piped[x] - (IF x = s THEN n ELSE 0)
  BY <1>1, <1>2, Counts
<1>7. p[s] = c.piped[s] - n /\ \A x \in Stream \ {s} : p[x] = c.piped[x]
  OBVIOUS
<1> HIDE DEF p
<1>8. f \in ChildData /\ f.piped = p /\ f.status = c.status /\ f.open = c.open
      /\ f.left = c.left /\ f.wrote = c.wrote
  BY <1>1, <1>4, <1>5 DEF ChildData
<1> HIDE DEF g
<1>9. \A x \in Stream : /\ g.sent[x] \in Nat /\ g.buffer[x] \in Nat
                        /\ d.sent[x] \in Nat /\ d.buffer[x] \in Nat
                        /\ c.piped[x] \in Nat /\ c.wrote[x] \in Nat
  BY <1>1, <1>3, Counts
<1>10. DataOK(g, f)
  <2>1. ASSUME NEW x \in Stream
        PROVE  g.sent[x] + g.buffer[x] + f.piped[x] = f.wrote[x]
    <3>1. d.sent[x] + d.buffer[x] + c.piped[x] = c.wrote[x] BY <1>1 DEF Flow
    <3>2. QED BY <1>2, <1>3, <1>6, <1>8, <1>9, <3>1
  <2>2. \A x \in Stream \ g.fd : f.piped[x] = 0 /\ x \notin f.open
    <3>1. ASSUME NEW x \in Stream \ d.fd PROVE f.piped[x] = 0 /\ x \notin f.open
      <4>1. c.piped[x] = 0 /\ x \notin c.open BY <1>1 DEF Flow
      <4>2. x = s => n = 0 BY <1>2, <4>1
      <4>3. QED BY <1>6, <1>8, <1>9, <4>1, <4>2
    <3>2. QED BY <1>3, <3>1
  <2>3. Flow(g, f) BY <1>1, <1>8, <2>1, <2>2 DEF Flow
  <2>4. d.result = Running /\ g.result = Running BY <1>3 DEF DataOK
  <2>5. QED BY <1>3, <1>8, <2>3, <2>4 DEF DataOK
<1>11. DataOK(e, f)
       /\ (\A x \in Stream : d.sent[x] <= e.sent[x])
       /\ e.state = d.state /\ e.result = d.result /\ e.fd = d.fd
  <2>1. e = IF g.buffer[s] >= d.flush THEN SendBuffers(g) ELSE g
    BY DEF Received, g, n
  <2>2. CASE e = g BY <1>3, <1>10, <2>2
  <2>3. CASE e = SendBuffers(g)
    <3>1. DataOK(e, f) BY <1>3, <1>10, <2>3, SentOK
    <3>2. \A x \in Stream : e.sent[x] = g.sent[x] + g.buffer[x]
      BY <1>3, <2>3, SendFacts
    <3>3. e.state = g.state /\ e.result = g.result /\ e.fd = g.fd
      BY <1>3, <2>3, SendFacts
    <3>4. \A x \in Stream : d.sent[x] <= e.sent[x] BY <1>3, <1>9, <3>2
    <3>5. QED BY <1>3, <3>1, <3>3, <3>4
  <2>4. QED BY <2>1, <2>2, <2>3
<1>12. f.piped[s] = c.piped[s] - n /\ \A x \in Stream \ {s} : f.piped[x] = c.piped[x]
  BY <1>8, <1>7
<1>13. QED BY <1>8, <1>11, <1>12 DEF n, WasRead

-----------------------------------------------------------------------------
(* hook_process_exec()                                                     *)

\* A set of numbers that is not empty has a least element.
LEMMA LeastOf ==
  ASSUME NEW S \in SUBSET Nat, S # {}
  PROVE  \E n \in S : \A k \in S : n <= k
<1>1. IsWellFoundedOn(OpToRel(<, Nat), Nat) BY NatLessThanWellFounded
<1>2. \E n \in S : \A k \in S : ~ (<<k, n>> \in OpToRel(<, Nat)) BY <1>1, WFMin
<1>3. PICK n \in S : \A k \in S : ~ (<<k, n>> \in OpToRel(<, Nat)) BY <1>2
<1>4. ASSUME NEW k \in S PROVE n <= k
  <2>1. ~ (<<k, n>> \in OpToRel(<, Nat)) BY <1>3, <1>4
  <2>2. n \in Nat /\ k \in Nat BY <1>4
  <2>3. ~ (k < n) BY <2>1, <2>2 DEF OpToRel
  <2>4. QED BY <2>2, <2>3
<1>5. QED BY <1>4

\* The next hook of the list is one, or 0.
LEMMA NextOfType ==
  ASSUME Shape, NEW h \in 0 .. MaxHooks
  PROVE  NextOf(h) \in 0 .. MaxHooks
<1> DEFINE later == {g \in h + 1 .. created : hook[g].state \in {"waits", "runs"}}
<1>1. later \in SUBSET Nat /\ later \subseteq 0 .. MaxHooks BY DEF Shape
<1> HIDE DEF later
<1> DEFINE least == CHOOSE g \in later : \A k \in later : g <= k
<1>2. NextOf(h) = IF later = {} THEN 0 ELSE least BY DEF NextOf, later
<1>3. later # {} => least \in later BY <1>1, LeastOf
<1>4. 0 \in 0 .. MaxHooks OBVIOUS
<1> HIDE DEF least
<1>5. QED BY <1>1, <1>2, <1>3, <1>4

-----------------------------------------------------------------------------
(* What a step means to ProcessOutput                                      *)

\* Nothing that ProcessOutput knows of.
Quiet(h) ==
  /\ child'[h].wrote = child[h].wrote /\ child'[h].open = child[h].open
  /\ child'[h].left = child[h].left
  /\ hook'[h].sent = hook[h].sent /\ hook'[h].result = hook[h].result

Starts(h) ==
  /\ child[h].wrote = Nothing /\ child[h].open = {} /\ hook[h].result = Running
  /\ child'[h].open \in SUBSET Stream
  /\ child'[h].wrote = child[h].wrote /\ child'[h].left = child[h].left
  /\ hook'[h].sent = hook[h].sent /\ hook'[h].result = hook[h].result

Writes(h) ==
  /\ \E s \in child[h].open : child'[h].wrote = [child[h].wrote EXCEPT ![s] = @ + 1]
  /\ child'[h].open = child[h].open /\ child'[h].left = child[h].left
  /\ hook'[h].sent = hook[h].sent /\ hook'[h].result = hook[h].result

Closes(h) ==
  /\ child'[h].open \in SUBSET child[h].open
  /\ child'[h].wrote = child[h].wrote /\ child'[h].left = child[h].left
  /\ hook'[h].sent = hook[h].sent /\ hook'[h].result = hook[h].result

Exits(h) ==
  /\ child'[h].open \in SUBSET child[h].open /\ child'[h].left = child'[h].open
  /\ child'[h].wrote = child[h].wrote
  /\ hook'[h].sent = hook[h].sent /\ hook'[h].result = hook[h].result

Gives(h) ==
  /\ hook[h].result = Running
  /\ child'[h].wrote = child[h].wrote /\ child'[h].open = child[h].open
  /\ child'[h].left = child[h].left
  /\ hook'[h].sent \in [Stream -> Nat]
  /\ \A s \in Stream : /\ hook[h].sent[s] <= hook'[h].sent[s]
                       /\ hook'[h].sent[s] <= child[h].wrote[s]
  /\ \/ hook'[h].result = Running
     \/ /\ hook'[h].result \in Code \union {Error, Removed}
        /\ hook'[h].result \in Code =>
             \A s \in Stream \ child[h].left : hook'[h].sent[s] = child[h].wrote[s]

Meaning(h) ==
  Quiet(h) \/ Starts(h) \/ Writes(h) \/ Closes(h) \/ Exits(h) \/ Gives(h)

\* The functions that ProcessOutput is about.
Wrote == [h \in Hook |-> child[h].wrote]
Open == [h \in Hook |-> child[h].open]
Left == [h \in Hook |-> child[h].left]
Given == [h \in Hook |-> hook[h].sent]
Result == [h \in Hook |-> hook[h].result]

LEMMA MeaningSteps ==
  ASSUME NEW h \in Hook, \A g \in Hook \ {h} : Quiet(g), Meaning(h)
  PROVE  [Output!Next]_(Output!vars)
<1>1. /\ Wrote' = [Wrote EXCEPT ![h] = child'[h].wrote]
      /\ child'[h].wrote = child[h].wrote => Wrote' = Wrote
  BY DEF Wrote, Quiet
<1>2. /\ Open' = [Open EXCEPT ![h] = child'[h].open]
      /\ child'[h].open = child[h].open => Open' = Open
  BY DEF Open, Quiet
<1>3. /\ Left' = [Left EXCEPT ![h] = child'[h].left]
      /\ child'[h].left = child[h].left => Left' = Left
  BY DEF Left, Quiet
<1>4. /\ Given' = [Given EXCEPT ![h] = hook'[h].sent]
      /\ hook'[h].sent = hook[h].sent => Given' = Given
  BY DEF Given, Quiet
<1>5. /\ Result' = [Result EXCEPT ![h] = hook'[h].result]
      /\ hook'[h].result = hook[h].result => Result' = Result
  BY DEF Result, Quiet
<1>6. /\ Wrote[h] = child[h].wrote /\ Open[h] = child[h].open
      /\ Left[h] = child[h].left /\ Given[h] = hook[h].sent
      /\ Result[h] = hook[h].result /\ Given'[h] = hook'[h].sent
      /\ Open'[h] = child'[h].open
  BY DEF Wrote, Open, Left, Given, Result
<1>7. CASE Quiet(h)
  <2>1. Wrote' = Wrote /\ Open' = Open /\ Left' = Left /\ Given' = Given
        /\ Result' = Result
    BY <1>1, <1>2, <1>3, <1>4, <1>5, <1>7 DEF Quiet
  <2>2. QED BY <2>1 DEF Output!vars, Wrote, Open, Left, Given, Result
<1>8. CASE Starts(h)
  <2>1. /\ Wrote[h] = Output!Nothing /\ Open[h] = {} /\ Result[h] = Running
        /\ Open' = [Open EXCEPT ![h] = child'[h].open] /\ child'[h].open \in SUBSET Stream
        /\ Wrote' = Wrote /\ Left' = Left /\ Given' = Given /\ Result' = Result
    BY <1>1, <1>2, <1>3, <1>4, <1>5, <1>6, <1>8 DEF Starts, Nothing, Output!Nothing
  <2>2. Output!Start(h) BY <2>1 DEF Output!Start, Wrote, Open, Left, Given, Result
  <2>3. QED BY <2>2 DEF Output!Next
<1>9. CASE Writes(h)
  <2>1. PICK s \in child[h].open : child'[h].wrote = [child[h].wrote EXCEPT ![s] = @ + 1]
    BY <1>9 DEF Writes
  <2>2. /\ Wrote' = [Wrote EXCEPT ![h] = [Wrote[h] EXCEPT ![s] = Wrote[h][s] + 1]] /\ s \in Open[h]
        /\ Open' = Open /\ Left' = Left /\ Given' = Given /\ Result' = Result
    BY <1>1, <1>2, <1>3, <1>4, <1>5, <1>6, <1>9, <2>1 DEF Writes
  <2>3. Output!Write(h) BY <2>2 DEF Output!Write, Wrote, Open, Left, Given, Result
  <2>4. QED BY <2>3 DEF Output!Next
<1>10. CASE Closes(h)
  <2>1. /\ Open' = [Open EXCEPT ![h] = child'[h].open] /\ child'[h].open \in SUBSET Open[h]
        /\ Wrote' = Wrote /\ Left' = Left /\ Given' = Given /\ Result' = Result
    BY <1>1, <1>2, <1>3, <1>4, <1>5, <1>6, <1>10 DEF Closes
  <2>2. Output!Close(h) BY <2>1 DEF Output!Close, Wrote, Open, Left, Given, Result
  <2>3. QED BY <2>2 DEF Output!Next
<1>11. CASE Exits(h)
  <2> DEFINE S == child'[h].open
  <2>1. /\ Open' = [Open EXCEPT ![h] = S] /\ S \in SUBSET Open[h]
        /\ Left' = [Left EXCEPT ![h] = S]
        /\ Wrote' = Wrote /\ Given' = Given /\ Result' = Result
    BY <1>1, <1>2, <1>3, <1>4, <1>5, <1>6, <1>11 DEF Exits
  <2> HIDE DEF S
  <2>2. Output!Exit(h) BY <2>1 DEF Output!Exit, Wrote, Open, Left, Given, Result
  <2>3. QED BY <2>2 DEF Output!Next
<1>12. CASE Gives(h)
  <2>1. /\ Result[h] = Running
        /\ Given' = [Given EXCEPT ![h] = Given'[h]]
        /\ Given'[h] \in [Stream -> Nat]
        /\ \A s \in Stream : Given[h][s] <= Given'[h][s] /\ Given'[h][s] <= Wrote[h][s]
        /\ Wrote' = Wrote /\ Open' = Open /\ Left' = Left
    BY <1>1, <1>2, <1>3, <1>4, <1>5, <1>6, <1>12 DEF Gives
  <2>2. Output!Give(h) BY <2>1 DEF Output!Give, Wrote, Open, Left, Given, Result
  <2>3. CASE hook'[h].result = Running
    <3>1. Result' = Result BY <1>5, <1>12, <2>3 DEF Gives
    <3>2. Output!Deliver(h) BY <2>2, <3>1 DEF Output!Deliver, Result
    <3>3. QED BY <3>2 DEF Output!Next
  <2>4. CASE hook'[h].result # Running
    <3> DEFINE r == hook'[h].result
    <3>1. /\ r \in Code \union {Error, Removed}
          /\ Result' = [Result EXCEPT ![h] = r]
          /\ r \in Code => \A s \in Stream \ Left[h] : Given'[h][s] = Wrote[h][s]
      BY <1>5, <1>6, <1>12, <2>4 DEF Gives
    <3> HIDE DEF r
    <3>2. Output!End(h)
      BY <2>2, <3>1 DEF Output!End, Wrote, Left, Given, Result
    <3>3. QED BY <3>2 DEF Output!Next
  <2>5. QED BY <2>3, <2>4
<1>13. QED BY <1>7, <1>8, <1>9, <1>10, <1>11, <1>12 DEF Meaning

-----------------------------------------------------------------------------
(* The steps: each keeps the invariant and is one of ProcessOutput.        *)

Correct == IInv' /\ [Output!Next]_(Output!vars)

\* A step that changes what one hook and its child have.
LEMMA OneHookStep ==
  ASSUME IInv, NEW h \in Hook, NEW d, NEW c, DataOK(d, c), d.state # "none",
         h <= created', created' \in created .. MaxHooks,
         hook' = [hook EXCEPT ![h] = d], child' = [child EXCEPT ![h] = c],
         loop' \in LoopState, LoopOK',
         (hook'[h] = d /\ child'[h] = c) => Meaning(h)
  PROVE  Correct
<1>1. IInv' BY OneHook
<1>2. hook \in [Hook -> HookData] /\ child \in [Hook -> ChildData] BY DEF IInv, Shape
<1>3. \A g \in Hook \ {h} : hook'[g] = hook[g] /\ child'[g] = child[g] BY <1>2
<1>4. \A g \in Hook \ {h} : Quiet(g) BY <1>3 DEF Quiet
<1>5. Meaning(h) BY <1>2
<1>6. QED BY <1>1, <1>4, <1>5, MeaningSteps DEF Correct

\* The last call of the callback, or a removal: `e' is what was sent.
LEMMA EndStep ==
  ASSUME IInv, NEW h \in Hook, hook[h].state \in {"waits", "runs"},
         NEW e, e = hook[h] \/ (hook[h].state = "runs" /\ e = SendBuffers(hook[h])),
         NEW r \in Code \union {Error, Removed},
         hook' = [hook EXCEPT ![h] = Freed(e, r)],
         child' = [child EXCEPT ![h] = Killed(child[h])],
         created' = created, loop' \in LoopState, loop'.does # "drain",
         r \in Code => \A s \in Stream \ child[h].left : e.sent[s] = child[h].wrote[s]
  PROVE  Correct
<1> DEFINE d == hook[h]
           c == child[h]
<1>1. DataOK(d, c) /\ created \in 0 .. MaxHooks /\ h <= created
  BY DEF IInv, HookOK, Shape, Hook
<1>2. d \in HookData /\ c \in ChildData /\ d.result = Running BY <1>1 DEF DataOK
<1>3. DataOK(e, c) /\ e.state # "freed" BY <1>1, <1>2, SentOK, SendFacts
<1>4. /\ DataOK(Freed(e, r), Killed(c))
      /\ Freed(e, r).state = "freed" /\ Freed(e, r).sent = e.sent
      /\ Freed(e, r).result = r
      /\ Killed(c).open = c.open /\ Killed(c).wrote = c.wrote
      /\ Killed(c).left = c.left
  BY <1>3, FreedOK
<1>5. e \in HookData /\ e.sent \in [Stream -> Nat] BY <1>3 DEF DataOK, HookData
<1>6. ASSUME NEW s \in Stream
      PROVE  d.sent[s] <= e.sent[s] /\ e.sent[s] <= c.wrote[s]
  <2>1. /\ d.sent[s] \in Nat /\ d.buffer[s] \in Nat /\ c.piped[s] \in Nat
        /\ e.sent[s] \in Nat /\ c.wrote[s] \in Nat
    BY <1>2, <1>5, Counts
  <2>2. e.sent[s] = d.sent[s] \/ (d.state = "runs" /\ e.sent[s] = d.sent[s] + d.buffer[s])
    BY <1>2, SendFacts
  <2>3. CASE d.state = "runs"
    <3>1. d.sent[s] + d.buffer[s] + c.piped[s] = c.wrote[s]
      BY <1>1, <2>3 DEF DataOK, Flow
    <3>2. QED BY <2>1, <2>2, <3>1
  <2>4. CASE d.state = "waits"
    <3>1. d.sent[s] = 0 /\ e.sent[s] = d.sent[s]
      BY <1>1, <2>2, <2>4 DEF DataOK, Fresh, Nothing
    <3>2. QED BY <2>1, <3>1
  <2>5. QED BY <2>3, <2>4
<1>7. ASSUME hook'[h] = Freed(e, r), child'[h] = Killed(c) PROVE Gives(h)
  BY <1>2, <1>4, <1>5, <1>6, <1>7 DEF Gives
<1>8. LoopOK' BY DEF LoopOK
<1>9. created' \in created .. MaxHooks /\ h <= created' BY <1>1
<1>10. QED BY <1>4, <1>7, <1>8, <1>9, OneHookStep DEF Meaning

LEMMA UnhookStep ==
  ASSUME IInv, NEW h \in Hook, Unhook(h) PROVE Correct
<1>1. /\ hook' = [hook EXCEPT ![h] = Freed(hook[h], Removed)]
      /\ child' = [child EXCEPT ![h] = Killed(child[h])]
      /\ created' = created /\ loop' = loop /\ loop.does = "poll"
      /\ hook[h].state \in {"waits", "runs"}
  BY DEF Unhook, Polling
<1>2. Removed \notin Code BY DEF Removed
<1>3. loop' \in LoopState /\ loop'.does # "drain" BY <1>1 DEF IInv, Shape
<1>4. QED BY <1>1, <1>2, <1>3, EndStep

\* A child that was not forked need not be killed.
LEMMA KilledFresh ==
  ASSUME NEW d, NEW c, DataOK(d, c), d.state \in {"none", "waits"}
  PROVE  Killed(c) = c
<1>1. c \in ChildData /\ c.status = "none" BY DEF DataOK, Fresh
<1>2. QED BY <1>1 DEF Killed, ChildData

LEMMA CreateStep ==
  ASSUME IInv, HookProcessHashtable PROVE Correct
<1>1. PICK kind \in Kinds, t \in Timeouts, flush \in Flushes : Create(kind, t, flush)
  BY DEF HookProcessHashtable
<1> DEFINE h == created + 1
           new == [hook[h] EXCEPT !.timeout = t, !.flush = flush]
           streams == IF kind = "detached" THEN {} ELSE Stream
           c == child[h]
<1>2. h \in Hook /\ created' = h /\ h > created /\ created \in 0 .. MaxHooks
      /\ created' \in created .. MaxHooks /\ h <= created'
      /\ loop.does = "poll" /\ loop' = loop
  BY <1>1 DEF Create, Polling, Hook, IInv, Shape
<1>3. DataOK(hook[h], c) /\ hook[h].state = "none" BY <1>2 DEF IInv, HookOK
<1>4. loop' \in LoopState /\ LoopOK' BY <1>2 DEF IInv, Shape, LoopOK
<1>5. hook[h] \in HookData /\ c \in ChildData /\ Fresh(hook[h], c)
      /\ hook[h].result = Running
  BY <1>3 DEF DataOK
<1>6. t \in Nat /\ flush \in 1 .. BufferSize OBVIOUS
<1>7. /\ new \in HookData /\ new.state = "none" /\ new.result = Running
      /\ new.overrun = hook[h].overrun /\ new.buffer = hook[h].buffer
      /\ new.sent = hook[h].sent /\ new.fd = hook[h].fd
  BY <1>3, <1>5, <1>6 DEF HookData
<1> HIDE DEF h, new, c
<1>8. DataOK(new, c)
  BY <1>3, <1>5, <1>7 DEF DataOK, Fresh
<1>9. hook \in [Hook -> HookData] /\ child \in [Hook -> ChildData] BY DEF IInv, Shape
<1>10. CASE hook' = [hook EXCEPT ![h] = [new EXCEPT !.state = "waits"]] /\ child' = child
  <2> DEFINE d == [new EXCEPT !.state = "waits"]
  <2>1. d \in HookData /\ d.state = "waits" /\ d.result = Running
        /\ d.overrun = new.overrun /\ d.buffer = new.buffer
        /\ d.sent = new.sent /\ d.fd = new.fd
    BY <1>7 DEF HookData
  <2>2. hook' = [hook EXCEPT ![h] = d] /\ child' = [child EXCEPT ![h] = c]
    BY <1>9, <1>10 DEF c
  <2> HIDE DEF d
  <2>3. DataOK(d, c) BY <1>5, <1>7, <1>8, <2>1 DEF DataOK, Fresh
  <2>4. ASSUME hook'[h] = d, child'[h] = c PROVE Quiet(h)
    BY <1>5, <1>7, <2>1, <2>4 DEF Quiet, c
  <2>5. QED BY <1>2, <1>4, <2>1, <2>2, <2>3, <2>4, OneHookStep DEF Meaning
<1>11. CASE /\ hook' = [hook EXCEPT ![h] = Started(new, streams)]
            /\ child' = [child EXCEPT ![h] = Forked(c, streams)]
  <2> DEFINE d == Started(new, streams)
             f == Forked(c, streams)
  <2>1. streams \in SUBSET Stream OBVIOUS
  <2> HIDE DEF streams
  <2>2. /\ DataOK(d, f) /\ d.state = "runs" /\ d.sent = new.sent
        /\ d.result = new.result /\ f.open = streams /\ f.wrote = c.wrote
        /\ f.left = c.left
    BY <1>7, <1>8, <2>1, StartedOK
  <2> HIDE DEF d, f
  <2>3. hook' = [hook EXCEPT ![h] = d] /\ child' = [child EXCEPT ![h] = f]
    BY <1>11 DEF d, f
  <2>4. ASSUME hook'[h] = d, child'[h] = f PROVE Starts(h)
    BY <1>5, <1>7, <2>1, <2>2, <2>4 DEF Starts, Fresh, c
  <2>5. QED BY <1>2, <1>4, <2>2, <2>3, <2>4, OneHookStep DEF Meaning
<1>12. CASE hook' = [hook EXCEPT ![h] = Freed(new, Error)] /\ child' = child
  <2> DEFINE d == Freed(new, Error)
  <2>1. /\ DataOK(d, Killed(c)) /\ d.state = "freed" /\ d.sent = new.sent
        /\ d.result = Error
    <3>1. new.state # "freed" BY <1>7
    <3>2. ASSUME NEW r \in Code \union {Error, Removed}
          PROVE  /\ DataOK(Freed(new, r), Killed(c)) /\ Freed(new, r).state = "freed"
                 /\ Freed(new, r).sent = new.sent /\ Freed(new, r).result = r
      BY <1>8, <3>1, FreedOK
    <3>3. QED BY <3>2
  <2>2. Killed(c) = c BY <1>7, <1>8, KilledFresh
  <2> HIDE DEF d
  <2>3. hook' = [hook EXCEPT ![h] = d] /\ child' = [child EXCEPT ![h] = c]
    BY <1>9, <1>12 DEF d, c
  <2>4. \A s \in Stream : c.wrote[s] = 0 /\ new.sent[s] = 0
    BY <1>5, <1>7 DEF Fresh, Nothing
  <2>5. new.sent \in [Stream -> Nat] /\ Error \notin Code
    BY <1>7 DEF HookData, Error
  <2>6. ASSUME hook'[h] = d, child'[h] = c PROVE Gives(h)
    BY <1>5, <1>7, <2>1, <2>4, <2>5, <2>6 DEF Gives, c
  <2>7. QED BY <1>2, <1>4, <2>1, <2>2, <2>3, <2>6, OneHookStep DEF Meaning
<1>13. QED BY <1>1, <1>10, <1>11, <1>12 DEF Create, h, new, c

LEMMA ChildReadStep ==
  ASSUME IInv, NEW h \in Hook, NEW s \in Stream, ChildRead(h, s) PROVE Correct
<1> DEFINE d == hook[h]
           c == child[h]
<1>1. /\ created' = created /\ loop' = loop /\ loop.does = "poll"
      /\ d.state = "runs" /\ s \in d.fd
  BY DEF ChildRead, Polling
<1>2. DataOK(d, c) /\ h <= created /\ created \in 0 .. MaxHooks
  BY <1>1 DEF IInv, HookOK, Hook, Shape
<1>3. d \in HookData /\ c \in ChildData /\ Flow(d, c) /\ d.result = Running
  BY <1>1, <1>2 DEF DataOK
<1>4. loop' \in LoopState /\ LoopOK' BY <1>1 DEF IInv, Shape, LoopOK
<1>5. hook \in [Hook -> HookData] /\ child \in [Hook -> ChildData] BY DEF IInv, Shape
<1>6. h <= created' /\ created' \in created .. MaxHooks BY <1>1, <1>2
<1>7. CASE /\ hook' = [hook EXCEPT ![h] = Received(d, s, Available(c, s))]
           /\ child' = [child EXCEPT ![h] = Taken(c, {s})]
  <2> DEFINE e == Received(d, s, Available(c, s))
             f == Taken(c, {s})
  <2>1. /\ DataOK(e, f)
        /\ \A x \in Stream : d.sent[x] <= e.sent[x]
        /\ e.state = d.state /\ e.result = d.result /\ e.fd = d.fd
        /\ f.open = c.open /\ f.left = c.left /\ f.wrote = c.wrote
    <3>1. e = Received(d, s, Available(c, s)) /\ f = Taken(c, {s}) OBVIOUS
    <3> HIDE DEF d, c, e, f
    <3>2. WasRead(e, f, d, c, {s}, s) BY <1>1, <1>2, <3>1, ReceivedOK
    <3>3. QED BY <3>2 DEF WasRead
  <2> HIDE DEF e, f
  <2>2. hook' = [hook EXCEPT ![h] = e] /\ child' = [child EXCEPT ![h] = f]
    BY <1>7 DEF e, f
  <2>3. e.sent \in [Stream -> Nat] BY <2>1 DEF DataOK, HookData
  <2>4. ASSUME NEW x \in Stream PROVE e.sent[x] <= c.wrote[x]
    <3>1. e \in HookData /\ f \in ChildData /\ Flow(e, f) BY <1>1, <2>1 DEF DataOK
    <3>2. e.sent[x] + e.buffer[x] + f.piped[x] = f.wrote[x] BY <3>1 DEF Flow
    <3>3. e.sent[x] \in Nat /\ e.buffer[x] \in Nat /\ f.piped[x] \in Nat
      BY <3>1, Counts
    <3>4. QED BY <2>1, <3>2, <3>3
  <2>5. ASSUME hook'[h] = e, child'[h] = f PROVE Gives(h)
    BY <1>3, <2>1, <2>3, <2>4, <2>5 DEF Gives
  <2>6. QED BY <1>1, <1>4, <1>6, <2>1, <2>2, <2>5, OneHookStep DEF Meaning
<1>8. CASE /\ c.piped[s] = 0 /\ s \notin c.open
           /\ hook' = [hook EXCEPT ![h].fd = @ \ {s}]
           /\ child' = child
  <2> DEFINE e == [d EXCEPT !.fd = @ \ {s}]
  <2>1. /\ e \in HookData /\ e.fd = d.fd \ {s} /\ e.state = d.state
        /\ e.result = d.result /\ e.sent = d.sent /\ e.buffer = d.buffer
        /\ e.overrun = d.overrun
    BY <1>3 DEF HookData
  <2>2. hook' = [hook EXCEPT ![h] = e] /\ child' = [child EXCEPT ![h] = c]
    BY <1>5, <1>8
  <2> HIDE DEF e
  <2>3. Flow(e, c) BY <1>3, <1>8, <2>1 DEF Flow
  <2>4. DataOK(e, c) BY <1>1, <1>2, <2>1, <2>3 DEF DataOK
  <2>5. ASSUME hook'[h] = e, child'[h] = c PROVE Quiet(h)
    BY <2>1, <2>5 DEF Quiet
  <2>6. QED BY <1>1, <1>4, <1>6, <2>1, <2>2, <2>4, <2>5, OneHookStep DEF Meaning
<1>9. QED BY <1>7, <1>8 DEF ChildRead

LEMMA TimerStep ==
  ASSUME IInv, NEW h \in Hook, TimerCb(h) PROVE Correct
<1> DEFINE d == hook[h]
           c == child[h]
<1>1. loop.does = "poll" /\ d.state = "runs" /\ created' = created
  BY DEF TimerCb, TimeoutReached, TimerCheck, TimerRuns, Polling
<1>2. DataOK(d, c) /\ h <= created /\ created \in 0 .. MaxHooks
  BY <1>1 DEF IInv, HookOK, Hook, Shape
<1>3. d \in HookData /\ c \in ChildData /\ Flow(d, c) /\ d.result = Running
  BY <1>1, <1>2 DEF DataOK
<1>4. hook \in [Hook -> HookData] /\ child \in [Hook -> ChildData] /\ loop \in LoopState
  BY DEF IInv, Shape
<1>5. CASE TimeoutReached(h)
  <2>1. /\ hook' = [hook EXCEPT ![h] = Freed(SendBuffers(d), Error)]
        /\ child' = [child EXCEPT ![h] = Killed(c)] /\ loop' = loop
    BY <1>5 DEF TimeoutReached, End
  <2>2. Error \notin Code /\ loop' \in LoopState /\ loop'.does # "drain"
    BY <1>1, <1>4, <2>1 DEF Error
  <2>3. QED BY <1>1, <2>1, <2>2, EndStep
<1>6. CASE TimerCheck(h)
  <2> DEFINE e == Called(d)
  <2>1. d.calls # 1 /\ hook' = [hook EXCEPT ![h] = e] /\ child' = child
        /\ (c.status \in {"exited", "signaled"} =>
              loop' = [does |-> "drain", at |-> h, rounds |-> FirstRound])
        /\ (c.status \notin {"exited", "signaled"} => loop' = loop)
    BY <1>6 DEF TimerCheck, IsLastCall
  <2>2. /\ e \in HookData /\ e.fd = d.fd /\ e.state = d.state
        /\ e.result = d.result /\ e.sent = d.sent /\ e.buffer = d.buffer
        /\ e.overrun = d.overrun
    BY <1>3, <2>1 DEF HookData, Called, Unlimited
  <2> HIDE DEF e
  <2>3. child' = [child EXCEPT ![h] = c] BY <1>4, <2>1
  <2>4. DataOK(e, c)
    <3>1. Flow(e, c) BY <1>3, <2>2 DEF Flow
    <3>2. QED BY <1>1, <1>2, <2>2, <3>1 DEF DataOK
  <2>5. ASSUME hook'[h] = e, child'[h] = c PROVE Quiet(h)
    BY <2>2, <2>5 DEF Quiet
  <2>6. loop' \in LoopState
    BY <1>4, <2>1 DEF LoopState, FirstRound, Hook
  <2>7. LoopOK'
    <3>1. CASE c.status \in {"exited", "signaled"}
      <4>1. loop'.at = h /\ loop'.rounds = 0 BY <2>1, <3>1 DEF FirstRound
      <4>2. hook'[h] = e /\ child'[h] = c BY <1>4, <2>1
      <4>3. ASSUME NEW s \in Stream PROVE c.piped[s] + 0 * ReadSize <= PipeSize
        BY <1>3, Counts
      <4>4. LastReads(h, 0)'
        BY <1>1, <2>2, <3>1, <4>2, <4>3 DEF LastReads
      <4>5. QED BY <4>1, <4>4 DEF LoopOK, LastReads
    <3>2. CASE c.status \notin {"exited", "signaled"}
      BY <1>1, <2>1, <3>2 DEF LoopOK
    <3>3. QED BY <3>1, <3>2
  <2>8. h <= created' /\ created' \in created .. MaxHooks BY <1>1, <1>2
  <2>9. QED BY <1>1, <2>1, <2>2, <2>3, <2>4, <2>5, <2>6, <2>7, <2>8, OneHookStep
        DEF Meaning
<1>7. QED BY <1>5, <1>6 DEF TimerCb

\* A step of a command, or of one that it left behind, changes its own data.
LEMMA ChildMoves ==
  ASSUME IInv, NEW h \in Hook, NEW c, DataOK(hook[h], c), hook[h].state = "runs",
         child' = [child EXCEPT ![h] = c], UNCHANGED <<created, hook, loop>>,
         child[h].status # "alive" =>
           /\ c.status = child[h].status /\ c.left = child[h].left
           /\ \A s \in Stream \ c.left : c.piped[s] = child[h].piped[s],
         child'[h] = c => Meaning(h)
  PROVE  Correct
<1>1. hook \in [Hook -> HookData] /\ child \in [Hook -> ChildData]
      /\ created \in 0 .. MaxHooks /\ loop \in LoopState
  BY DEF IInv, Shape
<1>2. h <= created BY <1>1 DEF IInv, HookOK, Hook
<1>3. child'[h] = c /\ \A g \in Hook \ {h} : child'[g] = child[g] BY <1>1
<1>4. LoopOK'
  <2>1. SUFFICES ASSUME loop.does = "drain"
                 PROVE  loop.at \in Hook /\ LastReads(loop.at, loop.rounds)'
    BY DEF LoopOK, LastReads
  <2>2. loop.at \in Hook /\ LastReads(loop.at, loop.rounds) BY <2>1 DEF IInv, LoopOK
  <2>3. CASE loop.at = h BY <1>3, <2>2, <2>3 DEF LastReads
  <2>4. CASE loop.at # h BY <1>3, <2>2, <2>4 DEF LastReads
  <2>5. QED BY <2>2, <2>3, <2>4
<1>5. hook' = [hook EXCEPT ![h] = hook[h]] BY <1>1
<1>6. h <= created' /\ created' \in created .. MaxHooks /\ loop' \in LoopState
  BY <1>1, <1>2
<1>7. QED BY <1>3, <1>4, <1>5, <1>6, OneHookStep

LEMMA EnvironmentStep ==
  ASSUME IInv, NEW h \in Hook, Environment(h) PROVE Correct
<1> DEFINE d == hook[h]
           c == child[h]
<1>1. DataOK(d, c) BY DEF IInv, HookOK
<1>2. c \in ChildData /\ d \in HookData BY <1>1 DEF DataOK
<1>3. d.state = "runs" /\ Flow(d, c)
  <2>1. CASE Exit(h) BY <1>1, <2>1 DEF Exit, DataOK
  <2>2. CASE \E s \in Stream : Write(h, s) \/ Close(h, s)
    BY <1>1, <2>2 DEF Write, Close, DataOK
  <2>3. QED BY <2>1, <2>2 DEF Environment
<1>4. CASE \E s \in Stream : Write(h, s)
  <2>1. PICK s \in Stream : Write(h, s) BY <1>4
  <2>2. s \in c.open /\ c.piped[s] < PipeSize /\ s \in d.fd
    BY <1>3, <2>1 DEF Write, Flow
  <2> DEFINE p == [c.piped EXCEPT ![s] = c.piped[s] + 1]
             w == [c.wrote EXCEPT ![s] = c.wrote[s] + 1]
             f == [c EXCEPT !.piped = p, !.wrote = w]
  <2>3. c.piped \in [Stream -> 0 .. PipeSize] /\ c.wrote \in [Stream -> Nat]
    BY <1>2 DEF ChildData
  <2>4. child' = [child EXCEPT ![h] = f] /\ UNCHANGED <<created, hook, loop>>
    BY <1>2, <2>1, <2>3 DEF Write, ChildData
  <2>5. c.piped[s] + 1 \in 0 .. PipeSize /\ c.wrote[s] + 1 \in Nat
    BY <1>2, <2>2, Counts
  <2>6. /\ p \in [Stream -> 0 .. PipeSize] /\ p[s] = c.piped[s] + 1
        /\ \A x \in Stream \ {s} : p[x] = c.piped[x]
        /\ w \in [Stream -> Nat] /\ w[s] = c.wrote[s] + 1
        /\ \A x \in Stream \ {s} : w[x] = c.wrote[x]
    BY <2>3, <2>5
  <2> HIDE DEF p
  <2>7. /\ f \in ChildData /\ f.piped = p /\ f.wrote = w /\ f.open = c.open
        /\ f.left = c.left /\ f.status = c.status
    BY <1>2, <2>6 DEF ChildData
  <2>8. ASSUME child'[h] = f PROVE Writes(h)
    BY <2>2, <2>4, <2>7, <2>8 DEF Writes
  <2> HIDE DEF w, f
  <2>9. Flow(d, f)
    <3>1. ASSUME NEW x \in Stream
          PROVE  d.sent[x] + d.buffer[x] + f.piped[x] = f.wrote[x]
      <4>1. d.sent[x] + d.buffer[x] + c.piped[x] = c.wrote[x] BY <1>3 DEF Flow
      <4>2. /\ d.sent[x] \in Nat /\ d.buffer[x] \in Nat
            /\ c.piped[x] \in Nat /\ c.wrote[x] \in Nat
        BY <1>2, Counts
      <4>3. CASE x = s BY <2>6, <2>7, <4>1, <4>2, <4>3
      <4>4. CASE x # s BY <2>6, <2>7, <4>1, <4>4
      <4>5. QED BY <4>3, <4>4
    <3>2. \A x \in Stream \ d.fd : f.piped[x] = 0 /\ x \notin f.open
      BY <1>3, <2>2, <2>6, <2>7 DEF Flow
    <3>3. QED BY <1>3, <2>7, <3>1, <3>2 DEF Flow
  <2>10. DataOK(d, f) BY <1>1, <1>3, <2>7, <2>9 DEF DataOK
  <2>11. c.status # "alive" => \A x \in Stream \ f.left : f.piped[x] = c.piped[x]
    BY <1>3, <2>2, <2>6, <2>7 DEF Flow
  <2>12. QED BY <1>3, <2>4, <2>7, <2>8, <2>10, <2>11, ChildMoves DEF Meaning
<1>5. CASE \E s \in Stream : Close(h, s)
  <2>1. PICK s \in Stream : Close(h, s) BY <1>5
  <2> DEFINE f == [c EXCEPT !.open = @ \ {s}]
  <2>2. child' = [child EXCEPT ![h] = f] /\ UNCHANGED <<created, hook, loop>>
    BY <2>1 DEF Close
  <2>3. /\ f \in ChildData /\ f.piped = c.piped /\ f.wrote = c.wrote
        /\ f.open = c.open \ {s} /\ f.left = c.left /\ f.status = c.status
    BY <1>2 DEF ChildData
  <2> HIDE DEF f
  <2>4. Flow(d, f) BY <1>3, <2>3 DEF Flow
  <2>5. DataOK(d, f) BY <1>1, <1>3, <2>3, <2>4 DEF DataOK
  <2>6. ASSUME child'[h] = f PROVE Closes(h)
    BY <2>2, <2>3, <2>6 DEF Closes
  <2>7. QED BY <1>3, <2>2, <2>3, <2>5, <2>6, ChildMoves DEF Meaning
<1>6. CASE Exit(h)
  <2>1. PICK st \in {"exited", "signaled"}, S \in SUBSET c.open :
          child' = [child EXCEPT ![h].status = st, ![h].open = S, ![h].left = S]
    BY <1>6 DEF Exit
  <2> DEFINE f == [c EXCEPT !.status = st, !.open = S, !.left = S]
  <2>2. child' = [child EXCEPT ![h] = f] /\ UNCHANGED <<created, hook, loop>>
        /\ c.status = "alive"
    <3>1. child' = [child EXCEPT ![h] = f] BY <2>1
    <3>2. QED BY <1>6, <3>1 DEF Exit
  <2>3. /\ f \in ChildData /\ f.piped = c.piped /\ f.wrote = c.wrote
        /\ f.open = S /\ f.left = S /\ f.status = st
    BY <1>2 DEF ChildData
  <2> HIDE DEF f
  <2>4. Flow(d, f) BY <1>3, <2>3 DEF Flow
  <2>5. DataOK(d, f) BY <1>1, <1>3, <2>3, <2>4 DEF DataOK
  <2>6. ASSUME child'[h] = f PROVE Exits(h)
    BY <2>2, <2>3, <2>6 DEF Exits
  <2>7. QED BY <1>3, <2>2, <2>5, <2>6, ChildMoves DEF Meaning
<1>7. QED BY <1>4, <1>5, <1>6 DEF Environment

-----------------------------------------------------------------------------
(* hook_process_child_read_until_eof()                                     *)

\* One of the two reads of a round, if there is something to read.
LEMMA ReadIfAny ==
  ASSUME NEW d, NEW c, DataOK(d, c), d.state = "runs", NEW S \in SUBSET Stream, NEW s,
         NEW e, e = IF s \in S THEN Received(d, s, Available(c, s)) ELSE d,
         NEW f, f = IF s \in S THEN Taken(c, {s}) ELSE c
  PROVE  WasRead(e, f, d, c, S, s)
<1>1. CASE s \in S
  <2>1. e = Received(d, s, Available(c, s)) /\ f = Taken(c, {s}) /\ s \in Stream
    BY <1>1
  <2>2. WasRead(e, f, d, c, {s}, s) BY <2>1, ReceivedOK
  <2>3. QED BY <1>1, <2>2 DEF WasRead
<1>2. CASE s \notin S
  <2>1. e = d /\ f = c BY <1>2
  <2>2. d \in HookData /\ c \in ChildData BY DEF DataOK
  <2>3. \A x \in Stream : d.sent[x] <= e.sent[x] BY <2>1, <2>2, Counts
  <2>4. DataOK(e, f) BY <2>1, Zenon
  <2>5. e.state = d.state /\ e.result = d.result /\ e.fd = d.fd BY <2>1, Zenon
  <2>6. /\ f.status = c.status /\ f.open = c.open /\ f.left = c.left
        /\ f.wrote = c.wrote
    BY <2>1, Zenon
  <2>7. \A x \in Stream : f.piped[x] = c.piped[x] BY <2>1, Zenon
  <2>8. QED BY <1>2, <2>3, <2>4, <2>5, <2>6, <2>7, Zenon DEF WasRead
<1>3. QED BY <1>1, <1>2

\* The two reads of a round take what is readable.
LEMMA TakenBoth ==
  ASSUME NEW c \in ChildData, NEW S \in SUBSET Stream, "out" \in S => "out" \in Stream
  PROVE  LET f == IF "out" \in S THEN Taken(c, {"out"}) ELSE c
         IN Taken(c, S) = IF "err" \in S THEN Taken(f, {"err"}) ELSE f
<1> DEFINE f == IF "out" \in S THEN Taken(c, {"out"}) ELSE c
<1>1. c.piped \in [Stream -> 0 .. PipeSize] BY DEF ChildData
<1>2. Stream \subseteq {"out", "err"} OBVIOUS
<1> DEFINE P(T) == [s \in Stream |-> IF s \in T THEN c.piped[s] - Available(c, s)
                                                ELSE c.piped[s]]
<1>3. \A T : Taken(c, T) = [c EXCEPT !.piped = P(T)] BY DEF Taken
<1>4. c = [c EXCEPT !.piped = P({})]
  <2>1. P({}) = c.piped BY <1>1
  <2>2. QED BY <2>1 DEF ChildData
<1>5. f = [c EXCEPT !.piped = P(S \intersect {"out"})]
  <2>1. CASE "out" \in S
    <3>1. S \intersect {"out"} = {"out"} BY <2>1
    <3>2. QED BY <1>3, <2>1, <3>1
  <2>2. CASE "out" \notin S
    <3>1. S \intersect {"out"} = {} BY <2>2
    <3>2. QED BY <1>4, <2>2, <3>1
  <2>3. QED BY <2>1, <2>2
<1>6. f.piped = P(S \intersect {"out"}) BY <1>5 DEF ChildData
<1>7. CASE "err" \in S
  <2>1. "err" \in Stream BY <1>7
  <2>2. f.piped["err"] = c.piped["err"] BY <1>6, <2>1
  <2>3. Available(f, "err") = Available(c, "err") BY <2>2 DEF Available
  <2>4. Taken(f, {"err"}) = [f EXCEPT !.piped =
          [s \in Stream |-> IF s = "err" THEN f.piped[s] - Available(c, s) ELSE f.piped[s]]]
    BY <2>3 DEF Taken
  <2>5. [s \in Stream |-> IF s = "err" THEN f.piped[s] - Available(c, s) ELSE f.piped[s]]
          = P(S)
    BY <1>2, <1>6, <1>7
  <2>6. Taken(f, {"err"}) = [c EXCEPT !.piped = P(S)] BY <1>5, <2>4, <2>5 DEF ChildData
  <2>7. QED BY <1>3, <1>7, <2>6
<1>8. CASE "err" \notin S
  <2>1. S \intersect {"out"} = S BY <1>2, <1>8
  <2>2. QED BY <1>3, <1>5, <1>8, <2>1
<1>9. QED BY <1>7, <1>8

LEMMA DrainStep ==
  ASSUME IInv, Drain PROVE Correct
<1> DEFINE h == loop.at
           n == loop.rounds
           d == hook[h]
           c == child[h]
           S == Readable(h)
<1>1. /\ loop.does = "drain" /\ n < Rounds /\ S # {}
      /\ hook' = [hook EXCEPT ![h] = ReceivedFrom(h, ReceivedFrom(h, d, "out"), "err")]
      /\ child' = [child EXCEPT ![h] = Taken(c, S)]
      /\ loop' = [loop EXCEPT !.rounds = n + 1]
      /\ created' = created
  BY DEF Drain
<1>2. h \in Hook /\ LastReads(h, n) /\ d.state = "runs" BY <1>1 DEF IInv, LoopOK, LastReads
<1>3. DataOK(d, c) /\ h <= created /\ created \in 0 .. MaxHooks /\ loop \in LoopState
  BY <1>2 DEF IInv, HookOK, Hook, Shape
<1>4. d \in HookData /\ c \in ChildData /\ Flow(d, c) /\ d.result = Running
  BY <1>2, <1>3 DEF DataOK
<1>5. S \in SUBSET Stream BY <1>4 DEF Readable, HookData
<1>6. Stream \subseteq {"out", "err"} OBVIOUS
<1> DEFINE e1 == IF "out" \in S THEN Received(d, "out", Available(c, "out")) ELSE d
           f1 == IF "out" \in S THEN Taken(c, {"out"}) ELSE c
           e2 == IF "err" \in S THEN Received(e1, "err", Available(f1, "err")) ELSE e1
           f2 == IF "err" \in S THEN Taken(f1, {"err"}) ELSE f1
<1>7. Taken(c, S) = f2 BY <1>4, <1>5, TakenBoth
<1>8. S = {s \in d.fd : c.piped[s] > 0} BY DEF Readable
<1> HIDE DEF n, d, c, S
<1>9. /\ DataOK(e1, f1) /\ \A x \in Stream : d.sent[x] <= e1.sent[x]
      /\ e1.state = d.state /\ e1.result = d.result /\ e1.fd = d.fd
      /\ f1.status = c.status /\ f1.open = c.open /\ f1.left = c.left
      /\ f1.wrote = c.wrote
      /\ \A x \in Stream : x # "out" \/ x \notin S => f1.piped[x] = c.piped[x]
      /\ "out" \in S => f1.piped["out"] = c.piped["out"] - Available(c, "out")
  <2>2. e1 = IF "out" \in S THEN Received(d, "out", Available(c, "out")) ELSE d OBVIOUS
  <2>3. f1 = IF "out" \in S THEN Taken(c, {"out"}) ELSE c OBVIOUS
  <2> HIDE DEF e1, f1
  <2>4. d.state = "runs" /\ DataOK(d, c) BY <1>2, <1>3 DEF d
  <2>5. WasRead(e1, f1, d, c, S, "out") BY <1>5, <2>2, <2>3, <2>4, ReadIfAny
  <2>6. QED BY <2>5 DEF WasRead
<1>10. /\ DataOK(e2, f2) /\ \A x \in Stream : e1.sent[x] <= e2.sent[x]
       /\ e2.state = d.state /\ e2.result = d.result /\ e2.fd = d.fd
       /\ f2.status = c.status /\ f2.open = c.open /\ f2.left = c.left
       /\ f2.wrote = c.wrote
       /\ \A x \in Stream : x # "err" \/ x \notin S => f2.piped[x] = f1.piped[x]
       /\ "err" \in S => f2.piped["err"] = f1.piped["err"] - Available(f1, "err")
  <2>1. e2 = IF "err" \in S THEN Received(e1, "err", Available(f1, "err")) ELSE e1 OBVIOUS
  <2>2. f2 = IF "err" \in S THEN Taken(f1, {"err"}) ELSE f1 OBVIOUS
  <2> HIDE DEF e1, f1, e2, f2
  <2>3. e1.state = "runs" BY <1>2, <1>9 DEF d
  <2>4. WasRead(e2, f2, e1, f1, S, "err")
    BY <1>5, <1>9, <2>1, <2>2, <2>3, ReadIfAny
  <2>5. QED BY <1>9, <2>4 DEF WasRead
<1>11. "err" \in S => Available(f1, "err") = Available(c, "err")
  <2>1. "err" \in S => f1.piped["err"] = c.piped["err"] BY <1>5, <1>9
  <2> HIDE DEF f1
  <2>2. QED BY <2>1 DEF Available
<1>12. e2 = ReceivedFrom(h, ReceivedFrom(h, d, "out"), "err")
  <2>1. ReceivedFrom(h, d, "out") = e1 BY DEF ReceivedFrom, S, c
  <2> HIDE DEF e1, f1
  <2>2. ReceivedFrom(h, e1, "err") = e2 BY <1>11 DEF ReceivedFrom, S, c
  <2>3. QED BY <2>1, <2>2
<1> HIDE DEF e1, f1, e2, f2
<1>13. hook' = [hook EXCEPT ![h] = e2] /\ child' = [child EXCEPT ![h] = f2]
  BY <1>1, <1>7, <1>12
<1>14. /\ loop' \in LoopState /\ loop'.does = "drain" /\ loop'.at = h
       /\ loop'.rounds = n + 1 /\ n \in Nat
  BY <1>1, <1>3 DEF LoopState, n
<1>15. \A x \in Stream : IF x \in S THEN f2.piped[x] = c.piped[x] - Available(c, x)
                                    ELSE f2.piped[x] = c.piped[x]
  BY <1>6, <1>9, <1>10, <1>11
<1>16. LoopOK'
  <2>1. hook \in [Hook -> HookData] /\ child \in [Hook -> ChildData] BY DEF IInv, Shape
  <2>2. hook'[h] = e2 /\ child'[h] = f2 BY <1>2, <1>13, <2>1
  <2>3. c.status \in {"exited", "signaled"} /\ d.state = "runs"
        /\ \A s \in Stream \ c.left : c.piped[s] = 0 \/ c.piped[s] + n * ReadSize <= PipeSize
    BY <1>2 DEF LastReads, c, d, n
  <2>4. ASSUME NEW s \in Stream \ f2.left
        PROVE  f2.piped[s] = 0 \/ f2.piped[s] + (n + 1) * ReadSize <= PipeSize
    <3> DEFINE p == c.piped[s]
               q == n * ReadSize
    <3>1. p \in Nat /\ (p = 0 \/ p + q <= PipeSize) BY <1>4, <1>10, <2>3, <2>4, Counts
    <3>2. q \in Nat /\ (n + 1) * ReadSize = q + ReadSize BY <1>14
    <3>3. s \notin S => p = 0
      BY <1>4, <1>8, <3>1 DEF Flow
    <3>4. s \in S => f2.piped[s] = p - Available(c, s) BY <1>15
    <3>5. s \notin S => f2.piped[s] = p BY <1>15
    <3>6. Available(c, s) = IF p < ReadSize THEN p ELSE ReadSize BY DEF Available
    <3>7. s \in S => p > 0 BY <1>8
    <3> HIDE DEF p, q
    <3>8. QED BY <3>1, <3>2, <3>3, <3>4, <3>5, <3>6, <3>7
  <2>5. loop'.at = h /\ loop'.rounds = n + 1 BY <1>14
  <2>6. /\ hook'[loop'.at].state = "runs"
        /\ child'[loop'.at].status \in {"exited", "signaled"}
    BY <1>10, <2>2, <2>3, <2>5
  <2>7. ASSUME NEW s \in Stream \ child'[loop'.at].left
        PROVE  \/ child'[loop'.at].piped[s] = 0
               \/ child'[loop'.at].piped[s] + loop'.rounds * ReadSize <= PipeSize
    BY <2>2, <2>4, <2>5, <2>7
  <2>8. loop'.at \in Hook BY <1>2, <2>5
  <2>9. QED BY <2>6, <2>7, <2>8 DEF LoopOK, LastReads
<1>17. e2.sent \in [Stream -> Nat] BY <1>10 DEF DataOK, HookData
<1>18. ASSUME NEW x \in Stream PROVE d.sent[x] <= e2.sent[x] /\ e2.sent[x] <= c.wrote[x]
  <2>1. e2 \in HookData /\ f2 \in ChildData /\ Flow(e2, f2)
        /\ e1 \in HookData
    BY <1>2, <1>9, <1>10 DEF DataOK, d
  <2>2. e2.sent[x] + e2.buffer[x] + f2.piped[x] = c.wrote[x] BY <1>10, <2>1 DEF Flow
  <2>3. e2.sent[x] \in Nat /\ e2.buffer[x] \in Nat /\ f2.piped[x] \in Nat
        /\ d.sent[x] \in Nat /\ e1.sent[x] \in Nat
    BY <1>4, <2>1, Counts
  <2>4. d.sent[x] <= e1.sent[x] /\ e1.sent[x] <= e2.sent[x] BY <1>9, <1>10
  <2>5. QED BY <2>2, <2>3, <2>4
<1>19. ASSUME hook'[h] = e2, child'[h] = f2 PROVE Gives(h)
  BY <1>4, <1>10, <1>17, <1>18, <1>19 DEF Gives, c, d
<1>20. created' \in created .. MaxHooks /\ h <= created' BY <1>1, <1>3
<1>21. e2.state # "none" BY <1>2, <1>10 DEF d
<1>22. QED BY <1>2, <1>10, <1>13, <1>14, <1>16, <1>19, <1>20, <1>21, OneHookStep
       DEF Meaning

LEMMA DrainEndStep ==
  ASSUME IInv, DrainEnd PROVE Correct
<1> DEFINE h == loop.at
           d == hook[h]
           c == child[h]
           r == IF c.status = "exited" THEN c.code ELSE Error
<1>1. /\ loop.does = "drain" /\ (loop.rounds = Rounds \/ Readable(h) = {})
      /\ hook' = [hook EXCEPT ![h] = Freed(SendBuffers(d), r)]
      /\ child' = [child EXCEPT ![h] = Killed(c)]
      /\ loop' = AtPoll /\ created' = created
  BY DEF DrainEnd, End
<1>2. h \in Hook /\ LastReads(h, loop.rounds) /\ d.state = "runs"
  BY <1>1 DEF IInv, LoopOK, LastReads
<1>3. DataOK(d, c) BY <1>2 DEF IInv, HookOK
<1>4. d \in HookData /\ c \in ChildData /\ Flow(d, c) BY <1>2, <1>3 DEF DataOK
<1>5. r \in Code \union {Error, Removed} BY <1>4 DEF ChildData
<1>6. ASSUME NEW s \in Stream \ c.left PROVE SendBuffers(d).sent[s] = c.wrote[s]
  <2> DEFINE p == c.piped[s]
  <2>1. p \in Nat /\ d.sent[s] \in Nat /\ d.buffer[s] \in Nat BY <1>4, Counts
  <2>2. p = 0
    <3>1. p = 0 \/ p + loop.rounds * ReadSize <= PipeSize BY <1>2 DEF LastReads
    <3>2. CASE loop.rounds = Rounds
      <4>1. p = 0 \/ p + Rounds * ReadSize <= PipeSize BY <3>1, <3>2
      <4> DEFINE q == Rounds * ReadSize
      <4>2. q \in Nat /\ PipeSize \in Nat /\ PipeSize <= q OBVIOUS
      <4> HIDE DEF p, q
      <4>3. p = 0 \/ p + q <= PipeSize BY <4>1 DEF q
      <4>4. QED BY <2>1, <4>2, <4>3
    <3>3. CASE Readable(h) = {}
      BY <1>4, <2>1, <3>3 DEF Readable, Flow
    <3>4. QED BY <1>1, <3>2, <3>3
  <2>3. d.sent[s] + d.buffer[s] + p = c.wrote[s] BY <1>4 DEF Flow
  <2>4. SendBuffers(d).sent[s] = d.sent[s] + d.buffer[s] BY <1>4, SendFacts
  <2> HIDE DEF p
  <2>5. QED BY <2>1, <2>2, <2>3, <2>4
<1>7. loop' \in LoopState /\ loop'.does # "drain" BY <1>1 DEF AtPoll, LoopState
<1> HIDE DEF r
<1>8. QED BY <1>1, <1>2, <1>5, <1>6, <1>7, EndStep

-----------------------------------------------------------------------------
(* hook_process_exec()                                                     *)

\* The walk goes on: whatever is run, the loop does not read pipes.
LEMMA WalkOK ==
  ASSUME IInv, NEW n \in 0 .. MaxHooks, loop' = [loop EXCEPT !.at = NextOf(n)],
         loop.does = "exec"
  PROVE  loop' \in LoopState /\ loop'.does = "exec" /\ LoopOK'
<1>1. Shape /\ loop \in LoopState BY DEF IInv, Shape
<1>2. NextOf(n) \in 0 .. MaxHooks BY <1>1, NextOfType
<1>3. loop' \in LoopState /\ loop'.does = "exec" BY <1>1, <1>2 DEF LoopState
<1>4. QED BY <1>3 DEF LoopOK

\* A callback that is told of a failure hooks the function `h' again, as `k'.
LEMMA RetryStep ==
  ASSUME IInv, NEW h \in Hook, hook[h].state = "waits", created < MaxHooks,
         NEW k, k = created + 1, created' = k, child' = child,
         hook' = [hook EXCEPT ![h] = Freed(@, Error),
                              ![k] = [@ EXCEPT !.state = "waits",
                                               !.timeout = hook[h].timeout]],
         loop' \in LoopState, LoopOK'
  PROVE  Correct
<1> DEFINE d == hook[h]
           c == child[h]
           e == Freed(d, Error)
           g == [hook[k] EXCEPT !.state = "waits", !.timeout = d.timeout]
<1>1. hook \in [Hook -> HookData] /\ child \in [Hook -> ChildData]
      /\ created \in 0 .. MaxHooks
  BY DEF IInv, Shape
<1>2. DataOK(d, c) /\ h <= created BY <1>1 DEF IInv, HookOK, Hook
<1>3. k \in Hook /\ k # h /\ k > created /\ created' \in created .. MaxHooks
      /\ h <= created'
  BY <1>1, <1>2 DEF Hook
<1>4. DataOK(hook[k], child[k]) /\ hook[k].state = "none" BY <1>3 DEF IInv, HookOK
<1>5. hook' = [[hook EXCEPT ![h] = e] EXCEPT ![k] = g] BY <1>1, <1>3
<1>6. /\ hook'[h] = e /\ hook'[k] = g
      /\ \A x \in Hook \ {h, k} : hook'[x] = hook[x]
  BY <1>1, <1>3, <1>5
<1>7. d \in HookData /\ c \in ChildData /\ d.result = Running /\ Fresh(d, c)
  BY <1>2 DEF DataOK
<1>8. /\ DataOK(e, Killed(c)) /\ e.state = "freed" /\ e.sent = d.sent
      /\ e.result = Error
  <2>1. ASSUME NEW r \in Code \union {Error, Removed}
        PROVE  /\ DataOK(Freed(d, r), Killed(c)) /\ Freed(d, r).state = "freed"
               /\ Freed(d, r).sent = d.sent /\ Freed(d, r).result = r
    BY <1>2, FreedOK
  <2>2. QED BY <2>1
<1>9. Killed(c) = c BY <1>2, KilledFresh
<1>10. hook[k] \in HookData /\ hook[k].result = Running /\ Fresh(hook[k], child[k])
  BY <1>4 DEF DataOK
<1>11. /\ g \in HookData /\ g.state = "waits" /\ g.result = Running
       /\ g.overrun = hook[k].overrun /\ g.buffer = hook[k].buffer
       /\ g.sent = hook[k].sent /\ g.fd = hook[k].fd
  <2>1. d.timeout \in Nat BY <1>7 DEF HookData
  <2>2. g \in HookData BY <1>10, <2>1, ZenonT(60) DEF HookData
  <2>3. /\ g.state = "waits" /\ g.result = Running
        /\ g.overrun = hook[k].overrun /\ g.buffer = hook[k].buffer
        /\ g.sent = hook[k].sent /\ g.fd = hook[k].fd
    BY <1>10 DEF HookData
  <2>4. QED BY <2>2, <2>3
<1> HIDE DEF e, g
<1>12. DataOK(g, child[k]) BY <1>4, <1>10, <1>11 DEF DataOK, Fresh
<1>13. DataOK(e, c) BY <1>8, <1>9
<1>14. hook' \in [Hook -> HookData]
  <2>1. e \in HookData /\ g \in HookData BY <1>12, <1>13 DEF DataOK
  <2>2. [hook EXCEPT ![h] = e] \in [Hook -> HookData] BY <1>1, <2>1
  <2>3. QED BY <1>5, <2>1, <2>2
<1>15. Shape' BY <1>1, <1>3, <1>14 DEF Shape
<1>16. Elsewhere({h, k}) BY <1>1, <1>3, <1>6 DEF Elsewhere
<1>17. HookOK(h)' BY <1>3, <1>6, <1>13 DEF HookOK, Hook
<1>18. HookOK(k)'
  <2>1. DataOK(hook'[k], child'[k])
    <3>1. hook'[k] = g /\ child' = child BY <1>6
    <3>2. QED BY <1>12, <3>1, Zenon
  <2>2. ~ (k > created') BY <1>1
  <2>3. QED BY <2>1, <2>2, Zenon DEF HookOK
<1>19. IInv'
  <2>1. {h, k} \in SUBSET Hook BY <1>3
  <2>2. \A x \in {h, k} : HookOK(x)' BY <1>17, <1>18
  <2>3. QED BY <1>15, <1>16, <2>1, <2>2, SomeHooks
<1>20. ASSUME NEW x \in Hook \ {h} PROVE Quiet(x)
  BY <1>6, <1>10, <1>11, <1>20 DEF Quiet
<1>21. \A s \in Stream : c.wrote[s] = 0 /\ d.sent[s] = 0 BY <1>7 DEF Fresh, Nothing
<1>22. d.sent \in [Stream -> Nat] /\ Error \notin Code BY <1>7 DEF HookData, Error
<1>23. Gives(h)
  <2>1. hook'[h].sent = d.sent /\ hook'[h].result = Error BY <1>6, <1>8, Zenon
  <2>2. child'[h] = c OBVIOUS
  <2>3. \A s \in Stream : d.sent[s] <= d.sent[s] /\ d.sent[s] <= c.wrote[s] BY <1>21
  <2> HIDE DEF d, c
  <2>4. QED BY <1>7, <1>22, <2>1, <2>2, <2>3, Zenon DEF Gives, d, c
<1>24. QED BY <1>19, <1>20, <1>23, MeaningSteps DEF Correct, Meaning

LEMMA ExecStepOK ==
  ASSUME IInv, ExecStep PROVE Correct
<1> DEFINE h == loop.at
           d == hook[h]
           c == child[h]
<1>1. /\ loop.does = "exec" /\ h # 0 /\ loop' = [loop EXCEPT !.at = NextOf(h)]
      /\ \/ /\ d.state = "waits"
            /\ hook' = [hook EXCEPT ![h] = Started(d, Stream)]
            /\ child' = [child EXCEPT ![h] = Forked(c, Stream)]
            /\ UNCHANGED created
         \/ /\ d.state = "waits"
            /\ hook' = [hook EXCEPT ![h] = Freed(d, Error)]
            /\ UNCHANGED <<created, child>>
         \/ /\ d.state = "waits" /\ created < MaxHooks
            /\ created' = created + 1 /\ UNCHANGED child
            /\ hook' = [hook EXCEPT
                 ![h] = Freed(@, Error),
                 ![created + 1] = [@ EXCEPT !.state = "waits", !.timeout = d.timeout]]
         \/ UNCHANGED <<created, hook, child>>
  BY DEF ExecStep
<1>2. /\ hook \in [Hook -> HookData] /\ child \in [Hook -> ChildData]
      /\ created \in 0 .. MaxHooks /\ loop \in LoopState
  BY DEF IInv, Shape
<1>3. h \in 0 .. MaxHooks /\ h \in Hook BY <1>1, <1>2 DEF LoopState, Hook
<1>4. loop' \in LoopState /\ loop'.does = "exec" /\ LoopOK' BY <1>1, <1>3, WalkOK
<1>5. DataOK(d, c) BY <1>3 DEF IInv, HookOK
<1>6. CASE UNCHANGED <<created, hook, child>>
  <2>1. \A x \in Hook : HookOK(x)' BY <1>6 DEF HookOK, IInv
  <2>2. Shape' BY <1>2, <1>4, <1>6 DEF Shape
  <2>3. IInv' BY <1>4, <2>1, <2>2 DEF IInv
  <2>4. \A x \in Hook : Quiet(x) BY <1>6 DEF Quiet
  <2>5. QED BY <1>3, <2>3, <2>4, MeaningSteps DEF Correct, Meaning
<1>7. CASE /\ d.state = "waits"
           /\ hook' = [hook EXCEPT ![h] = Started(d, Stream)]
           /\ child' = [child EXCEPT ![h] = Forked(c, Stream)]
           /\ UNCHANGED created
  <2> DEFINE e == Started(d, Stream)
             f == Forked(c, Stream)
  <2>1. Stream \in SUBSET Stream OBVIOUS
  <2>2. /\ DataOK(e, f) /\ e.state = "runs" /\ e.sent = d.sent
        /\ e.result = d.result /\ f.open = Stream /\ f.wrote = c.wrote
        /\ f.left = c.left
    BY <1>5, <1>7, <2>1, StartedOK
  <2>3. hook' = [hook EXCEPT ![h] = e] /\ child' = [child EXCEPT ![h] = f] BY <1>7
  <2>4. Fresh(d, c) /\ d.result = Running BY <1>5, <1>7 DEF DataOK
  <2> HIDE DEF e, f
  <2>5. ASSUME hook'[h] = e, child'[h] = f PROVE Starts(h)
    BY <2>1, <2>2, <2>4, <2>5 DEF Starts, Fresh
  <2>6. h <= created' /\ created' \in created .. MaxHooks
    BY <1>2, <1>3, <1>7 DEF IInv, HookOK, Hook
  <2>7. QED BY <1>3, <1>4, <2>2, <2>3, <2>5, <2>6, OneHookStep DEF Meaning
<1>8. CASE /\ d.state = "waits"
           /\ hook' = [hook EXCEPT ![h] = Freed(d, Error)]
           /\ UNCHANGED <<created, child>>
  <2>1. Killed(c) = c BY <1>5, <1>8, KilledFresh
  <2>2. child' = [child EXCEPT ![h] = Killed(c)] BY <1>2, <1>8, <2>1
  <2>3. Error \notin Code /\ loop'.does # "drain" BY <1>4 DEF Error
  <2>4. QED BY <1>3, <1>4, <1>8, <2>2, <2>3, EndStep
<1>9. CASE /\ d.state = "waits" /\ created < MaxHooks
           /\ created' = created + 1 /\ UNCHANGED child
           /\ hook' = [hook EXCEPT
                ![h] = Freed(@, Error),
                ![created + 1] = [@ EXCEPT !.state = "waits", !.timeout = d.timeout]]
  BY <1>3, <1>4, <1>9, RetryStep
<1>10. QED BY <1>1, <1>6, <1>7, <1>8, <1>9

LEMMA ExecWalkStep ==
  ASSUME IInv, ExecWalk PROVE Correct
<1>1. CASE ExecStep BY <1>1, ExecStepOK
<1>2. CASE ExecBegin \/ ExecEnd
  <2>1. UNCHANGED <<created, hook, child>> BY <1>2 DEF ExecBegin, ExecEnd
  <2>2. loop' \in LoopState /\ loop'.does # "drain"
    <3>1. CASE ExecEnd BY <3>1 DEF ExecEnd, AtPoll, LoopState
    <3>2. CASE ExecBegin
      <4>1. Shape /\ 0 \in 0 .. MaxHooks BY DEF IInv
      <4>2. NextOf(0) \in 0 .. MaxHooks BY <4>1, NextOfType
      <4>3. 0 \in 0 .. Rounds OBVIOUS
      <4>4. QED BY <3>2, <4>2, <4>3 DEF ExecBegin, AtPoll, LoopState
    <3>3. QED BY <1>2, <3>1, <3>2
  <2>3. Shape' BY <2>1, <2>2 DEF IInv, Shape
  <2>4. \A x \in Hook : HookOK(x)' BY <2>1 DEF HookOK, IInv
  <2>5. IInv' BY <2>2, <2>3, <2>4 DEF IInv, LoopOK
  <2>6. [Output!Next]_(Output!vars) BY <2>1 DEF Output!vars
  <2>7. QED BY <2>5, <2>6 DEF Correct
<1>3. QED BY <1>1, <1>2 DEF ExecWalk

-----------------------------------------------------------------------------
(* The theorems                                                            *)

LEMMA NextStep == IInv /\ [Next]_vars => Correct
<1> SUFFICES ASSUME IInv, [Next]_vars PROVE Correct OBVIOUS
<1>1. CASE HookProcessHashtable BY <1>1, CreateStep
<1>2. CASE ExecWalk BY <1>2, ExecWalkStep
<1>3. CASE ReadUntilEof BY <1>3, DrainStep, DrainEndStep DEF ReadUntilEof
<1>4. ASSUME NEW h \in Hook, Unhook(h) PROVE Correct BY <1>4, UnhookStep
<1>5. ASSUME NEW h \in Hook, TimerCb(h) PROVE Correct BY <1>5, TimerStep
<1>6. ASSUME NEW h \in Hook, Environment(h) PROVE Correct BY <1>6, EnvironmentStep
<1>7. ASSUME NEW h \in Hook, NEW s \in Stream, ChildRead(h, s) PROVE Correct
  BY <1>7, ChildReadStep
<1>8. CASE UNCHANGED vars
  <2>1. IInv' BY <1>8 DEF vars, IInv, Shape, LoopOK, LastReads, HookOK
  <2>2. [Output!Next]_(Output!vars) BY <1>8 DEF vars, Output!vars
  <2>3. QED BY <2>1, <2>2 DEF Correct
<1>9. QED BY <1>1, <1>2, <1>3, <1>4, <1>5, <1>6, <1>7, <1>8 DEF Next

LEMMA InitMaps == Init => Output!Init
<1> SUFFICES ASSUME Init PROVE Output!Init OBVIOUS
<1>1. ASSUME NEW h \in Hook
      PROVE  /\ child[h].wrote = Nothing /\ child[h].open = {} /\ child[h].left = {}
             /\ hook[h].sent = Nothing /\ hook[h].result = Running
  BY DEF Init
<1>2. Nothing = Output!Nothing BY DEF Nothing, Output!Nothing
<1>3. QED BY <1>1, <1>2 DEF Output!Init

(***************************************************************************)
(* The strengthening: where every byte of the output is, who can still     *)
(* write, and how many rounds of the last reads are enough.                *)
(***************************************************************************)
THEOREM ProcessInvariant == Spec => []IInv
<1>1. Init => IInv BY InitCorrect
<1>2. IInv /\ [Next]_vars => IInv' BY NextStep DEF Correct
<1>3. QED BY <1>1, <1>2, PTL DEF Spec

(***************************************************************************)
(* The variables keep the values of WhoreIRC's data, and a hook has a      *)
(* result exactly when it is freed.                                        *)
(***************************************************************************)
THEOREM TypeCorrect == Spec => []TypeOK
<1>1. IInv => TypeOK BY IInvImplies
<1>2. QED BY <1>1, ProcessInvariant, PTL

(***************************************************************************)
(* hook_process_add_to_buffer() never copies past the end of a buffer, for *)
(* all sizes of which the reads are not larger than the buffer.            *)
(***************************************************************************)
THEOREM BuffersFit == Spec => []BufferFits
<1>1. IInv => BufferFits BY IInvImplies
<1>2. QED BY <1>1, ProcessInvariant, PTL

(***************************************************************************)
(* No child outlives its hook, however the hook ends: after its command,   *)
(* by the timeout, by unhook() or because nothing could be forked.         *)
(***************************************************************************)
THEOREM NoChildIsLeft == Spec => []NoChildLeft
<1>1. IInv => NoChildLeft BY IInvImplies
<1>2. QED BY <1>1, ProcessInvariant, PTL

(***************************************************************************)
(* The callback is given the output and the end as ProcessOutput promises: *)
(* a return code only with all that was written, for every size of a pipe  *)
(* that the rounds of hook_process_child_read_until_eof() can empty.       *)
(***************************************************************************)
THEOREM ImplementsOutput == Spec => KeepsPromise
<1>1. Init => Output!Init BY InitMaps
<1>2. IInv /\ [Next]_vars => [Output!Next]_(Output!vars) BY NextStep DEF Correct
<1>3. QED BY <1>1, <1>2, ProcessInvariant, PTL DEF Spec, KeepsPromise, Output!Spec
=============================================================================
