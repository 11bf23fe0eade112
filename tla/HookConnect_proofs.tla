------------------------- MODULE HookConnect_proofs -------------------------
(***************************************************************************)
(* Safety of HookConnect, for every set of connections, every pool of      *)
(* sockets and every fault: a connection is answered once, and every open  *)
(* socket has an owner.                                                    *)
(*                                                                         *)
(* The callbacks of the main loop find a connection by what is hooked for  *)
(* it; the strengthening says which hooks a connection has in each state,  *)
(* and what a child has to do between the status OK and its end.           *)
(***************************************************************************)
EXTENDS HookConnect, TLAPS

USE ConnectAssumption

\* The hooks of a connection follow its state; only one that waits for its
\* child may be in recvmsg().
HooksBelong ==
  \A c \in Conn :
    /\ conn[c].state \in {"new", "freed"} => conn[c].hooks = {}
    /\ conn[c].state = "waits" => conn[c].hooks = {"child_timer", "fd"}
    /\ conn[c].state = "new" => child[c].step = "none" /\ child[c].pipe = "empty"
    /\ conn[c].state = "handshake" => conn[c].sock # 0 /\ "fd" \notin conn[c].hooks
    /\ c \in blocked => conn[c].state = "waits"

\* A child is OK when it has a socket; when the parent knows of it and
\* `awaits' the socket, the child has passed it or will, unless it crashes.
Tells(k, awaits) ==
  /\ k.step \in {"none", "resolve", "try"} => k.status # "ok"
  /\ k.step \in {"tell", "pass"} /\ k.status = "ok" => k.sock # 0
  /\ k.step = "pass" => k.status = "ok"
  /\ awaits => k.pipe = "empty"
  /\ k.pipe = "ok" \/ awaits =>
       k.step = "pass" \/ (k.step = "ended" /\ (k.passed # 0 \/ "crash" \in Faults))

ChildTells == \A c \in Conn : Tells(child[c], c \in blocked)

IInv == TypeOK /\ HooksBelong /\ ChildTells /\ AnsweredOnce /\ SocketsOwned

\* What IInv says of one connection.
ConnOK(c) ==
  /\ conn[c] \in ConnData /\ child[c] \in ChildData
  /\ child[c].used <= conn[c].pool
  /\ open[c] \in SUBSET Socket /\ answers[c] \in Seq(Answer)
  /\ conn[c].state \in {"new", "freed"} => conn[c].hooks = {}
  /\ conn[c].state = "waits" => conn[c].hooks = {"child_timer", "fd"}
  /\ conn[c].state = "new" => child[c].step = "none" /\ child[c].pipe = "empty"
  /\ conn[c].state = "handshake" => conn[c].sock # 0 /\ "fd" \notin conn[c].hooks
  /\ c \in blocked => conn[c].state = "waits"
  /\ Tells(child[c], c \in blocked)
  /\ Len(answers[c]) <= 1
  /\ conn[c].state # "freed" => answers[c] = <<>>
  /\ \A i \in 1 .. Len(answers[c]) : answers[c][i].status = "ok" =>
       /\ open[c] = {answers[c][i].sock} \ {0}
       /\ answers[c][i].sock = 0 => MayLose(c) /\ ~conn[c].tls
  /\ conn[c].state = "freed" =>
       /\ open[c] \subseteq {conn[c].sock}
       /\ answers[c] # <<>> /\ answers[c][1].status # "timeout" =>
            open[c] \subseteq {answers[c][1].sock}

\* The variables are functions, and at most one connection is in recvmsg().
Shape ==
  /\ conn \in [Conn -> ConnData] /\ child \in [Conn -> ChildData]
  /\ open \in [Conn -> SUBSET Socket] /\ answers \in [Conn -> Seq(Answer)]
  /\ blocked \subseteq Conn /\ \A c, d \in blocked : c = d

\* The invariant is the shape and, for each connection, ConnOK.
LEMMA IInvIsLocal == IInv <=> Shape /\ \A c \in Conn : ConnOK(c)
<1>1. ASSUME IInv PROVE Shape BY <1>1 DEF IInv, TypeOK, Shape
<1>2. ASSUME IInv, NEW c \in Conn PROVE ConnOK(c)
  <2>1. conn[c] \in ConnData /\ child[c] \in ChildData
        /\ open[c] \in SUBSET Socket /\ answers[c] \in Seq(Answer)
        /\ child[c].used <= conn[c].pool
    BY <1>2 DEF IInv, TypeOK
  <2>2. QED BY <1>2, <2>1 DEF IInv, ConnOK, HooksBelong, ChildTells, AnsweredOnce,
                              SocketsOwned, OkHasSocket, NoSocketLost
<1>3. ASSUME Shape, \A c \in Conn : ConnOK(c) PROVE IInv
  <2>1. TypeOK BY <1>3 DEF Shape, ConnOK, TypeOK
  <2>2. HooksBelong BY <1>3 DEF ConnOK, HooksBelong
  <2>3. AnsweredOnce BY <1>3 DEF ConnOK, AnsweredOnce
  <2>4. OkHasSocket BY <1>3 DEF ConnOK, OkHasSocket
  <2>5. NoSocketLost BY <1>3 DEF ConnOK, NoSocketLost
  <2>6. ChildTells BY <1>3 DEF ConnOK, ChildTells
  <2>7. QED BY <2>1, <2>2, <2>3, <2>4, <2>5, <2>6 DEF IInv, SocketsOwned
<1>4. QED BY <1>1, <1>2, <1>3

\* The same, of the next state.
LEMMA IInvIsLocalNext ==
  ASSUME Shape', \A c \in Conn : ConnOK(c)'
  PROVE  IInv'
<1>1. TypeOK' BY DEF Shape, ConnOK, TypeOK
<1>2. HooksBelong' BY DEF ConnOK, HooksBelong
<1>3. AnsweredOnce' BY DEF ConnOK, AnsweredOnce
<1>4. OkHasSocket' BY DEF ConnOK, OkHasSocket
<1>5. NoSocketLost' BY DEF ConnOK, NoSocketLost
<1>6. ChildTells' BY DEF ConnOK, ChildTells
<1>7. QED BY <1>1, <1>2, <1>3, <1>4, <1>5, <1>6 DEF IInv, SocketsOwned

\* A step touches one connection: the others keep what they have.
Elsewhere(c) ==
  \A d \in Conn \ {c} :
    /\ conn'[d] = conn[d] /\ child'[d] = child[d]
    /\ open'[d] = open[d] /\ answers'[d] = answers[d]
    /\ d \in blocked' => d \in blocked

\* Such a step keeps the invariant if it keeps it for that connection.
LEMMA OneConnection ==
  ASSUME IInv, NEW c \in Conn, Shape', Elsewhere(c), ConnOK(c)'
  PROVE  IInv'
<1>1. \A d \in Conn : ConnOK(d) BY IInvIsLocal
<1>2. ASSUME NEW d \in Conn, d # c PROVE ConnOK(d)'
  <2>1. ConnOK(d) BY <1>1
  <2>2. /\ conn'[d] = conn[d] /\ child'[d] = child[d]
        /\ open'[d] = open[d] /\ answers'[d] = answers[d]
        /\ d \in blocked' => d \in blocked
    BY <1>2 DEF Elsewhere
  <2>3. Tells(child[d], d \in blocked)' BY <2>1, <2>2 DEF ConnOK, Tells
  <2>4. QED BY <2>1, <2>2, <2>3 DEF ConnOK, MayLose
<1>3. ASSUME NEW d \in Conn PROVE ConnOK(d)'
  BY <1>2, <1>3
<1>4. QED BY <1>3, IInvIsLocalNext

-----------------------------------------------------------------------------

LEMMA InitCorrect == Init => IInv
<1> SUFFICES ASSUME Init PROVE IInv OBVIOUS
<1>1. PICK n \in Pools :
        conn \in [Conn -> [state: {"new"}, tls: Tls, proxy: Proxies, pool: {n},
                           hooks: {{}}, sock: {0}]]
  BY DEF Init
<1>2. conn \in [Conn -> ConnData]
  <2>1. ASSUME NEW c \in Conn PROVE conn[c] \in ConnData
    BY <1>1, <2>1 DEF ConnData
  <2>2. QED BY <1>1, <2>1
<1>3. Shape
  <2>1. child \in [Conn -> ChildData] BY DEF Init, ChildData, Status, AddressStatus
  <2>2. open \in [Conn -> SUBSET Socket] BY DEF Init
  <2>3. answers \in [Conn -> Seq(Answer)] BY DEF Init
  <2>4. QED BY <1>2, <2>1, <2>2, <2>3 DEF Init, Shape
<1>4. ASSUME NEW c \in Conn PROVE ConnOK(c)
  <2>1. conn[c].state = "new" /\ conn[c].hooks = {} /\ conn[c].pool \in Nat
    BY <1>1, <1>4
  <2>2. /\ child[c].used = 0 /\ answers[c] = <<>> /\ c \notin blocked
        /\ child[c].step = "none" /\ child[c].pipe = "empty"
    BY DEF Init
  <2>3. Tells(child[c], c \in blocked) BY DEF Init, Tells
  <2>4. QED BY <1>3, <2>1, <2>2, <2>3 DEF Shape, ConnOK
<1>5. QED BY <1>3, <1>4, IInvIsLocal

-----------------------------------------------------------------------------
(* The answer and the end                                                  *)

\* What hook_connect_free_data() leaves.
LEMMA FreeFacts ==
  ASSUME Shape, NEW c \in Conn, ConnOK(c), NEW s \in Socket \union {0}, Free(c, s)
  PROVE  /\ conn' \in [Conn -> ConnData] /\ child' \in [Conn -> ChildData]
         /\ open' \in [Conn -> SUBSET Socket]
         /\ conn'[c] \in ConnData /\ child'[c] \in ChildData
         /\ conn'[c].state = "freed" /\ conn'[c].hooks = {} /\ conn'[c].sock = s
         /\ conn'[c].pool = conn[c].pool /\ conn'[c].tls = conn[c].tls
         /\ child'[c].used <= conn'[c].pool
         /\ open'[c] = {s} \ {0} /\ open'[c] \in SUBSET Socket
         /\ Tells(child'[c], FALSE)
         /\ \A d \in Conn \ {c} :
              conn'[d] = conn[d] /\ child'[d] = child[d] /\ open'[d] = open[d]
<1> DEFINE k == [conn[c] EXCEPT !.state = "freed", !.sock = s, !.hooks = {}]
           h == [child[c] EXCEPT
                   !.step = IF @ = "none" THEN "none" ELSE "gone",
                   !.pipe = "empty", !.passed = 0]
           o == (open[c] \union ({s} \ {0})) \intersect {s}
<1>1. conn[c] \in ConnData /\ child[c] \in ChildData /\ open[c] \in SUBSET Socket
      /\ child[c].used <= conn[c].pool
  BY DEF ConnOK
<1>2. conn' = [conn EXCEPT ![c] = k] BY DEF Free, FreedHooks
<1>3. child' = [child EXCEPT ![c] = h] BY DEF Free
<1>4. open' = [open EXCEPT ![c] = o] BY DEF Free, Kept
<1>5. k \in ConnData /\ k.state = "freed" /\ k.hooks = {} /\ k.sock = s
      /\ k.pool = conn[c].pool /\ k.tls = conn[c].tls
  BY <1>1 DEF ConnData
<1>6. h \in ChildData /\ h.used = child[c].used /\ Tells(h, FALSE)
  BY <1>1 DEF ChildData, ConnOK, Tells
<1>7. o \in SUBSET Socket /\ o = {s} \ {0}
  BY <1>1 DEF Socket
<1> HIDE DEF k, h, o
<1>8. conn'[c] = k /\ child'[c] = h /\ open'[c] = o
  BY <1>2, <1>3, <1>4 DEF Shape
<1>9. conn' \in [Conn -> ConnData] BY <1>2, <1>5 DEF Shape
<1>10. child' \in [Conn -> ChildData] BY <1>3, <1>6 DEF Shape
<1>11. open' \in [Conn -> SUBSET Socket] BY <1>4, <1>7 DEF Shape
<1>12. \A d \in Conn \ {c} :
         conn'[d] = conn[d] /\ child'[d] = child[d] /\ open'[d] = open[d]
  BY <1>2, <1>3, <1>4 DEF Shape
<1>13. QED BY <1>1, <1>5, <1>6, <1>7, <1>8, <1>9, <1>10, <1>11, <1>12

\* The owner removes a hook: no answer, and none later.
LEMMA UnhookStep ==
  ASSUME IInv, NEW c \in Conn, Unhook(c) PROVE IInv'
<1>1. Shape /\ ConnOK(c) BY IInvIsLocal
<1>2. Free(c, conn[c].sock) /\ blocked' = blocked /\ answers' = answers /\ blocked = {}
      /\ conn[c].state # "freed"
  BY DEF Unhook, LoopRuns
<1>3. conn[c].sock \in Socket \union {0} BY <1>1 DEF ConnOK, ConnData
<1>4. /\ conn' \in [Conn -> ConnData] /\ child' \in [Conn -> ChildData]
      /\ open' \in [Conn -> SUBSET Socket]
      /\ conn'[c] \in ConnData /\ child'[c] \in ChildData
      /\ conn'[c].state = "freed" /\ conn'[c].hooks = {}
      /\ child'[c].used <= conn'[c].pool
      /\ open'[c] \in SUBSET Socket /\ open'[c] \subseteq {conn'[c].sock}
      /\ Tells(child'[c], FALSE)
      /\ \A d \in Conn \ {c} :
           conn'[d] = conn[d] /\ child'[d] = child[d] /\ open'[d] = open[d]
  BY <1>1, <1>2, <1>3, FreeFacts
<1>5. Shape' BY <1>1, <1>2, <1>4 DEF Shape
<1>6. Elsewhere(c) BY <1>2, <1>4 DEF Elsewhere
<1>7. answers'[c] = <<>> BY <1>1, <1>2 DEF ConnOK
<1>8. Tells(child[c], c \in blocked)' BY <1>2, <1>4 DEF Tells
<1>9. ConnOK(c)' BY <1>2, <1>4, <1>5, <1>7, <1>8 DEF ConnOK, Shape
<1>10. QED BY <1>5, <1>6, <1>9, OneConnection

\* The callback is called with an answer, of a hook that is still there.
LEMMA CallStep ==
  ASSUME IInv, NEW c \in Conn, NEW status \in Status,
         NEW told \in Socket \union {0}, NEW s \in Socket \union {0},
         Call(c, status, told, s), conn[c].state # "freed", blocked' = {},
         status # "timeout" => told = s,
         status = "ok" /\ s = 0 => MayLose(c) /\ ~conn[c].tls
  PROVE  IInv'
<1> DEFINE a == [status |-> status, sock |-> told]
<1>1. Shape /\ ConnOK(c) BY IInvIsLocal
<1>2. Free(c, s) BY DEF Call
<1>3. /\ conn' \in [Conn -> ConnData] /\ child' \in [Conn -> ChildData]
      /\ open' \in [Conn -> SUBSET Socket]
      /\ conn'[c] \in ConnData /\ child'[c] \in ChildData
      /\ conn'[c].state = "freed" /\ conn'[c].hooks = {} /\ conn'[c].sock = s
      /\ conn'[c].pool = conn[c].pool /\ conn'[c].tls = conn[c].tls
      /\ child'[c].used <= conn'[c].pool
      /\ open'[c] = {s} \ {0} /\ open'[c] \in SUBSET Socket
      /\ Tells(child'[c], FALSE)
      /\ \A d \in Conn \ {c} :
           conn'[d] = conn[d] /\ child'[d] = child[d] /\ open'[d] = open[d]
  BY <1>1, <1>2, FreeFacts
<1>4. a \in Answer /\ a.status = status /\ a.sock = told BY DEF Answer
<1> HIDE DEF a
<1>5. answers[c] = <<>> BY <1>1 DEF ConnOK
<1>6. answers' = [answers EXCEPT ![c] = Append(answers[c], a)] BY DEF Call, a
<1>7. answers'[c] = <<a>>
  <2>1. answers'[c] = Append(answers[c], a) BY <1>1, <1>6 DEF Shape
  <2>2. QED BY <1>4, <1>5, <2>1
<1>8. answers' \in [Conn -> Seq(Answer)]
  BY <1>1, <1>4, <1>5, <1>6 DEF Shape
<1>9. \A d \in Conn \ {c} : answers'[d] = answers[d] BY <1>1, <1>6 DEF Shape
<1>10. Shape' BY <1>3, <1>8 DEF Shape
<1>11. Elsewhere(c) BY <1>3, <1>9 DEF Elsewhere
<1>12. /\ Len(answers'[c]) = 1 /\ answers'[c][1] = a
       /\ answers'[c] \in Seq(Answer) /\ c \notin blocked'
  BY <1>4, <1>7
<1>13. \A i \in 1 .. Len(answers'[c]) : answers'[c][i].status = "ok" =>
         /\ open'[c] = {answers'[c][i].sock} \ {0}
         /\ answers'[c][i].sock = 0 => MayLose(c)' /\ ~conn'[c].tls
  <2>1. MayLose(c)' <=> MayLose(c) BY <1>3 DEF MayLose
  <2>2. SUFFICES ASSUME status = "ok"
                 PROVE  /\ open'[c] = {told} \ {0}
                        /\ told = 0 => MayLose(c)' /\ ~conn'[c].tls
    BY <1>4, <1>12
  <2>3. QED BY <1>3, <2>1, <2>2
<1>14. /\ open'[c] \subseteq {conn'[c].sock}
       /\ status # "timeout" => open'[c] \subseteq {told}
  BY <1>3
<1>15. Tells(child[c], c \in blocked)' BY <1>3 DEF Tells
<1>16. ConnOK(c)'
  BY <1>3, <1>4, <1>12, <1>13, <1>14, <1>15 DEF ConnOK
<1>17. QED BY <1>10, <1>11, <1>16, OneConnection

-----------------------------------------------------------------------------
(* hook_connect()                                                          *)

LEMMA HookConnectStep ==
  ASSUME IInv, NEW c \in Conn, HookConnect(c) PROVE IInv'
<1>1. Shape /\ ConnOK(c) BY IInvIsLocal
<1>2. CASE Refused(c)
  <2>1. blocked' = {} /\ conn[c].state # "freed" BY <1>2 DEF Refused, LoopRuns
  <2>2. PICK st \in {"gnutls_init_error", "memory_error"} : Call(c, st, 0, 0)
    BY <1>2 DEF Refused
  <2>3. st \in Status /\ st # "ok" BY <2>2 DEF Status
  <2>4. QED BY <2>1, <2>2, <2>3, CallStep
<1>3. CASE Forked(c)
  <2> DEFINE k == [conn[c] EXCEPT !.state = "waits", !.hooks = {"child_timer", "fd"}]
             h == [child[c] EXCEPT !.step = "resolve"]
  <2>1. conn' = [conn EXCEPT ![c] = k] BY <1>3 DEF Forked, FirstHooks
  <2>2. child' = [child EXCEPT ![c] = h] BY <1>3 DEF Forked
  <2>3. open' = [open EXCEPT ![c] = 1 .. conn[c].pool] BY <1>3 DEF Forked
  <2>4. blocked' = {} /\ blocked = {} /\ answers' = answers /\ conn[c].state = "new"
    BY <1>3 DEF Forked, LoopRuns
  <2>5. conn[c] \in ConnData /\ child[c] \in ChildData
        /\ child[c].used <= conn[c].pool
    BY <1>1 DEF ConnOK
  <2>6. k \in ConnData /\ k.state = "waits" /\ k.hooks = {"child_timer", "fd"}
        /\ k.pool = conn[c].pool
    BY <2>5 DEF ConnData, HookKind
  <2>7. h \in ChildData /\ h.used = child[c].used /\ Tells(h, FALSE)
    <3>1. child[c].step = "none" /\ child[c].pipe = "empty"
      BY <1>1, <2>4 DEF ConnOK
    <3>2. QED BY <1>1, <2>5, <3>1 DEF ChildData, ConnOK, Tells
  <2>8. 1 .. conn[c].pool \in SUBSET Socket BY <2>5 DEF ConnData, Socket
  <2> HIDE DEF k, h
  <2>9. conn'[c] = k /\ child'[c] = h /\ open'[c] = 1 .. conn[c].pool
    BY <1>1, <2>1, <2>2, <2>3 DEF Shape
  <2>10. conn' \in [Conn -> ConnData] /\ child' \in [Conn -> ChildData]
    BY <1>1, <2>1, <2>2, <2>6, <2>7 DEF Shape
  <2>11. open' \in [Conn -> SUBSET Socket] BY <1>1, <2>3, <2>8 DEF Shape
  <2>12. Shape' BY <1>1, <2>4, <2>10, <2>11 DEF Shape
  <2>13. Elsewhere(c) BY <1>1, <2>1, <2>2, <2>3, <2>4 DEF Shape, Elsewhere
  <2>14. answers'[c] = <<>> /\ answers'[c] \in Seq(Answer) /\ c \notin blocked'
    BY <1>1, <2>4 DEF ConnOK
  <2>15. Tells(child[c], c \in blocked)' BY <2>7, <2>9, <2>14 DEF Tells
  <2>16. ConnOK(c)'
    BY <2>5, <2>6, <2>7, <2>8, <2>9, <2>14, <2>15 DEF ConnOK
  <2>17. QED BY <2>12, <2>13, <2>16, OneConnection
<1>4. QED BY <1>2, <1>3 DEF HookConnect

-----------------------------------------------------------------------------
(* The child                                                               *)

\* A step of the child changes its own data only, and within its pool.
LEMMA ChildBecomes ==
  ASSUME IInv, NEW c \in Conn, NEW k \in ChildData, k.used <= conn[c].pool,
         Tells(k, c \in blocked), child[c].step # "none",
         child' = [child EXCEPT ![c] = k], ChildStep(c)
  PROVE  IInv'
<1>1. Shape /\ ConnOK(c) BY IInvIsLocal
<1>2. conn' = conn /\ open' = open /\ blocked' = blocked /\ answers' = answers
  BY DEF ChildStep
<1>3. child' \in [Conn -> ChildData] BY <1>1 DEF Shape
<1>4. child'[c] = k /\ \A d \in Conn \ {c} : child'[d] = child[d] BY <1>1 DEF Shape
<1>5. Shape' BY <1>1, <1>2, <1>3 DEF Shape
<1>6. Elsewhere(c) BY <1>2, <1>4 DEF Elsewhere
<1>7. Tells(child[c], c \in blocked)' BY <1>2, <1>4 DEF Tells
<1>8. ConnOK(c)' BY <1>1, <1>2, <1>4, <1>7 DEF ConnOK, MayLose
<1>9. QED BY <1>5, <1>6, <1>8, OneConnection

LEMMA ResolveStep ==
  ASSUME IInv, NEW c \in Conn, Resolve(c) PROVE IInv'
<1>1. /\ child[c] \in ChildData /\ child[c].used <= conn[c].pool
      /\ Tells(child[c], c \in blocked)
  BY IInvIsLocal DEF ConnOK
<1>2. ChildStep(c) /\ child[c].step = "resolve" BY DEF Resolve
<1>3. CASE \E st \in {"address_not_found", "local_hostname_error",
                      "proxy_error", "memory_error"} :
             child' = [child EXCEPT ![c].step = "tell", ![c].status = st]
  <2>1. PICK st \in {"address_not_found", "local_hostname_error",
                     "proxy_error", "memory_error"} :
          child' = [child EXCEPT ![c].step = "tell", ![c].status = st]
    BY <1>3
  <2> DEFINE k == [child[c] EXCEPT !.step = "tell", !.status = st]
  <2>2. child' = [child EXCEPT ![c] = k] BY <2>1
  <2>3. k \in ChildData /\ k.used = child[c].used /\ Tells(k, c \in blocked)
    BY <1>1, <1>2, <2>1 DEF ChildData, Status, AddressStatus, Tells
  <2> HIDE DEF k
  <2>4. QED BY <1>1, <1>2, <2>2, <2>3, ChildBecomes
<1>4. CASE \E n \in 0 .. MaxAddresses :
             child' = [child EXCEPT ![c].step = "try", ![c].left = n]
  <2>1. PICK n \in 0 .. MaxAddresses :
          child' = [child EXCEPT ![c].step = "try", ![c].left = n]
    BY <1>4
  <2> DEFINE k == [child[c] EXCEPT !.step = "try", !.left = n]
  <2>2. child' = [child EXCEPT ![c] = k] BY <2>1
  <2>3. k \in ChildData /\ k.used = child[c].used /\ Tells(k, c \in blocked)
    BY <1>1, <1>2 DEF ChildData, Tells
  <2> HIDE DEF k
  <2>4. QED BY <1>1, <1>2, <2>2, <2>3, ChildBecomes
<1>5. QED BY <1>3, <1>4 DEF Resolve

LEMMA TryStep ==
  ASSUME IInv, NEW c \in Conn, Try(c) PROVE IInv'
<1> DEFINE pool == conn[c].pool
           tried == [child[c] EXCEPT
                       !.left = @ - 1, !.used = IF pool = 0 THEN 0 ELSE @ + 1]
<1>1. /\ child[c] \in ChildData /\ child[c].used <= pool /\ pool \in Nat
      /\ Tells(child[c], c \in blocked)
  BY IInvIsLocal DEF ConnOK, ConnData
<1>2. ChildStep(c) /\ child[c].left - 1 \in 0 .. MaxAddresses
      /\ child[c].step = "try"
  BY <1>1 DEF Try, ChildData
<1>3. CASE child' = [child EXCEPT ![c].left = @ - 1]
  <2> DEFINE k == [child[c] EXCEPT !.left = @ - 1]
  <2>1. child' = [child EXCEPT ![c] = k] BY <1>3
  <2>2. k \in ChildData /\ k.used = child[c].used /\ Tells(k, c \in blocked)
    BY <1>1, <1>2 DEF ChildData, Tells
  <2> HIDE DEF k
  <2>3. QED BY <1>1, <1>2, <2>1, <2>2, ChildBecomes
<1>4. ASSUME NEW st \in Status, NEW s \in Socket \union {0}, NEW step \in {"try", "tell"},
             HasSocket(child[c], pool), st = "ok" => s # 0 /\ step = "tell",
             child' = [child EXCEPT ![c] = [tried EXCEPT !.status = st, !.sock = s,
                                                         !.step = step]]
      PROVE  IInv'
  <2> DEFINE u == IF pool = 0 THEN 0 ELSE child[c].used + 1
             k == [child[c] EXCEPT !.left = @ - 1, !.used = u, !.status = st,
                                   !.sock = s, !.step = step]
  <2>1. child' = [child EXCEPT ![c] = k] BY <1>4
  <2>2. u \in Nat /\ u <= pool BY <1>1, <1>4 DEF HasSocket, ChildData
  <2> HIDE DEF u
  <2>3. k \in ChildData /\ k.used = u /\ Tells(k, c \in blocked)
    BY <1>1, <1>2, <1>4, <2>2 DEF ChildData, Tells
  <2> HIDE DEF k
  <2>4. QED BY <1>2, <2>1, <2>2, <2>3, ChildBecomes
<1> HIDE DEF tried
<1>5. \/ child' = [child EXCEPT ![c].left = @ - 1]
      \/ \E st \in Status, s \in Socket \union {0}, step \in {"try", "tell"} :
           /\ HasSocket(child[c], pool) /\ (st = "ok" => s # 0 /\ step = "tell")
           /\ child' = [child EXCEPT ![c] = [tried EXCEPT !.status = st, !.sock = s,
                                                          !.step = step]]
  <2> DEFINE Becomes(st, s, step) ==
               child' = [child EXCEPT ![c] = [tried EXCEPT !.status = st, !.sock = s,
                                                           !.step = step]]
  <2>1. \/ child' = [child EXCEPT ![c].left = @ - 1]
        \/ pool = 0 /\ Becomes("socket_error", 0, "try")
        \/ /\ HasSocket(child[c], pool)
           /\ \/ \E st \in {"local_hostname_error", "connection_refused"} :
                   Becomes(st, 0, "try")
              \/ Becomes("ok", IF pool = 0 THEN 1 ELSE child[c].used + 1, "tell")
              \/ Becomes("proxy_error", 0, "tell")
    BY DEF Try, tried
  <2>2. pool = 0 => HasSocket(child[c], pool) BY DEF HasSocket
  <2>3. (IF pool = 0 THEN 1 ELSE child[c].used + 1) \in Socket
        /\ (IF pool = 0 THEN 1 ELSE child[c].used + 1) # 0
    BY <1>1 DEF Socket, ChildData
  <2>4. {"socket_error", "local_hostname_error", "connection_refused", "ok",
         "proxy_error"} \subseteq Status
    BY DEF Status, AddressStatus
  <2> HIDE DEF Becomes
  <2>5. \/ child' = [child EXCEPT ![c].left = @ - 1]
        \/ \E st \in Status, s \in Socket \union {0}, step \in {"try", "tell"} :
             /\ HasSocket(child[c], pool) /\ (st = "ok" => s # 0 /\ step = "tell")
             /\ Becomes(st, s, step)
    BY <2>1, <2>2, <2>3, <2>4
  <2>6. QED BY <2>5 DEF Becomes
<1>6. QED BY <1>3, <1>4, <1>5

\* NoneLeft, Tell, Pass and Crash change the step and the pipes.
LEMMA TellStep ==
  ASSUME IInv, NEW c \in Conn, NoneLeft(c) \/ Tell(c) \/ Pass(c) \/ Crash(c)
  PROVE  IInv'
<1>1. /\ child[c] \in ChildData /\ child[c].used <= conn[c].pool
      /\ Tells(child[c], c \in blocked)
  BY IInvIsLocal DEF ConnOK
<1>2. ChildStep(c) /\ child[c].step # "none" BY DEF NoneLeft, Tell, Pass, Crash
<1>3. ASSUME NEW step \in {"tell", "pass", "ended"},
             NEW pipe \in Status \union {"empty"}, NEW s \in Socket \union {0},
             child' = [child EXCEPT ![c].step = step, ![c].pipe = pipe, ![c].passed = s],
             Tells([child[c] EXCEPT !.step = step, !.pipe = pipe, !.passed = s],
                   c \in blocked)
      PROVE  IInv'
  <2> DEFINE k == [child[c] EXCEPT !.step = step, !.pipe = pipe, !.passed = s]
  <2>1. child' = [child EXCEPT ![c] = k] BY <1>3
  <2>2. k \in ChildData /\ k.used = child[c].used /\ Tells(k, c \in blocked)
    BY <1>1, <1>3 DEF ChildData
  <2> HIDE DEF k
  <2>3. QED BY <1>1, <1>2, <2>1, <2>2, ChildBecomes
<1> DEFINE p == child[c].pipe
           q == child[c].passed
<1>4. p \in Status \union {"empty"} /\ q \in Socket \union {0}
      /\ child[c].status \in Status /\ child[c].sock \in Socket \union {0}
  BY <1>1 DEF ChildData
<1>5. [child[c] EXCEPT !.pipe = p, !.passed = q] = child[c] BY <1>1 DEF ChildData
<1>6. child \in [Conn -> ChildData] BY DEF IInv, TypeOK
<1>7. CASE NoneLeft(c)
  <2>1. child' = [child EXCEPT ![c].step = "tell"] BY <1>7 DEF NoneLeft
  <2>2. child' = [child EXCEPT ![c].step = "tell", ![c].pipe = p, ![c].passed = q]
    BY <1>1, <1>6, <2>1 DEF ChildData
  <2>3. Tells([child[c] EXCEPT !.step = "tell", !.pipe = p, !.passed = q],
              c \in blocked)
    BY <1>1, <1>7 DEF NoneLeft, ChildData, Tells
  <2>4. QED BY <1>3, <1>4, <2>2, <2>3
<1>8. CASE Tell(c)
  <2> DEFINE step == IF child[c].status = "ok" THEN "pass" ELSE "ended"
  <2>1. child' = [child EXCEPT ![c].pipe = child[c].status, ![c].step = step]
    BY <1>8 DEF Tell
  <2>2. step \in {"pass", "ended"} OBVIOUS
  <2>3. Tells([child[c] EXCEPT !.step = step, !.pipe = child[c].status, !.passed = q],
              c \in blocked)
    BY <1>1, <1>8 DEF Tell, ChildData, Tells
  <2> HIDE DEF step
  <2>4. child' = [child EXCEPT ![c].step = step, ![c].pipe = child[c].status,
                               ![c].passed = q]
    BY <1>1, <1>6, <2>1 DEF ChildData
  <2>5. QED BY <1>3, <1>4, <2>2, <2>3, <2>4
<1>9. CASE Pass(c)
  <2>1. child' = [child EXCEPT ![c].step = "ended", ![c].passed = child[c].sock]
    BY <1>9 DEF Pass
  <2>2. child' = [child EXCEPT ![c].step = "ended", ![c].pipe = p,
                               ![c].passed = child[c].sock]
    BY <1>1, <1>6, <2>1 DEF ChildData
  <2>3. Tells([child[c] EXCEPT !.step = "ended", !.pipe = p, !.passed = child[c].sock],
              c \in blocked)
    BY <1>1, <1>9 DEF Pass, ChildData, Tells
  <2>4. QED BY <1>3, <1>4, <2>2, <2>3
<1>10. CASE Crash(c)
  <2>1. child' = [child EXCEPT ![c].step = "ended"] BY <1>10 DEF Crash
  <2>2. child' = [child EXCEPT ![c].step = "ended", ![c].pipe = p, ![c].passed = q]
    BY <1>1, <1>6, <2>1 DEF ChildData
  <2>3. Tells([child[c] EXCEPT !.step = "ended", !.pipe = p, !.passed = q],
              c \in blocked)
    BY <1>1, <1>10 DEF Crash, ChildData, Tells
  <2>4. QED BY <1>3, <1>4, <2>2, <2>3
<1>11. QED BY <1>7, <1>8, <1>9, <1>10

-----------------------------------------------------------------------------
(* The callbacks of the main loop                                          *)

\* What is hooked tells the state of the connection.
LEMMA HookedFacts ==
  ASSUME IInv, NEW c \in Conn, NEW h \in HookKind, Hooked(c, h)
  PROVE  /\ conn[c].state # "freed"
         /\ h \in {"handshake_fd", "handshake_timer"} => conn[c].sock # 0
         /\ conn[c].sock \in Socket \union {0}
<1>1. ConnOK(c) BY IInvIsLocal
<1>2. QED BY <1>1 DEF ConnOK, ConnData, Hooked

LEMMA ReadStatusStep ==
  ASSUME IInv, NEW c \in Conn, ReadStatus(c) PROVE IInv'
<1>1. Shape /\ ConnOK(c) BY IInvIsLocal
<1>2. Hooked(c, "fd") /\ blocked = {} BY DEF ReadStatus, LoopRuns
<1>3. conn[c].state # "freed" BY <1>2, HookedFacts DEF HookKind
<1>4. CASE /\ child[c].pipe = "ok" /\ blocked' = {c}
           /\ child' = [child EXCEPT ![c].pipe = "empty"]
           /\ UNCHANGED <<conn, open, answers>>
  <2> DEFINE k == [child[c] EXCEPT !.pipe = "empty"]
  <2>1. child[c] \in ChildData /\ conn[c] \in ConnData
        /\ child[c].used <= conn[c].pool
    BY <1>1 DEF ConnOK
  <2>2. child' = [child EXCEPT ![c] = k] BY <1>4
  <2>3. k \in ChildData /\ k.used = child[c].used /\ Tells(k, TRUE)
    BY <1>1, <1>4, <2>1 DEF ChildData, ConnOK, Tells
  <2> HIDE DEF k
  <2>4. conn[c].state = "waits"
    <3>1. "fd" \in conn[c].hooks BY <1>2 DEF Hooked
    <3>2. conn[c].state # "handshake"
      BY <1>1, <3>1 DEF ConnOK
    <3>3. QED BY <1>1, <2>1, <3>1, <3>2 DEF ConnOK, ConnData
  <2>5. child'[c] = k /\ \A d \in Conn \ {c} : child'[d] = child[d]
    BY <1>1, <2>2 DEF Shape
  <2>6. child' \in [Conn -> ChildData] BY <1>1, <2>2, <2>3 DEF Shape
  <2>7. Shape' BY <1>1, <1>4, <2>6 DEF Shape
  <2>8. Elsewhere(c) BY <1>4, <2>5 DEF Elsewhere
  <2>9. Tells(child[c], c \in blocked)' BY <2>3, <2>5 DEF Tells
  <2>10. ConnOK(c)' BY <1>1, <1>4, <2>3, <2>4, <2>5, <2>9 DEF ConnOK, MayLose
  <2>11. QED BY <2>7, <2>8, <2>10, OneConnection
<1>5. CASE child[c].pipe \notin {"empty", "ok"} /\ Call(c, child[c].pipe, 0, 0)
           /\ blocked' = blocked
  <2>1. child[c].pipe \in Status BY <1>1, <1>5 DEF ConnOK, ChildData
  <2>2. QED BY <1>2, <1>3, <1>5, <2>1, CallStep
<1>6. CASE Call(c, "memory_error", 0, 0) /\ blocked' = blocked
  <2>1. "memory_error" \in Status BY DEF Status
  <2>2. QED BY <1>2, <1>3, <1>6, <2>1, CallStep
<1>7. QED BY <1>4, <1>5, <1>6 DEF ReadStatus

\* The callback goes on with a socket, or with none if that may be lost.
LEMMA GoOnStep ==
  ASSUME IInv, NEW c \in Conn, NEW s \in Socket \union {0}, c \in blocked,
         GoOn(c, s), s = 0 => MayLose(c)
  PROVE  IInv'
<1>1. Shape /\ ConnOK(c) BY IInvIsLocal
<1>2. child[c] \in ChildData /\ conn[c] \in ConnData
      /\ child[c].used <= conn[c].pool /\ open[c] \in SUBSET Socket
  BY <1>1 DEF ConnOK
<1>3. blocked' = {} /\ conn[c].state = "waits" /\ conn[c].hooks = {"child_timer", "fd"}
      /\ answers[c] = <<>>
  BY <1>1 DEF GoOn, ConnOK
<1>4. {"ok", "gnutls_handshake_error"} \subseteq Status BY DEF Status
<1>5. child[c].pipe = "empty" BY <1>1 DEF ConnOK, Tells
<1>6. CASE (s # 0 \/ ~conn[c].tls) /\ Call(c, "ok", s, s)
  BY <1>6, <1>3, <1>4, CallStep
<1>7. CASE Call(c, "gnutls_handshake_error", s, s)
  BY <1>3, <1>4, <1>7, CallStep
<1>8. CASE /\ s # 0
           /\ conn' = [conn EXCEPT ![c].state = "handshake", ![c].sock = s,
                ![c].hooks = (@ \ {"fd"}) \union {"handshake_fd", "handshake_timer"}]
           /\ child' = [child EXCEPT ![c].passed = 0]
           /\ open' = [open EXCEPT ![c] = @ \union {s}]
           /\ UNCHANGED answers
  <2> DEFINE hooks == (conn[c].hooks \ {"fd"}) \union {"handshake_fd", "handshake_timer"}
             k == [conn[c] EXCEPT !.state = "handshake", !.sock = s, !.hooks = hooks]
             h == [child[c] EXCEPT !.passed = 0]
             o == open[c] \union {s}
  <2>1. conn' = [conn EXCEPT ![c] = k] BY <1>8
  <2>2. child' = [child EXCEPT ![c] = h] BY <1>8
  <2>3. open' = [open EXCEPT ![c] = o] BY <1>8
  <2>4. hooks \in SUBSET HookKind /\ "fd" \notin hooks BY <1>3 DEF HookKind
  <2> HIDE DEF hooks
  <2>5. k \in ConnData /\ k.state = "handshake" /\ k.hooks = hooks /\ k.sock = s
        /\ k.pool = conn[c].pool
    BY <1>2, <1>8, <2>4 DEF ConnData
  <2>6. h \in ChildData /\ h.used = child[c].used /\ Tells(h, FALSE)
    BY <1>1, <1>2, <1>5 DEF ChildData, ConnOK, Tells
  <2>7. o \in SUBSET Socket BY <1>2, <1>8
  <2> HIDE DEF k, h, o
  <2>8. conn'[c] = k /\ child'[c] = h /\ open'[c] = o
    BY <1>1, <2>1, <2>2, <2>3 DEF Shape
  <2>9. conn' \in [Conn -> ConnData] /\ child' \in [Conn -> ChildData]
    BY <1>1, <2>1, <2>2, <2>5, <2>6 DEF Shape
  <2>10. open' \in [Conn -> SUBSET Socket] BY <1>1, <2>3, <2>7 DEF Shape
  <2>11. Shape' BY <1>1, <1>3, <1>8, <2>9, <2>10 DEF Shape
  <2>12. Elsewhere(c) BY <1>1, <1>3, <1>8, <2>1, <2>2, <2>3 DEF Shape, Elsewhere
  <2>13. answers'[c] = <<>> /\ answers'[c] \in Seq(Answer) /\ c \notin blocked'
    BY <1>1, <1>3, <1>8 DEF ConnOK
  <2>14. Tells(child[c], c \in blocked)' BY <2>6, <2>8, <2>13 DEF Tells
  <2>15. ConnOK(c)'
    BY <1>2, <1>8, <2>4, <2>5, <2>6, <2>7, <2>8, <2>13, <2>14 DEF ConnOK
  <2>16. QED BY <2>11, <2>12, <2>15, OneConnection
<1>9. QED BY <1>6, <1>7, <1>8 DEF GoOn

\* The socket, the end of the pipe of a child that ended too soon, or none.
LEMMA ReceiveStep ==
  ASSUME IInv, NEW c \in Conn, Receive(c) \/ ReceiveFails(c) PROVE IInv'
<1>1. c \in blocked BY DEF Receive, ReceiveFails
<1>2. child[c].passed \in Socket \union {0}
  BY IInvIsLocal DEF ConnOK, ChildData
<1>3. CASE Receive(c)
  <2>1. GoOn(c, child[c].passed) BY <1>3 DEF Receive
  <2>2. child[c].passed = 0 => MayLose(c)
    <3>1. Tells(child[c], TRUE) BY <1>1, IInvIsLocal DEF ConnOK, Tells
    <3>2. QED BY <1>3, <3>1 DEF Receive, AtEnd, Tells, MayLose
  <2>3. QED BY <1>1, <1>2, <2>1, <2>2, GoOnStep
<1>4. CASE ReceiveFails(c)
  <2>1. GoOn(c, 0) /\ MayLose(c) BY <1>4 DEF ReceiveFails, MayLose
  <2>2. QED BY <1>1, <2>1, GoOnStep
<1>5. QED BY <1>3, <1>4

\* The callbacks of the handshake and of the timers.
LEMMA CallbackStep ==
  ASSUME IInv, NEW c \in Conn, HandshakeFdCb(c) \/ TimerCb(c) PROVE IInv'
<1>1. blocked' = {} BY DEF HandshakeFdCb, TimerCb, ChildTimerCb, HandshakeTimerCb, LoopRuns
<1>2. {"ok", "gnutls_handshake_error", "timeout"} \subseteq Status BY DEF Status
<1>3. CASE HandshakeFdCb(c)
  <2>1. conn[c].state # "freed" /\ conn[c].sock \in Socket /\ conn[c].sock # 0
    BY <1>3, HookedFacts DEF HandshakeFdCb, HookKind
  <2>2. PICK st \in {"ok", "gnutls_handshake_error"} :
          Call(c, st, conn[c].sock, conn[c].sock)
    BY <1>3 DEF HandshakeFdCb, HandshakeSocket
  <2>3. QED BY <1>1, <1>2, <2>1, <2>2, CallStep
<1>4. CASE ChildTimerCb(c)
  <2>1. conn[c].state # "freed" /\ conn[c].sock \in Socket \union {0}
    BY <1>4, HookedFacts DEF ChildTimerCb, HookKind
  <2>2. Call(c, "timeout", 0, conn[c].sock) BY <1>4 DEF ChildTimerCb
  <2>3. QED BY <1>1, <1>2, <2>1, <2>2, CallStep
<1>5. CASE HandshakeTimerCb(c)
  <2>1. conn[c].state # "freed" /\ conn[c].sock \in Socket
    BY <1>5, HookedFacts DEF HandshakeTimerCb, HookKind
  <2>2. Call(c, "gnutls_handshake_error", conn[c].sock, conn[c].sock)
    BY <1>5 DEF HandshakeTimerCb, HandshakeSocket
  <2>3. QED BY <1>1, <1>2, <2>1, <2>2, CallStep
<1>6. QED BY <1>3, <1>4, <1>5 DEF TimerCb

LEMMA NextStep == IInv /\ [Next]_vars => IInv'
<1> SUFFICES ASSUME IInv, [Next]_vars PROVE IInv' OBVIOUS
<1>1. CASE UNCHANGED vars
  BY <1>1 DEF vars, IInv, TypeOK, HooksBelong, ChildTells, Tells, AnsweredOnce,
              SocketsOwned, OkHasSocket, NoSocketLost, MayLose
<1>2. CASE Next
  <2>1. PICK c \in Conn :
          \/ HookConnect(c) \/ Unhook(c) \/ Work(c) \/ Crash(c)
          \/ ChildReadCb(c) \/ ReceiveFails(c) \/ HandshakeFdCb(c) \/ TimerCb(c)
    BY <1>2 DEF Next
  <2>2. CASE HookConnect(c) BY <2>2, HookConnectStep
  <2>3. CASE Unhook(c) BY <2>3, UnhookStep
  <2>4. CASE Resolve(c) BY <2>4, ResolveStep
  <2>5. CASE Try(c) BY <2>5, TryStep
  <2>6. CASE NoneLeft(c) \/ Tell(c) \/ Pass(c) \/ Crash(c) BY <2>6, TellStep
  <2>7. CASE ReadStatus(c) BY <2>7, ReadStatusStep
  <2>8. CASE Receive(c) \/ ReceiveFails(c) BY <2>8, ReceiveStep
  <2>9. CASE HandshakeFdCb(c) \/ TimerCb(c) BY <2>9, CallbackStep
  <2>10. QED BY <2>1, <2>2, <2>3, <2>4, <2>5, <2>6, <2>7, <2>8, <2>9
         DEF Work, ChildReadCb
<1>3. QED BY <1>1, <1>2

-----------------------------------------------------------------------------

(***************************************************************************)
(* The inductive invariant of wee-hook-connect.c and wee-network.c.        *)
(***************************************************************************)
THEOREM ConnectInvariant == Spec => []IInv
<1>1. QED BY InitCorrect, NextStep, PTL DEF Spec

(***************************************************************************)
(* The variables keep their types, and the child never uses more sockets   *)
(* than its pool has (network_connect_child()).                            *)
(***************************************************************************)
THEOREM TypeCorrect == Spec => []TypeOK
<1>1. IInv => TypeOK BY DEF IInv
<1>2. QED BY <1>1, ConnectInvariant, PTL

(***************************************************************************)
(* The callback of a connection is called at most once, whatever the       *)
(* child, the timers and the owner of the hook do and in whatever order.   *)
(***************************************************************************)
THEOREM OneAnswer == Spec => []AnsweredOnce
<1>1. IInv => AnsweredOnce BY DEF IInv
<1>2. QED BY <1>1, ConnectInvariant, PTL

(***************************************************************************)
(* However a connection ends, hook_connect_free_data() closes every socket *)
(* but the one received, which the callback is told of unless the timer of *)
(* the child or the owner ended it.  An answer that is OK has its socket,  *)
(* unless network_connect_child_read_cb() lost it (recvmsg() failed, the   *)
(* child of a pool died) and no TLS session found that out.                *)
(***************************************************************************)
THEOREM SocketsAreOwned == Spec => []SocketsOwned
<1>1. IInv => SocketsOwned BY DEF IInv
<1>2. QED BY <1>1, ConnectInvariant, PTL
=============================================================================
