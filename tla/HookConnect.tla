----------------------------- MODULE HookConnect -----------------------------
(***************************************************************************)
(* Connections to a peer (core/hook/wee-hook-connect.c, core/wee-network.c)*)
(* as IrcServer asks for them: a child process resolves the name, tries    *)
(* the addresses and passes the socket; the parent reads its answer and    *)
(* may then have to wait for a TLS handshake.  Timers bound both.          *)
(*                                                                         *)
(* A callback is called with the answer, and the hook is removed.          *)
(***************************************************************************)
EXTENDS Integers, Sequences

CONSTANTS
  Conn,           \* the connections that are asked for
  MaxAddresses,   \* bound: addresses of a name
  Pools,          \* how many sockets the child gets, if hook_socketpair_ok
                  \* is 0; or 0: it makes them
  Tls,            \* values of "with a session of GnuTLS"
  Proxies,        \* values of "with a proxy"
  Faults          \* "fork": pipe(), socketpair(), fork() or GnuTLS fail;
                  \* "crash": the child ends in the middle of its work;
                  \* "recv": recvmsg() fails, or brings no descriptor

ASSUME ConnectAssumption ==
  /\ MaxAddresses \in Nat
  /\ Pools \subseteq Nat /\ Pools # {}
  /\ Tls \subseteq BOOLEAN /\ Proxies \subseteq BOOLEAN
  /\ Faults \subseteq {"fork", "crash", "recv"}

VARIABLES
  conn,           \* the data of each hook
  child,          \* its child process and what is in the pipes
  open,           \* sockets of the connection that are open in WhoreIRC
  blocked,        \* the connection, if any, whose socket is awaited, in
                  \* recvmsg() or, with a pool, in read()
  answers         \* history: the calls of the callback of each

vars == <<conn, child, open, blocked, answers>>

\* The sockets of the pool, or the one that the child makes, called 1.
Socket == Nat \ {0}

HookKind == {"child_timer", "fd", "handshake_fd", "handshake_timer"}

(***************************************************************************)
(* WHOREIRC_HOOK_CONNECT_*; those of the addresses that failed are kept    *)
(* until the last was tried.                                               *)
(***************************************************************************)
AddressStatus == {"ip_address_not_found", "connection_refused",
                  "local_hostname_error", "socket_error"}

Status == AddressStatus \union {"ok", "address_not_found", "proxy_error",
            "gnutls_init_error", "gnutls_handshake_error", "memory_error", "timeout"}

(***************************************************************************)
(* state: "new", "waits" (for the child), "handshake", or "freed"; hooks:  *)
(* the timers and descriptors hooked; sock: the socket received, or 0.     *)
(***************************************************************************)
ConnData == [state: {"new", "waits", "handshake", "freed"}, tls: BOOLEAN,
             proxy: BOOLEAN, pool: Pools, hooks: SUBSET HookKind,
             sock: Socket \union {0}]

(***************************************************************************)
(* step: what the child does next, "none" before fork(), "ended" until it  *)
(* is waited for; left: addresses to try; used: sockets of the pool used;  *)
(* sock: the one connected; pipe: the status not read yet, or "empty";     *)
(* passed: the socket not received yet, or 0.                              *)
(***************************************************************************)
ChildData == [step: {"none", "resolve", "try", "tell", "pass", "ended", "gone"},
              left: 0 .. MaxAddresses, used: Nat, sock: Socket \union {0},
              status: Status, pipe: Status \union {"empty"},
              passed: Socket \union {0}]

Answer == [status: Status, sock: Socket \union {0}]

Init ==
  /\ \E n \in Pools :
       conn \in [Conn -> [state: {"new"}, tls: Tls, proxy: Proxies, pool: {n},
                          hooks: {{}}, sock: {0}]]
  /\ child = [c \in Conn |-> [step |-> "none", left |-> 0, used |-> 0, sock |-> 0,
                              status |-> "ip_address_not_found",
                              pipe |-> "empty", passed |-> 0]]
  /\ open = [c \in Conn |-> {}]
  /\ blocked = {}
  /\ answers = [c \in Conn |-> <<>>]

LoopRuns == blocked = {}

-----------------------------------------------------------------------------
(* The answer and the end                                                  *)

\* Mutant: the timer of the handshake is not unhooked.
FreedHooks_ButHandshake(S) == S \intersect {"handshake_timer"}

\* The hooks that are left when the data of a hook is freed.
FreedHooks(S) == {}

\* Mutant: the socket received is closed with the rest of the pool.
Kept_None(S, s) == {}

\* The sockets that are not closed: the one received is taken out of the
\* pool, and the field `sock' is not closed.
Kept(S, s) == S \intersect {s}

\* hook_connect_free_data(), `s' being the socket received, or 0.
Free(c, s) ==
  /\ conn' = [conn EXCEPT ![c].state = "freed", ![c].sock = s,
                          ![c].hooks = FreedHooks(@)]
  /\ child' = [child EXCEPT ![c].step = IF @ = "none" THEN "none" ELSE "gone",
                            ![c].pipe = "empty", ![c].passed = 0]
  /\ open' = [open EXCEPT ![c] = Kept(@ \union ({s} \ {0}), s)]

\* The callback, which is told of one socket or of none, then unhook().
Call(c, status, told, s) ==
  /\ answers' = [answers EXCEPT ![c] = Append(@, [status |-> status, sock |-> told])]
  /\ Free(c, s)

\* The owner removes the hook.
Unhook(c) ==
  /\ LoopRuns /\ conn[c].state \in {"waits", "handshake"}
  /\ Free(c, conn[c].sock)
  /\ UNCHANGED <<blocked, answers>>

-----------------------------------------------------------------------------
(* hook_connect() and network_connect_with_fork(): a failure calls the     *)
(* callback before hook_connect() returns.                                 *)

Refused(c) ==
  /\ LoopRuns /\ conn[c].state = "new" /\ "fork" \in Faults
  /\ \/ conn[c].tls /\ Call(c, "gnutls_init_error", 0, 0)
     \/ Call(c, "memory_error", 0, 0)
  /\ UNCHANGED blocked

\* Mutant: no timer for the child.
FirstHooks_FdOnly == {"fd"}

FirstHooks == {"child_timer", "fd"}

Forked(c) ==
  /\ LoopRuns /\ conn[c].state = "new"
  /\ conn' = [conn EXCEPT ![c].state = "waits", ![c].hooks = FirstHooks]
  /\ child' = [child EXCEPT ![c].step = "resolve"]
  /\ open' = [open EXCEPT ![c] = 1 .. conn[c].pool]
  /\ UNCHANGED <<blocked, answers>>

HookConnect(c) == Refused(c) \/ Forked(c)

-----------------------------------------------------------------------------
(* network_connect_child()                                                 *)

ChildStep(c) == UNCHANGED <<conn, open, blocked, answers>>

\* The proxy, the name of the peer, then that of our side.
Resolve(c) ==
  /\ child[c].step = "resolve"
  /\ \/ \E st \in {"address_not_found", "local_hostname_error",
                  "proxy_error", "memory_error"} :
          /\ st = "proxy_error" => conn[c].proxy
          /\ child' = [child EXCEPT ![c].step = "tell", ![c].status = st]
     \/ \E n \in 0 .. MaxAddresses :
          child' = [child EXCEPT ![c].step = "try", ![c].left = n]
  /\ ChildStep(c)

\* Mutant: one socket more than the pool has.
HasSocket_OneMore(k, pool) == pool = 0 \/ k.used <= pool

HasSocket(k, pool) == pool = 0 \/ k.used < pool

\* Each failure replaces the status of the one before; a pool that has no
\* socket left does not.
Try(c) ==
  LET k == child[c]
      pool == conn[c].pool
      tried == [k EXCEPT !.left = @ - 1, !.used = IF pool = 0 THEN 0 ELSE @ + 1]
      Becomes(st, sock, step) ==
        child' = [child EXCEPT ![c] = [tried EXCEPT !.status = st, !.sock = sock,
                                                    !.step = step]]
  IN
  /\ k.step = "try" /\ k.left > 0
  /\ \/ /\ ~HasSocket(k, pool)
        /\ child' = [child EXCEPT ![c].left = @ - 1]
     \/ /\ pool = 0
        /\ Becomes("socket_error", 0, "try")
     \/ /\ HasSocket(k, pool)
        /\ \/ \E st \in {"local_hostname_error", "connection_refused"} :
                Becomes(st, 0, "try")
           \/ Becomes("ok", IF pool = 0 THEN 1 ELSE k.used + 1, "tell")
           \/ conn[c].proxy /\ Becomes("proxy_error", 0, "tell")
  /\ ChildStep(c)

NoneLeft(c) ==
  /\ child[c].step = "try" /\ child[c].left = 0
  /\ child' = [child EXCEPT ![c].step = "tell"]
  /\ ChildStep(c)

\* One write() of the status and its text.
Tell(c) ==
  /\ child[c].step = "tell"
  /\ child' = [child EXCEPT ![c].pipe = child[c].status,
                            ![c].step = IF child[c].status = "ok" THEN "pass"
                                        ELSE "ended"]
  /\ ChildStep(c)

\* sendmsg(), or the number of the socket in the pipe
Pass(c) ==
  /\ child[c].step = "pass"
  /\ child' = [child EXCEPT ![c].step = "ended", ![c].passed = child[c].sock]
  /\ ChildStep(c)

Crash(c) ==
  /\ "crash" \in Faults /\ child[c].step \in {"resolve", "try", "tell", "pass"}
  /\ child' = [child EXCEPT ![c].step = "ended"]
  /\ ChildStep(c)

Work(c) == Resolve(c) \/ Try(c) \/ NoneLeft(c) \/ Tell(c) \/ Pass(c)

-----------------------------------------------------------------------------
(* network_connect_child_read_cb()                                         *)

Hooked(c, h) == h \in conn[c].hooks

\* The status is read; an error is the answer, and after OK the socket is
\* waited for, with no limit of time.
ReadStatus(c) ==
  /\ LoopRuns /\ Hooked(c, "fd")
  /\ \/ /\ child[c].pipe = "ok"
        /\ blocked' = {c}
        /\ child' = [child EXCEPT ![c].pipe = "empty"]
        /\ UNCHANGED <<conn, open, answers>>
     \/ /\ child[c].pipe \notin {"empty", "ok"}
        /\ Call(c, child[c].pipe, 0, 0)
        /\ UNCHANGED blocked
     \/ /\ child[c].pipe = "empty" /\ child[c].step = "ended"
        /\ Call(c, "memory_error", 0, 0)
        /\ UNCHANGED blocked

(***************************************************************************)
(* The rest of the callback, `s' being the socket received, or 0 (the -1   *)
(* of the code).  A TLS handshake that would block goes on later; with no  *)
(* socket it fails at once.  Without TLS the answer is OK in both cases.   *)
(***************************************************************************)
GoOn(c, s) ==
  /\ blocked' = {}
  /\ \/ (s # 0 \/ ~conn[c].tls) /\ Call(c, "ok", s, s)
     \/ conn[c].tls /\ Call(c, "gnutls_handshake_error", s, s)
     \/ /\ s # 0 /\ conn[c].tls
        /\ conn' = [conn EXCEPT ![c].state = "handshake", ![c].sock = s,
             ![c].hooks = (@ \ {"fd"}) \union {"handshake_fd", "handshake_timer"}]
        /\ child' = [child EXCEPT ![c].passed = 0]
        /\ open' = [open EXCEPT ![c] = @ \union {s}]
        /\ UNCHANGED answers

\* Mutant: the parent keeps its end of the pipe, which then has no end.
AtEnd_Never(c) == FALSE

\* Of the child the pipe has no more writer: read() returns 0.
AtEnd(c) == child[c].step = "ended" /\ child[c].passed = 0 /\ conn[c].pool # 0

\* recvmsg() or read() returns what the child passed, or nothing at the end
\* of the pipe.
Receive(c) ==
  /\ blocked = {c} /\ (child[c].passed # 0 \/ AtEnd(c))
  /\ GoOn(c, child[c].passed)

\* recvmsg() fails, or the descriptor is lost (none is free): -1 is kept.
ReceiveFails(c) ==
  /\ blocked = {c} /\ conn[c].pool = 0 /\ "recv" \in Faults
  /\ GoOn(c, 0)

ChildReadCb(c) == ReadStatus(c) \/ Receive(c)

HandshakeSocket(c) == conn[c].sock

\* network_connect_gnutls_handshake_fd_cb(); it is called again when the
\* handshake is still not over.
HandshakeFdCb(c) ==
  /\ LoopRuns /\ Hooked(c, "handshake_fd")
  /\ \E st \in {"ok", "gnutls_handshake_error"} :
       Call(c, st, HandshakeSocket(c), conn[c].sock)
  /\ UNCHANGED blocked

-----------------------------------------------------------------------------
(* Timers                                                                  *)

\* network_connect_child_timer_cb(); it runs during the handshake too, and
\* tells the callback of no socket.
ChildTimerCb(c) ==
  /\ LoopRuns /\ Hooked(c, "child_timer")
  /\ Call(c, "timeout", 0, conn[c].sock)
  /\ UNCHANGED blocked

\* network_connect_gnutls_handshake_timer_cb()
HandshakeTimerCb(c) ==
  /\ LoopRuns /\ Hooked(c, "handshake_timer")
  /\ Call(c, "gnutls_handshake_error", HandshakeSocket(c), conn[c].sock)
  /\ UNCHANGED blocked

TimerCb(c) == ChildTimerCb(c) \/ HandshakeTimerCb(c)

-----------------------------------------------------------------------------

Next ==
  \E c \in Conn :
    \/ HookConnect(c) \/ Unhook(c)
    \/ Work(c) \/ Crash(c)
    \/ ChildReadCb(c) \/ ReceiveFails(c) \/ HandshakeFdCb(c) \/ TimerCb(c)

Spec == Init /\ [][Next]_vars

(***************************************************************************)
(* The main loop runs the timers and reads what is there, and a child that *)
(* has told its status goes on to send the socket or ends.                 *)
(***************************************************************************)
FairSpec ==
  /\ Spec
  /\ \A c \in Conn : SF_vars(TimerCb(c)) /\ WF_vars(ChildReadCb(c)) /\ WF_vars(Pass(c))

-----------------------------------------------------------------------------
(* Properties                                                              *)

(***************************************************************************)
(* The values that the variables take; the child uses no more sockets than *)
(* the pool has (HOOK_CONNECT_MAX_SOCKETS).                                *)
(***************************************************************************)
TypeOK ==
  /\ conn \in [Conn -> ConnData]
  /\ child \in [Conn -> ChildData]
  /\ \A c \in Conn : child[c].used <= conn[c].pool
  /\ open \in [Conn -> SUBSET Socket]
  /\ blocked \subseteq Conn /\ \A c, d \in blocked : c = d
  /\ answers \in [Conn -> Seq(Answer)]

(***************************************************************************)
(* What irc-server.c relies on: the callback of a connection is called     *)
(* once, never again from a timer or a descriptor left behind, and never   *)
(* when the hook was removed by its owner.                                 *)
(***************************************************************************)
AnsweredOnce ==
  \A c \in Conn :
    /\ Len(answers[c]) <= 1
    /\ conn[c].state # "freed" => answers[c] = <<>>

(***************************************************************************)
(* The socket of a connection that the child made may be lost on its way:  *)
(* recvmsg() fails, or the child of a pool ends before it tells which.     *)
(***************************************************************************)
MayLose(c) == IF conn[c].pool = 0 THEN "recv" \in Faults ELSE "crash" \in Faults

(***************************************************************************)
(* A connection that is OK comes with its socket, which is open, and the   *)
(* removal of the hook has not closed it; every other socket is closed.    *)
(* The callback is told OK and no socket only if that was lost and there   *)
(* is no TLS session to find it out; then no socket at all is left open.   *)
(***************************************************************************)
OkHasSocket ==
  \A c \in Conn : \A i \in 1 .. Len(answers[c]) :
    answers[c][i].status = "ok" =>
      /\ open[c] = {answers[c][i].sock} \ {0}
      /\ answers[c][i].sock = 0 => MayLose(c) /\ ~conn[c].tls

(***************************************************************************)
(* Every connection asked for is answered, whatever the child does, unless *)
(* it is ended by its owner or the program waits in recvmsg() for a child  *)
(* that ended between the status and the socket.  With a pool this cannot  *)
(* be: read() finds the end of the pipe.                                   *)
(***************************************************************************)
Stuck ==
  \E c \in blocked :
    conn[c].pool = 0 /\ child[c].passed = 0 /\ child[c].step = "ended"

Answered ==
  \A c \in Conn :
    conn[c].state \in {"waits", "handshake"} ~> (conn[c].state = "freed" \/ Stuck)

(***************************************************************************)
(* Whatever ends a connection, the sockets of the pool are closed: at most *)
(* the one received stays open, and the callback is told of it.  In two    *)
(* cases it is lost: when the timer of the child fires during the          *)
(* handshake, and when the owner removes the hook then.                    *)
(***************************************************************************)
NoSocketLost ==
  \A c \in Conn : conn[c].state = "freed" =>
    /\ open[c] \subseteq {conn[c].sock}
    /\ answers[c] # <<>> /\ answers[c][1].status # "timeout" =>
         open[c] \subseteq {answers[c][1].sock}

(***************************************************************************)
(* Every open socket has an owner, the callback or the hook, and an answer *)
(* that is OK has its socket, with the exceptions just named.              *)
(***************************************************************************)
SocketsOwned == OkHasSocket /\ NoSocketLost
=============================================================================
