------------------------------ MODULE IrcServer ------------------------------
(***************************************************************************)
(* The life of the connection to one IRC server: plugins/irc/irc-server.c, *)
(* the commands /connect, /disconnect and /reconnect (irc-command.c), the  *)
(* messages that move the connection (irc-protocol.c), the timers, and     *)
(* /upgrade (irc.c, irc-upgrade.c).                                        *)
(*                                                                         *)
(* `server' is the struct t_irc_server.  The functions of irc-server.c are *)
(* operators on it; each handler of the event loop is an action.  A chunk  *)
(* of data read on the socket becomes a queue of messages, and a command   *)
(* run by a callback may come between two of them.  A time is abstracted   *)
(* to whether it is set; a timer that is armed may fire at any moment the  *)
(* main loop is free.                                                      *)
(***************************************************************************)
EXTENDS Naturals, FiniteSets

CONSTANTS
  Addresses,         \* addresses_count, the same for the whole run
  MaxRetry,          \* bound: current_retry stays there once it is reached
  MaxBatch,          \* bound: messages in one chunk of data
  Caps,              \* the capabilities of the server
  SASL_FAIL,         \* the values that the option sasl_fail may take
  AUTORECONNECT,     \* option autoreconnect
  AUTORECONNECT_DELAY, DELAY_GROWING, DELAY_MAX,
  Events             \* what may happen besides the ordinary, see AllEvents

(***************************************************************************)
(* config_error: irc_server_connect() finds no address, proxy or nick;     *)
(* sync_failure: hook_connect() calls its callback before it returns (pipe,*)
(* fork or TLS initialisation failed); connect_in_login: /connect while the*)
(* message 001 is awaited; upgrade: /upgrade.                              *)
(***************************************************************************)
AllEvents == {"config_error", "sync_failure", "connect_in_login", "upgrade"}

ASSUME ServerAssumption ==
  /\ Addresses \in Nat \ {0}
  /\ MaxRetry \in Nat
  /\ MaxBatch \in Nat
  /\ AUTORECONNECT \in BOOLEAN
  /\ AUTORECONNECT_DELAY \in Nat \ {0}
  /\ DELAY_GROWING \in Nat \ {0}
  /\ DELAY_MAX \in Nat /\ DELAY_MAX >= AUTORECONNECT_DELAY
  /\ SASL_FAIL \subseteq {"continue", "reconnect", "disconnect"}
  /\ Events \subseteq AllEvents

VARIABLES
  server,     \* the struct t_irc_server
  msgq,       \* irc_recv_msgq: how many messages are left to handle
  started     \* the timer of irc_server_auto_connect() has fired

vars == <<server, msgq, started>>

Index == 0 .. Addresses - 1

(***************************************************************************)
(* sock stands for sock # -1 and for hook_fd, which are set and reset      *)
(* together.  hook_connect is "freed" when it points to a hook that is no  *)
(* more.  The last fields are history: `wants' tells that the user asked   *)
(* for this server and did not leave it; `offered' and `acked' are the     *)
(* capabilities that the server offers and enabled on this connection;     *)
(* `sasl_done' tells that it ended the SASL authentication; `fails' counts *)
(* the failures charged to each address.                                   *)
(***************************************************************************)
Server ==
  [hook_connect: {"none", "pending", "freed"},
   sock: BOOLEAN, hook_timer_connection: BOOLEAN, hook_timer_sasl: BOOLEAN,
   is_connected: BOOLEAN, ssl_connected: BOOLEAN, gnutls_sess: BOOLEAN,
   disconnected: BOOLEAN, lag_check: BOOLEAN,
   cap_ls: SUBSET Caps, checking_cap_ls: BOOLEAN,
   cap_list: SUBSET Caps, checking_cap_list: BOOLEAN,
   reconnect_start: BOOLEAN, reconnect_delay: 0 .. DELAY_MAX,
   index: Index, current_retry: 0 .. MaxRetry,
   retry_array: [Index -> 0 .. MaxRetry],
   wants: BOOLEAN, offered: SUBSET Caps, acked: SUBSET Caps,
   sasl_done: BOOLEAN,
   fails: [Index -> 0 .. MaxRetry]]

NewServer ==
  [hook_connect |-> "none", sock |-> FALSE, hook_timer_connection |-> FALSE,
   hook_timer_sasl |-> FALSE, is_connected |-> FALSE,
   ssl_connected |-> FALSE, gnutls_sess |-> FALSE, disconnected |-> FALSE,
   lag_check |-> FALSE, cap_ls |-> {}, checking_cap_ls |-> FALSE,
   cap_list |-> {}, checking_cap_list |-> FALSE, reconnect_start |-> FALSE,
   reconnect_delay |-> 0, index |-> 0, current_retry |-> 0,
   retry_array |-> [i \in Index |-> 0],
   wants |-> FALSE, offered |-> {}, acked |-> {}, sasl_done |-> FALSE,
   fails |-> [i \in Index |-> 0]]

Init == server = NewServer /\ msgq = 0 /\ started = FALSE

TypeOK == server \in Server /\ msgq \in 0 .. MaxBatch /\ started \in BOOLEAN
-----------------------------------------------------------------------------
(* The functions of irc-server.c. *)

CloseConnection_KeepsSaslTimer(s) ==     \* faulty: forgets a timer
  [s EXCEPT !.hook_timer_connection = FALSE, !.sock = FALSE,
            !.hook_connect = "none", !.is_connected = FALSE,
            !.ssl_connected = FALSE, !.offered = {}, !.acked = {},
            !.sasl_done = FALSE]

CloseConnection(s) ==
  [s EXCEPT !.hook_timer_connection = FALSE, !.hook_timer_sasl = FALSE,
            !.sock = FALSE, !.hook_connect = "none",
            !.gnutls_sess = @ /\ ~ (s.hook_connect = "none" /\ s.ssl_connected),
            !.is_connected = FALSE, !.ssl_connected = FALSE,
            !.offered = {}, !.acked = {}, !.sasl_done = FALSE]

GrowDelay_Uncapped(d) ==     \* faulty: no maximum
  IF d = 0 THEN AUTORECONNECT_DELAY ELSE d * DELAY_GROWING

GrowDelay_Multiplies(d) ==   \* faulty: zero stays zero
  IF d * DELAY_GROWING > DELAY_MAX THEN DELAY_MAX ELSE d * DELAY_GROWING

GrowDelay(d) ==
  LET grown == IF d = 0 THEN AUTORECONNECT_DELAY ELSE d * DELAY_GROWING
  IN  IF grown > DELAY_MAX THEN DELAY_MAX ELSE grown

Unscheduled(s) == [s EXCEPT !.reconnect_delay = 0, !.reconnect_start = FALSE]

ReconnectSchedule(s) ==
  IF AUTORECONNECT
  THEN [s EXCEPT !.reconnect_delay = GrowDelay(@), !.reconnect_start = TRUE]
  ELSE Unscheduled(s)

(***************************************************************************)
(* irc_server_set_index_current_address(): the retry count of the address  *)
(* that is left is put aside, and that of the new one taken.               *)
(***************************************************************************)
SetIndex_Forgets(s, i) ==     \* faulty: the count is not put aside
  [s EXCEPT !.index = i, !.current_retry = s.retry_array[i]]

SetIndex(s, i) ==
  LET stored == [s.retry_array EXCEPT ![s.index] = s.current_retry]
  IN  [s EXCEPT !.retry_array = stored, !.index = i, !.current_retry = stored[i]]

(* irc_server_switch_address (server, 0) *)
NextAddress(s) ==
  IF Addresses > 1 THEN SetIndex(s, (s.index + 1) % Addresses) ELSE s

(***************************************************************************)
(* The part of irc_server_connect() that opens: close what is open, then   *)
(* start with a TLS session or without.                                    *)
(***************************************************************************)
Opened_SessionFirst(s, ssl) ==     \* faulty: closes after it has opened
  [CloseConnection([s EXCEPT !.ssl_connected = ssl, !.gnutls_sess = ssl])
     EXCEPT !.ssl_connected = ssl]

Opened(s, ssl) ==
  [CloseConnection(s) EXCEPT !.ssl_connected = ssl,
                             !.gnutls_sess = @ \/ ssl]

(* A failure told to irc_server_connect_cb(); `charged': current_retry++. *)
Bump(n) == IF n < MaxRetry THEN n + 1 ELSE n

Failed(s, charged) ==
  LET c == CloseConnection([s EXCEPT !.hook_connect = "none"])
  IN  IF charged
      THEN [c EXCEPT !.current_retry = Bump(@), !.fails[s.index] = Bump(@)]
      ELSE c

(***************************************************************************)
(* What irc_server_connect() may do, with its answer (ok).  When           *)
(* hook_connect() fails at once, its callback schedules a reconnection and *)
(* the pointer it returns afterwards is stored all the same.               *)
(***************************************************************************)
Connects(s) ==
  LET a == SetIndex([s EXCEPT !.disconnected = FALSE], s.index) IN
     {[ok |-> TRUE, server |-> [Opened(a, ssl) EXCEPT !.hook_connect = "pending"]] :
         ssl \in BOOLEAN}
  \cup {[ok |-> FALSE, server |-> a] :
          e \in Events \cap {"config_error"}}
  \cup {[ok |-> TRUE,
         server |-> [ReconnectSchedule(Failed(Opened(a, ssl), charged))
                       EXCEPT !.hook_connect = "freed"]] :
          ssl \in BOOLEAN, charged \in BOOLEAN,
          e \in Events \cap {"sync_failure"}}

(***************************************************************************)
(* irc_server_switch_address (server, 1): try the next address, or wait    *)
(* when all were tried.  The answer of irc_server_connect() is ignored.    *)
(***************************************************************************)
SwitchAddress_NeverWaits(s) ==     \* faulty: no schedule after the last one
  IF Addresses > 1 /\ NextAddress(s).index # 0
  THEN {c.server : c \in Connects(NextAddress(s))} ELSE {NextAddress(s)}

SwitchAddress(s) ==
  IF Addresses > 1 /\ NextAddress(s).index # 0
  THEN {c.server : c \in Connects(NextAddress(s))}
  ELSE {ReconnectSchedule(NextAddress(s))}

(* What irc_server_disconnect() resets besides the connection. *)
ResetSession_KeepsCaps(s) ==     \* faulty
  [s EXCEPT !.lag_check = FALSE, !.disconnected = TRUE]

ResetSession(s) ==
  [s EXCEPT !.cap_ls = {}, !.checking_cap_ls = FALSE,
            !.cap_list = {}, !.checking_cap_list = FALSE,
            !.lag_check = FALSE, !.disconnected = TRUE]

Disconnect(s, switch_address, reconnect) ==
  LET c == [CloseConnection(s) EXCEPT !.current_retry = 0,
                                      !.fails[s.index] = 0,
                                      !.wants = @ /\ reconnect]
      a == IF switch_address THEN NextAddress(c) ELSE SetIndex(c, 0)
  IN  IF reconnect THEN ReconnectSchedule(ResetSession(a))
                   ELSE Unscheduled(ResetSession(a))

(* irc_server_login(), after hook_fd() *)
Login_Untimed(s) ==     \* faulty: no connection timer
  [s EXCEPT !.hook_connect = "none", !.sock = TRUE]

Login(s) ==
  [s EXCEPT !.hook_connect = "none", !.sock = TRUE,
            !.hook_timer_connection = TRUE]
-----------------------------------------------------------------------------
(* The commands of the user, and of callbacks. *)

(***************************************************************************)
(* irc_server_auto_connect_timer_cb(), once, when the program starts.      *)
(***************************************************************************)
AutoConnect ==
  /\ ~started
  /\ started' = TRUE
  /\ \/ UNCHANGED server            \* option autoconnect is off
     \/ \E c \in Connects(server) :
          LET s == [c.server EXCEPT !.wants = TRUE]
          IN  server' = IF c.ok THEN s ELSE ReconnectSchedule(s)
  /\ UNCHANGED msgq

(* What follows irc_server_connect() in /connect and /reconnect. *)
Asked(c) ==
  IF c.ok THEN [Unscheduled(c.server) EXCEPT !.wants = TRUE] ELSE c.server

UserConnect(switch_address) ==
  /\ started
  /\ ~server.is_connected
  /\ server.hook_connect = "none"
  /\ server.sock => "connect_in_login" \in Events
  /\ \E c \in Connects(IF switch_address THEN NextAddress(server) ELSE server) :
        server' = Asked(c)
  /\ UNCHANGED <<msgq, started>>

UserDisconnect ==
  /\ started
  /\ \/ server.is_connected \/ server.sock \/ server.reconnect_start
     \/ server.hook_connect # "none"
  /\ server' = Disconnect(server, FALSE, FALSE)
  /\ UNCHANGED <<msgq, started>>

UserReconnect(switch_address) ==
  /\ started
  /\ LET active == \/ server.is_connected \/ server.sock
                   \/ server.hook_connect # "none"
         s == IF active THEN Disconnect(server, switch_address, FALSE)
              ELSE IF switch_address THEN NextAddress(server) ELSE server
     IN  \E c \in Connects(s) : server' = Asked(c)
  /\ UNCHANGED <<msgq, started>>

(* irc_buffer_close_cb(), for the buffer of the server *)
BufferClose ==
  /\ started
  /\ server' = [Unscheduled(IF server.disconnected THEN server
                            ELSE Disconnect(server, FALSE, FALSE))
                  EXCEPT !.wants = FALSE]
  /\ UNCHANGED <<msgq, started>>
-----------------------------------------------------------------------------
(* The main loop: the connection hook, the socket and the timers. *)

Idle == started /\ msgq = 0

(***************************************************************************)
(* irc_server_connect_cb(): the answers after which the next address is    *)
(* tried, those that wait, and those charged to the address.               *)
(***************************************************************************)
ConnectOk ==
  /\ Idle
  /\ server.hook_connect = "pending"
  /\ server' = Login(server)
  /\ UNCHANGED <<msgq, started>>

ConnectFails(charged) ==
  /\ Idle
  /\ server.hook_connect = "pending"
  /\ \/ server' \in SwitchAddress(Failed(server, charged))
     \/ server' = ReconnectSchedule(Failed(server, charged))
  /\ UNCHANGED <<msgq, started>>

(***************************************************************************)
(* irc_server_recv_cb(): n messages are read, or the connection is lost;   *)
(* with TLS the loop may see both.                                         *)
(***************************************************************************)
Receive(n, lost) ==
  /\ Idle
  /\ server.sock
  /\ n > 0 \/ lost
  /\ n > 0 /\ lost => server.ssl_connected
  /\ msgq' = n
  /\ server' = IF lost THEN Disconnect(server, ~server.is_connected, TRUE)
               ELSE server
  /\ UNCHANGED started

TimerConnection ==
  /\ Idle
  /\ server.hook_timer_connection
  /\ LET s == [server EXCEPT !.hook_timer_connection = FALSE]
     IN  server' = IF s.is_connected THEN s ELSE Disconnect(s, TRUE, TRUE)
  /\ UNCHANGED <<msgq, started>>

(* The option sasl_fail, for the three places where SASL may fail. *)
SaslFails(s, sasl_fail) ==
  IF sasl_fail = "continue" THEN s
  ELSE Disconnect(s, FALSE, sasl_fail = "reconnect")

TimerSasl ==
  /\ Idle
  /\ server.hook_timer_sasl
  /\ LET s == [server EXCEPT !.hook_timer_sasl = FALSE]
     IN  \E f \in SASL_FAIL :
           server' = IF s.is_connected THEN s ELSE SaslFails(s, f)
  /\ UNCHANGED <<msgq, started>>

(* irc_server_timer_cb(), each second *)
Reconnect(s) ==
  {IF c.ok THEN c.server ELSE ReconnectSchedule(c.server) :
     c \in Connects([s EXCEPT !.reconnect_start = FALSE])}

TimerReconnect ==
  /\ Idle
  /\ ~server.is_connected
  /\ server.reconnect_start
  /\ server' \in Reconnect(server)
  /\ UNCHANGED <<msgq, started>>

TimerLag ==
  /\ Idle
  /\ server.is_connected
  /\ \/ ~server.lag_check /\ server' = [server EXCEPT !.lag_check = TRUE]
     \/ server.lag_check /\ server' = [server EXCEPT !.lag_check = FALSE]
     \/ server.lag_check /\ server' = Disconnect(server, FALSE, TRUE)
  /\ UNCHANGED <<msgq, started>>

(***************************************************************************)
(* /upgrade: refused during a connection hook.  The servers connected with *)
(* TLS are disconnected; then the process is replaced, and what            *)
(* irc_upgrade_save() wrote is all that is left: not that a list of        *)
(* capabilities was being read, the rest of which then replaces its start. *)
(***************************************************************************)
Upgrade ==
  /\ started
  /\ "upgrade" \in Events
  /\ server.hook_connect # "pending"
  /\ LET s == IF server.is_connected /\ server.ssl_connected
              THEN [Disconnect(server, FALSE, FALSE) EXCEPT
                      !.index = 0, !.reconnect_delay = AUTORECONNECT_DELAY,
                      !.reconnect_start = TRUE, !.wants = server.wants]
              ELSE server
     IN  server' = [s EXCEPT !.hook_connect = "none",
                             !.hook_timer_connection = FALSE,
                             !.hook_timer_sasl = FALSE,
                             !.gnutls_sess = FALSE,
                             !.checking_cap_ls = FALSE,
                             !.checking_cap_list = FALSE,
                             !.current_retry = 0,
                             !.retry_array = [i \in Index |-> 0],
                             !.fails = [i \in Index |-> 0]]
  /\ msgq' = 0
  /\ UNCHANGED started
-----------------------------------------------------------------------------
(* irc_server_msgq_flush(): the messages read, while the socket is open. *)

CanHandle == server.sock

Handling == started /\ msgq > 0 /\ CanHandle

Message001 ==
  /\ Handling
  /\ server' = [server EXCEPT !.is_connected = TRUE, !.reconnect_delay = 0,
                              !.hook_timer_connection = FALSE]

(* ERROR :Closing Link *)
MessageError ==
  /\ Handling
  /\ server' = Disconnect(server, ~server.is_connected, TRUE)

(***************************************************************************)
(* CAP LS, in one message or several; after the last one, when not yet     *)
(* connected, irc_protocol_cap_sync (server, 1): SASL may be wanted and    *)
(* not offered, or seem to be enabled already.                             *)
(***************************************************************************)
Listed(caps, checking, part) == (IF checking THEN caps ELSE {}) \cup part

MessageCapLs(part, last) ==
  /\ Handling
  /\ LET s == [server EXCEPT !.cap_ls = Listed(@, server.checking_cap_ls, part),
                             !.offered = Listed(@, server.checking_cap_ls, part),
                             !.checking_cap_ls = ~last]
     IN  \/ server' = s
         \/ /\ last /\ ~s.is_connected
            /\ "sasl" \notin s.cap_ls \ s.cap_list
            /\ \E f \in SASL_FAIL : server' = SaslFails(s, f)

(* CAP LIST: the capabilities enabled, in one message or several *)
MessageCapList(part, last) ==
  /\ Handling
  /\ server' =
       [server EXCEPT !.cap_list = Listed(@, server.checking_cap_list, part),
                      !.acked = Listed(@, server.checking_cap_list, part),
                      !.checking_cap_list = ~last]

MessageCapAck(enabled, removed) ==
  /\ Handling
  /\ server' =
       [server EXCEPT !.cap_list = (@ \ removed) \cup enabled,
                      !.acked = (@ \ removed) \cup enabled,
                      !.hook_timer_sasl = @ \/ "sasl" \in enabled,
                      !.sasl_done = @ /\ "sasl" \notin enabled]

(* CAP NEW, CAP DEL *)
MessageCapNew(added) ==
  /\ Handling
  /\ server' = [server EXCEPT !.cap_ls = @ \cup added, !.offered = @ \cup added]

MessageCapDel(removed) ==
  /\ Handling
  /\ server' = [server EXCEPT !.cap_ls = @ \ removed, !.cap_list = @ \ removed,
                              !.offered = @ \ removed, !.acked = @ \ removed]

(* 903, 907: CAP END is sent, nothing else *)
MessageSaslOk ==
  /\ Handling
  /\ server' = [server EXCEPT !.sasl_done = TRUE]

(* 902, 904, 905, 906 *)
MessageSaslFail ==
  /\ Handling
  /\ \E f \in SASL_FAIL :
       server' = SaslFails([server EXCEPT !.sasl_done = TRUE], f)

MessagePong ==
  /\ Handling
  /\ server' = [server EXCEPT !.lag_check = FALSE]

(* Any other message, or one that arrives after the socket was closed. *)
MessageOther == started /\ msgq > 0 /\ UNCHANGED server

HandleMessage ==
  /\ \/ Message001 \/ MessageError \/ MessageSaslOk \/ MessageSaslFail
     \/ MessagePong \/ MessageOther
     \/ \E c \in SUBSET Caps, last \in BOOLEAN :
          MessageCapLs(c, last) \/ MessageCapList(c, last)
     \/ \E c, d \in SUBSET Caps : MessageCapAck(c, d)
     \/ \E c \in SUBSET Caps : MessageCapNew(c) \/ MessageCapDel(c)
  /\ msgq' = msgq - 1
  /\ UNCHANGED started
-----------------------------------------------------------------------------
Commands ==
  \/ AutoConnect \/ UserDisconnect \/ BufferClose \/ Upgrade
  \/ \E sw \in BOOLEAN : UserConnect(sw) \/ UserReconnect(sw)

ConnectAnswer == ConnectOk \/ \E charged \in BOOLEAN : ConnectFails(charged)

MainLoop ==
  \/ ConnectAnswer
  \/ \E n \in 0 .. MaxBatch, lost \in BOOLEAN : Receive(n, lost)
  \/ TimerConnection \/ TimerSasl \/ TimerReconnect \/ TimerLag

Next == Commands \/ MainLoop \/ HandleMessage

Spec == Init /\ [][Next]_vars

(***************************************************************************)
(* The main loop runs the due timers at every turn, whatever it receives   *)
(* in between; hook_connect() always answers, by its own timer if need be; *)
(* a queue of messages is always handled to its end.                       *)
(***************************************************************************)
Fairness ==
  /\ WF_vars(AutoConnect)
  /\ WF_vars(HandleMessage)
  /\ SF_vars(ConnectAnswer)
  /\ SF_vars(TimerConnection)
  /\ SF_vars(TimerReconnect)

FairSpec == Spec /\ Fairness
-----------------------------------------------------------------------------
(***************************************************************************)
(* Between the opening of the socket and the message 001 the connection    *)
(* timer is armed: a server that stays silent is given up.                 *)
(***************************************************************************)
LoginIsTimed ==
  (server.sock /\ ~server.is_connected) => server.hook_timer_connection

(***************************************************************************)
(* While the user wants the server and autoreconnect is on, something is   *)
(* under way: the connection is up, an attempt is pending, a timer guards  *)
(* the login, or a reconnection is scheduled.  No sequence of failures,    *)
(* switches of address and commands leaves the server forgotten.           *)
(***************************************************************************)
NeverForgotten ==
  (AUTORECONNECT /\ server.wants) =>
     \/ server.is_connected
     \/ server.hook_connect = "pending"
     \/ server.sock /\ server.hook_timer_connection
     \/ server.reconnect_start

(***************************************************************************)
(* There is one attempt at a time: a reconnection is never scheduled while *)
(* a connection is pending or open (the timer would cut it), and no        *)
(* connection hook is pending while a socket is open.                      *)
(***************************************************************************)
OneAttempt ==
  /\ server.reconnect_start => server.hook_connect # "pending" /\ ~server.sock
  /\ server.hook_connect = "pending" => ~server.sock

(***************************************************************************)
(* cap_list ("list of enabled capabilities" in irc-server.h) and cap_ls    *)
(* hold what the server said on this connection, never what another one    *)
(* offered or enabled.                                                     *)
(***************************************************************************)
CapListIsCurrent ==
  server.sock => server.cap_list = server.acked /\ server.cap_ls = server.offered

(***************************************************************************)
(* A timer of a connection does not outlive it: it would disconnect the    *)
(* next one.                                                               *)
(***************************************************************************)
TimersBelong ==
  (server.hook_timer_connection \/ server.hook_timer_sasl) => server.sock

(***************************************************************************)
(* is_connected implies an open socket, even when a chunk of messages ends *)
(* the connection half-way (ERROR) and goes on (001).                      *)
(***************************************************************************)
ConnectedHasSocket == server.is_connected => server.sock

(***************************************************************************)
(* One link at a time, whatever fails and in whatever order: one attempt,  *)
(* timers of that attempt, and a connection only with its socket           *)
(* (irc_server_close_connection() and irc_server_connect()).               *)
(***************************************************************************)
OneLink == OneAttempt /\ TimersBelong /\ ConnectedHasSocket

(***************************************************************************)
(* A socket that is read with TLS has a session.                           *)
(***************************************************************************)
TlsHasSession == (server.sock /\ server.ssl_connected) => server.gnutls_sess

(***************************************************************************)
(* Each address keeps its own retry count, whatever the order in which     *)
(* they are tried: it selects the next IP of the address.                  *)
(***************************************************************************)
RetryPerAddress ==
  \A i \in Index :
     server.fails[i] = IF i = server.index THEN server.current_retry
                       ELSE server.retry_array[i]

(***************************************************************************)
(* A reconnection is scheduled with a delay: at least the first one, at    *)
(* most the maximum.                                                       *)
(***************************************************************************)
DelayIsBounded ==
  server.reconnect_start =>
     server.reconnect_delay \in AUTORECONNECT_DELAY .. DELAY_MAX

(***************************************************************************)
(* Rounds of addresses end and begin again, soon but not at once: each     *)
(* address keeps its retry count, each round comes after its delay.        *)
(***************************************************************************)
RetriesAreBounded == RetryPerAddress /\ DelayIsBounded

(***************************************************************************)
(* The SASL timer does not fire once the server has ended the SASL         *)
(* authentication on this connection ("if SASL authentication is OK or     *)
(* failed, then hook timer is removed before this callback is called").    *)
(***************************************************************************)
NoLateSaslTimeout == [][TimerSasl => ~server.sasl_done]_vars

(***************************************************************************)
(* A server that the user wants is always tried again: it is connected, or *)
(* an attempt begins, as long as the user does not leave it.               *)
(***************************************************************************)
KeepsTrying ==
  (AUTORECONNECT /\ server.wants) ~>
     (~server.wants \/ server.is_connected \/ server.hook_connect = "pending")
=============================================================================
