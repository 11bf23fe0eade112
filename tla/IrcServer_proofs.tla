-------------------------- MODULE IrcServer_proofs --------------------------
(***************************************************************************)
(* Proofs about IrcServer, for any number of addresses, any bound of the   *)
(* retries and of the chunks, any capabilities and any delays.             *)
(***************************************************************************)
EXTENDS IrcServer, TLAPS

-----------------------------------------------------------------------------
(***************************************************************************)
(* The parts of the inductive invariant, as predicates on a server, so     *)
(* that the functions of irc-server.c can be composed.  The last three are *)
(* lost by the events that their first line excludes.                      *)
(***************************************************************************)
Sound(s) ==
  /\ s.reconnect_start => s.hook_connect # "pending" /\ ~s.sock
  /\ s.hook_connect = "pending" => ~s.sock
  /\ s.hook_timer_connection => s.sock
  /\ s.hook_timer_sasl => s.sock
  /\ s.is_connected => s.sock

Timed(s) ==
  "upgrade" \notin Events =>
     ((s.sock /\ ~s.is_connected) => s.hook_timer_connection)

Remembered(s) ==
  Events \subseteq {"connect_in_login"} =>
     ((AUTORECONNECT /\ s.wants) =>
        \/ s.is_connected
        \/ s.hook_connect = "pending"
        \/ s.sock /\ s.hook_timer_connection
        \/ s.reconnect_start)

Fresh(s) ==
  "connect_in_login" \notin Events =>
     /\ s.cap_list = s.acked
     /\ s.cap_ls = s.offered
     /\ ~s.sock => s.cap_list = {} /\ s.cap_ls = {}

Good(s) == s \in Server /\ Sound(s) /\ Timed(s) /\ Remembered(s) /\ Fresh(s)

(***************************************************************************)
(* Until the first command nothing has happened.                           *)
(***************************************************************************)
IInv ==
  /\ Good(server)
  /\ msgq \in 0 .. MaxBatch
  /\ started \in BOOLEAN
  /\ ~started => server = NewServer

(***************************************************************************)
(* A server without socket, timers and pending hook, and two servers that  *)
(* agree on all that the invariant speaks of but the schedule.             *)
(***************************************************************************)
Down(s) ==
  /\ ~s.sock
  /\ ~s.is_connected
  /\ ~s.hook_timer_connection
  /\ ~s.hook_timer_sasl

SameLink(s, t) ==
  /\ s.hook_connect = t.hook_connect
  /\ s.sock = t.sock
  /\ s.is_connected = t.is_connected
  /\ s.hook_timer_connection = t.hook_timer_connection
  /\ s.hook_timer_sasl = t.hook_timer_sasl

SameCaps(s, t) ==
  /\ s.cap_list = t.cap_list
  /\ s.cap_ls = t.cap_ls
  /\ s.offered = t.offered
  /\ s.acked = t.acked

SameWish(s, t) == s.wants = t.wants /\ s.reconnect_start = t.reconnect_start
-----------------------------------------------------------------------------
(* What the functions of irc-server.c leave and change. *)

(***************************************************************************)
(* An index is a valid one, the first as the others.                       *)
(***************************************************************************)
LEMMA IndexFacts ==
  /\ 0 \in Index
  /\ Index \subseteq Nat
  /\ \A i \in Index : (i + 1) % Addresses \in Index
  BY ServerAssumption DEF Index

(***************************************************************************)
(* The state of a server that was just allocated.                          *)
(***************************************************************************)
LEMMA NewServerGood == Good(NewServer) /\ NewServer.hook_connect = "none"
                         /\ Down(NewServer) /\ ~NewServer.reconnect_start
  BY IndexFacts, ServerAssumption
     DEF Good, Server, NewServer, Sound, Timed, Remembered, Fresh, Down

(***************************************************************************)
(* irc_server_close_connection().                                          *)
(***************************************************************************)
LEMMA CloseConnectionFacts ==
  ASSUME NEW s \in Server
  PROVE  LET c == CloseConnection(s) IN
           /\ c \in Server
           /\ Down(c)
           /\ c.hook_connect = "none"
           /\ SameWish(c, s)
           /\ c.cap_list = s.cap_list /\ c.cap_ls = s.cap_ls
           /\ c.acked = {} /\ c.offered = {}
  <1> DEFINE c == CloseConnection(s)
             left == s.gnutls_sess /\ ~ (s.hook_connect = "none" /\ s.ssl_connected)
             k == [s EXCEPT !.hook_timer_connection = FALSE, !.hook_timer_sasl = FALSE,
                            !.sock = FALSE, !.hook_connect = "none",
                            !.gnutls_sess = left, !.is_connected = FALSE,
                            !.ssl_connected = FALSE, !.offered = {}, !.acked = {},
                            !.sasl_done = FALSE]
  <1>1. left \in BOOLEAN
    BY DEF Server
  <1>2. c \in Server
    <2>1. c = k
      BY DEF CloseConnection
    <2> HIDE DEF left, c
    <2>2. k \in Server
      BY <1>1, ZenonT(60) DEF Server
    <2>3. QED
      BY <2>1, <2>2
  <1>3. Down(c) /\ c.hook_connect = "none"
    BY DEF CloseConnection, Server, Down
  <1>4. SameWish(c, s)
    BY DEF CloseConnection, Server, SameWish
  <1>5. c.cap_list = s.cap_list /\ c.cap_ls = s.cap_ls
    BY DEF CloseConnection, Server
  <1>6. c.acked = {} /\ c.offered = {}
    BY DEF CloseConnection, Server
  <1>7. QED
    BY <1>2, <1>3, <1>4, <1>5, <1>6

(***************************************************************************)
(* irc_server_set_index_current_address() and irc_server_switch_address()  *)
(* without a connection move nothing but the address and the retries.      *)
(***************************************************************************)
LEMMA SetIndexFacts ==
  ASSUME NEW s \in Server, NEW i \in Index
  PROVE  LET a == SetIndex(s, i) IN
           a \in Server /\ SameLink(a, s) /\ SameCaps(a, s) /\ SameWish(a, s)
  BY DEF SetIndex, Server, SameLink, SameCaps, SameWish

LEMMA NextAddressFacts ==
  ASSUME NEW s \in Server
  PROVE  LET a == NextAddress(s) IN
           a \in Server /\ SameLink(a, s) /\ SameCaps(a, s) /\ SameWish(a, s)
  <1>1. s.index \in Index
    BY DEF Server
  <1>2. (s.index + 1) % Addresses \in Index
    BY <1>1, IndexFacts
  <1>3. QED
    BY <1>2, SetIndexFacts DEF NextAddress, SameLink, SameCaps, SameWish

(***************************************************************************)
(* irc_server_reconnect_schedule(), and the schedule cancelled.            *)
(***************************************************************************)
LEMMA GrowDelayType ==
  ASSUME NEW d \in 0 .. DELAY_MAX
  PROVE  GrowDelay(d) \in 0 .. DELAY_MAX
  <1>1. d * DELAY_GROWING \in Nat
    BY ServerAssumption
  <1>2. QED
    BY <1>1, ServerAssumption DEF GrowDelay

LEMMA UnscheduledFacts ==
  ASSUME NEW s \in Server
  PROVE  LET a == Unscheduled(s) IN
           /\ a \in Server
           /\ SameLink(a, s)
           /\ SameCaps(a, s)
           /\ a.wants = s.wants
           /\ ~a.reconnect_start
  <1> DEFINE a == Unscheduled(s)
  <1>0. 0 \in 0 .. DELAY_MAX
    BY ServerAssumption
  <1>1. a \in Server
    BY <1>0, ZenonT(60) DEF Unscheduled, Server
  <1>2. SameLink(a, s)
    BY DEF Unscheduled, Server, SameLink
  <1>3. SameCaps(a, s)
    BY DEF Unscheduled, Server, SameCaps
  <1>4. a.wants = s.wants /\ ~a.reconnect_start
    BY DEF Unscheduled, Server
  <1>5. QED
    BY <1>1, <1>2, <1>3, <1>4

LEMMA ScheduleFacts ==
  ASSUME NEW s \in Server
  PROVE  LET a == ReconnectSchedule(s) IN
           /\ a \in Server
           /\ SameLink(a, s)
           /\ SameCaps(a, s)
           /\ a.wants = s.wants
           /\ a.reconnect_start <=> AUTORECONNECT
  <1>1. GrowDelay(s.reconnect_delay) \in 0 .. DELAY_MAX
    BY GrowDelayType DEF Server
  <1>2. CASE AUTORECONNECT
    <2> DEFINE a == ReconnectSchedule(s)
    <2>1. a \in Server
      BY <1>1, <1>2 DEF ReconnectSchedule, Server
    <2>2. SameLink(a, s)
      BY <1>2 DEF ReconnectSchedule, Server, SameLink
    <2>3. SameCaps(a, s)
      BY <1>2 DEF ReconnectSchedule, Server, SameCaps
    <2>4. a.wants = s.wants /\ a.reconnect_start
      BY <1>2 DEF ReconnectSchedule, Server
    <2>5. QED
      BY <1>2, <2>1, <2>2, <2>3, <2>4
  <1>3. CASE ~AUTORECONNECT
    BY <1>3, UnscheduledFacts DEF ReconnectSchedule
  <1>4. QED
    BY <1>2, <1>3


(***************************************************************************)
(* irc_server_connect_cb(), told of a failure; irc_server_connect() when   *)
(* it closes what is open and starts.                                      *)
(***************************************************************************)
LEMMA FailedFacts ==
  ASSUME NEW s \in Server, NEW charged \in BOOLEAN
  PROVE  LET c == Failed(s, charged) IN
           /\ c \in Server
           /\ Down(c)
           /\ c.hook_connect = "none"
           /\ SameWish(c, s)
           /\ c.cap_list = s.cap_list /\ c.cap_ls = s.cap_ls
           /\ c.acked = {} /\ c.offered = {}
  <1> DEFINE n == [s EXCEPT !.hook_connect = "none"]
             c == CloseConnection(n)
             f == [c EXCEPT !.current_retry = Bump(@), !.fails[s.index] = Bump(@)]
  <1>1. n \in Server
    BY DEF Server
  <1>2. SameWish(n, s) /\ n.cap_list = s.cap_list /\ n.cap_ls = s.cap_ls
    BY DEF Server, SameWish
  <1>3. /\ c \in Server
        /\ Down(c)
        /\ c.hook_connect = "none"
        /\ SameWish(c, n)
        /\ c.cap_list = n.cap_list /\ c.cap_ls = n.cap_ls
        /\ c.acked = {} /\ c.offered = {}
    BY <1>1, CloseConnectionFacts
  <1> HIDE DEF n, c
  <1>4. \A k \in 0 .. MaxRetry : Bump(k) \in 0 .. MaxRetry
    BY ServerAssumption DEF Bump
  <1>5. s.index \in Index
    BY DEF Server
  <1>6. f \in Server
    BY <1>3, <1>4, <1>5 DEF Server
  <1>7. f.hook_connect = "none" /\ Down(f)
    BY <1>3 DEF Server, Down
  <1>8. /\ SameWish(f, c)
        /\ f.cap_list = c.cap_list /\ f.cap_ls = c.cap_ls
        /\ f.acked = {} /\ f.offered = {}
    BY <1>3 DEF Server, SameWish
  <1>9. Failed(s, charged) = IF charged THEN f ELSE c
    BY DEF Failed, c, n
  <1>10. QED
    BY <1>2, <1>3, <1>6, <1>7, <1>8, <1>9 DEF SameWish

LEMMA OpenedFacts ==
  ASSUME NEW s \in Server, NEW ssl \in BOOLEAN
  PROVE  LET c == Opened(s, ssl) IN
           /\ c \in Server
           /\ Down(c)
           /\ SameWish(c, s)
           /\ c.cap_list = s.cap_list /\ c.cap_ls = s.cap_ls
           /\ c.acked = {} /\ c.offered = {}
  <1> DEFINE c == CloseConnection(s)
             sess == c.gnutls_sess \/ ssl
             o == [c EXCEPT !.ssl_connected = ssl, !.gnutls_sess = sess]
  <1>1. /\ c \in Server
        /\ Down(c)
        /\ SameWish(c, s)
        /\ c.cap_list = s.cap_list /\ c.cap_ls = s.cap_ls
        /\ c.acked = {} /\ c.offered = {}
    BY CloseConnectionFacts
  <1>2. sess \in BOOLEAN
    BY <1>1 DEF Server
  <1>3. Opened(s, ssl) = o
    BY DEF Opened
  <1> HIDE DEF c, sess
  <1>4. o \in Server
    BY <1>1, <1>2, ZenonT(60) DEF Server
  <1>5. Down(o)
    BY <1>1 DEF Server, Down
  <1>6. /\ SameWish(o, c)
        /\ o.cap_list = c.cap_list /\ o.cap_ls = c.cap_ls
        /\ o.acked = {} /\ o.offered = {}
    BY <1>1 DEF Server, SameWish
  <1>7. QED
    BY <1>1, <1>3, <1>4, <1>5, <1>6 DEF SameWish

(***************************************************************************)
(* What irc_server_connect() may answer: a pending attempt, a refusal that *)
(* leaves the connection as it was, or a failure at once that has already  *)
(* scheduled the next attempt.                                             *)
(***************************************************************************)
Began(t, s) ==
  /\ Down(t)
  /\ t.hook_connect = "pending"
  /\ SameWish(t, s)
  /\ t.cap_list = s.cap_list /\ t.cap_ls = s.cap_ls
  /\ t.acked = {} /\ t.offered = {}

Refused(t, s) == SameLink(t, s) /\ SameCaps(t, s) /\ SameWish(t, s)

FailedAtOnce(t, s) ==
  /\ Down(t)
  /\ t.hook_connect = "freed"
  /\ t.wants = s.wants
  /\ t.reconnect_start <=> AUTORECONNECT
  /\ t.cap_list = s.cap_list /\ t.cap_ls = s.cap_ls
  /\ t.acked = {} /\ t.offered = {}

LEMMA ConnectsFacts ==
  ASSUME NEW s \in Server, NEW c \in Connects(s)
  PROVE  /\ c.server \in Server
         /\ \/ c.ok /\ Began(c.server, s)
            \/ ~c.ok /\ Refused(c.server, s) /\ "config_error" \in Events
            \/ c.ok /\ FailedAtOnce(c.server, s) /\ "sync_failure" \in Events
  <1> DEFINE n == [s EXCEPT !.disconnected = FALSE]
             a == SetIndex(n, s.index)
             began(ssl) == [Opened(a, ssl) EXCEPT !.hook_connect = "pending"]
             failed(ssl, charged) == ReconnectSchedule(Failed(Opened(a, ssl), charged))
             freed(ssl, charged) == [failed(ssl, charged) EXCEPT !.hook_connect = "freed"]
  <1>1. n \in Server
    BY Zenon DEF Server
  <1>2. Refused(n, s)
    BY DEF Server, Refused, SameLink, SameCaps, SameWish
  <1>3. s.index \in Index /\ n.index = s.index
    BY DEF Server
  <1>4. a \in Server /\ Refused(a, n)
    BY <1>1, <1>3, SetIndexFacts DEF Refused
  <1>5. Refused(a, s)
    BY <1>2, <1>4 DEF Refused, SameLink, SameCaps, SameWish
  <1>6. Connects(s) =
               {[ok |-> TRUE, server |-> began(ssl)] : ssl \in BOOLEAN}
          \cup {[ok |-> FALSE, server |-> a] : e \in Events \cap {"config_error"}}
          \cup {[ok |-> TRUE, server |-> freed(ssl, charged)] :
                  ssl \in BOOLEAN, charged \in BOOLEAN,
                  e \in Events \cap {"sync_failure"}}
    BY DEF Connects
  <1> HIDE DEF n, a
  <1>7. ASSUME NEW ssl \in BOOLEAN
        PROVE  began(ssl) \in Server /\ Began(began(ssl), s)
    <2> DEFINE o == Opened(a, ssl)
    <2>1. /\ o \in Server
          /\ Down(o)
          /\ SameWish(o, a)
          /\ o.cap_list = a.cap_list /\ o.cap_ls = a.cap_ls
          /\ o.acked = {} /\ o.offered = {}
      BY <1>4, OpenedFacts
    <2> HIDE DEF o
    <2> DEFINE b == [o EXCEPT !.hook_connect = "pending"]
    <2>2. b \in Server
      BY <2>1, Zenon DEF Server
    <2>3. Down(b) /\ b.hook_connect = "pending"
      BY <2>1 DEF Server, Down
    <2>4. /\ SameWish(b, o)
          /\ b.cap_list = o.cap_list /\ b.cap_ls = o.cap_ls
          /\ b.acked = {} /\ b.offered = {}
      BY <2>1 DEF Server, SameWish
    <2>5. Began(b, s)
      BY <1>5, <2>1, <2>3, <2>4 DEF Began, Refused, SameWish, SameCaps
    <2>6. QED
      BY <2>2, <2>5 DEF o
  <1>8. ASSUME NEW ssl \in BOOLEAN, NEW charged \in BOOLEAN
        PROVE  freed(ssl, charged) \in Server /\ FailedAtOnce(freed(ssl, charged), s)
    <2> DEFINE o == Opened(a, ssl)
               f == Failed(o, charged)
               r == ReconnectSchedule(f)
    <2>1. /\ o \in Server
          /\ SameWish(o, a)
          /\ o.cap_list = a.cap_list /\ o.cap_ls = a.cap_ls
      BY <1>4, OpenedFacts
    <2> HIDE DEF o
    <2>2. /\ f \in Server
          /\ Down(f)
          /\ SameWish(f, o)
          /\ f.cap_list = o.cap_list /\ f.cap_ls = o.cap_ls
          /\ f.acked = {} /\ f.offered = {}
      BY <2>1, FailedFacts
    <2> HIDE DEF f
    <2>3. /\ r \in Server
          /\ SameLink(r, f)
          /\ SameCaps(r, f)
          /\ r.wants = f.wants
          /\ r.reconnect_start <=> AUTORECONNECT
      BY <2>2, ScheduleFacts
    <2>4. Down(r)
      BY <2>2, <2>3 DEF Down, SameLink
    <2> HIDE DEF r
    <2> DEFINE b == [r EXCEPT !.hook_connect = "freed"]
    <2>5. b \in Server
      BY <2>3, Zenon DEF Server
    <2>6. Down(b) /\ b.hook_connect = "freed"
      BY <2>3, <2>4 DEF Server, Down
    <2>7. SameCaps(b, r) /\ SameWish(b, r)
      BY <2>3 DEF Server, SameCaps, SameWish
    <2>8. FailedAtOnce(b, s)
      BY <1>5, <2>1, <2>2, <2>3, <2>6, <2>7
         DEF FailedAtOnce, Refused, SameWish, SameCaps
    <2>9. QED
      BY <2>5, <2>8 DEF o, f, r
  <1>9. CASE \E ssl \in BOOLEAN : c = [ok |-> TRUE, server |-> began(ssl)]
    BY <1>7, <1>9
  <1>10. CASE "config_error" \in Events /\ c = [ok |-> FALSE, server |-> a]
    BY <1>4, <1>5, <1>10
  <1>11. CASE /\ "sync_failure" \in Events
              /\ \E ssl, charged \in BOOLEAN : c = [ok |-> TRUE, server |-> freed(ssl, charged)]
    BY <1>8, <1>11
  <1> HIDE DEF began, failed, freed
  <1>12. QED
    BY <1>6, <1>9, <1>10, <1>11

(***************************************************************************)
(* irc_server_disconnect() leaves a good server, whatever it was.          *)
(***************************************************************************)
LEMMA DisconnectGood ==
  ASSUME NEW s \in Server, NEW switch_address \in BOOLEAN, NEW reconnect \in BOOLEAN
  PROVE  LET d == Disconnect(s, switch_address, reconnect) IN
           /\ Good(d)
           /\ Down(d)
           /\ d.hook_connect = "none"
           /\ d.wants <=> (s.wants /\ reconnect)
  <1> DEFINE w == s.wants /\ reconnect
             c == CloseConnection(s)
             z == [c EXCEPT !.current_retry = 0, !.fails[s.index] = 0, !.wants = w]
             a == IF switch_address THEN NextAddress(z) ELSE SetIndex(z, 0)
             r == ResetSession(a)
             d == IF reconnect THEN ReconnectSchedule(r) ELSE Unscheduled(r)
  <1>1. /\ c \in Server /\ Down(c) /\ c.hook_connect = "none"
        /\ c.acked = {} /\ c.offered = {} /\ c.wants = s.wants
    BY CloseConnectionFacts DEF SameWish
  <1>2. w \in BOOLEAN /\ s.index \in Index /\ 0 \in 0 .. MaxRetry
    BY ServerAssumption DEF Server
  <1>3. Disconnect(s, switch_address, reconnect) = d
    BY <1>1 DEF Disconnect
  <1> HIDE DEF c, w
  <1>4. z \in Server
    BY <1>1, <1>2, ZenonT(60) DEF Server
  <1>5. Down(z) /\ z.hook_connect = "none" /\ z.acked = {} /\ z.offered = {}
    BY <1>1 DEF Server, Down
  <1>6. z.wants = w
    BY <1>1, Zenon DEF Server
  <1> HIDE DEF z
  <1>7. a \in Server /\ SameLink(a, z) /\ SameCaps(a, z) /\ SameWish(a, z)
    BY <1>4, NextAddressFacts, SetIndexFacts, IndexFacts
  <1>8. /\ Down(a) /\ a.hook_connect = "none"
        /\ a.acked = {} /\ a.offered = {} /\ a.wants = w
    BY <1>5, <1>6, <1>7 DEF Down, SameLink, SameCaps, SameWish
  <1> HIDE DEF a
  <1>9. r \in Server
    BY <1>7, ZenonT(60) DEF ResetSession, Server
  <1>10. Down(r) /\ r.hook_connect = "none"
    BY <1>7, <1>8 DEF ResetSession, Server, Down
  <1>11. /\ r.cap_list = {} /\ r.cap_ls = {}
         /\ r.acked = {} /\ r.offered = {} /\ r.wants = a.wants
    BY <1>7, <1>8 DEF ResetSession, Server
  <1> HIDE DEF r
  <1>12. /\ d \in Server
         /\ SameLink(d, r)
         /\ SameCaps(d, r)
         /\ d.wants = r.wants
         /\ d.reconnect_start <=> (reconnect /\ AUTORECONNECT)
    BY <1>9, ScheduleFacts, UnscheduledFacts, Zenon
  <1>13. Down(d) /\ d.hook_connect = "none"
    BY <1>10, <1>12 DEF Down, SameLink
  <1>14. d.wants <=> w
    BY <1>8, <1>11, <1>12
  <1>15. Fresh(d)
    BY <1>11, <1>12 DEF Fresh, SameCaps
  <1>16. Sound(d) /\ Timed(d)
    BY <1>13 DEF Sound, Timed, Down
  <1>17. Remembered(d)
    BY <1>12, <1>14 DEF Remembered, w
  <1>18. QED
    BY <1>3, <1>12, <1>13, <1>14, <1>15, <1>16, <1>17 DEF Good, w

(***************************************************************************)
(* A server on which nothing is open or pending, with the capabilities     *)
(* forgotten: what irc_server_connect() starts from.                       *)
(***************************************************************************)
Quiet(s) ==
  /\ s \in Server
  /\ Down(s)
  /\ s.hook_connect # "pending"
  /\ "connect_in_login" \notin Events =>
       /\ s.cap_list = {} /\ s.cap_ls = {}
       /\ s.acked = {} /\ s.offered = {}

LEMMA QuietIsGood ==
  ASSUME NEW s, Quiet(s), Remembered(s)
  PROVE  Good(s)
  BY DEF Quiet, Good, Sound, Timed, Fresh, Down

(***************************************************************************)
(* An attempt that begins when no reconnection is scheduled is good.       *)
(***************************************************************************)
LEMMA BeganGood ==
  ASSUME NEW s \in Server, NEW t \in Server, Began(t, s), ~t.reconnect_start,
         "connect_in_login" \notin Events => s.cap_list = {} /\ s.cap_ls = {}
  PROVE  Good(t)
  BY DEF Began, Good, Sound, Timed, Remembered, Fresh, Down

(***************************************************************************)
(* What is scheduled on a quiet server is good; a failure at once leaves   *)
(* the server quiet.                                                       *)
(***************************************************************************)
LEMMA ScheduledGood ==
  ASSUME NEW s, Quiet(s)
  PROVE  Good(ReconnectSchedule(s))
  <1> DEFINE a == ReconnectSchedule(s)
  <1>1. /\ a \in Server
        /\ SameLink(a, s)
        /\ SameCaps(a, s)
        /\ a.reconnect_start <=> AUTORECONNECT
    BY ScheduleFacts DEF Quiet
  <1> HIDE DEF a
  <1>2. Quiet(a)
    BY <1>1 DEF Quiet, SameLink, SameCaps, Down
  <1>3. Remembered(a)
    BY <1>1 DEF Remembered
  <1>4. QED
    BY <1>2, <1>3, QuietIsGood DEF a

LEMMA FailedAtOnceGood ==
  ASSUME NEW s \in Server, NEW t \in Server, FailedAtOnce(t, s),
         "connect_in_login" \notin Events => s.cap_list = {} /\ s.cap_ls = {}
  PROVE  Quiet(t) /\ Good(t)
  <1>1. Quiet(t)
    BY DEF FailedAtOnce, Quiet
  <1>2. Remembered(t)
    BY DEF FailedAtOnce, Remembered
  <1>3. QED
    BY <1>1, <1>2, QuietIsGood

(***************************************************************************)
(* irc_server_switch_address (server, 1) after a failure.                  *)
(***************************************************************************)
LEMMA SwitchAddressGood ==
  ASSUME NEW s, Quiet(s), ~s.reconnect_start, NEW t \in SwitchAddress(s)
  PROVE  Good(t)
  <1> DEFINE a == NextAddress(s)
  <1>1. a \in Server /\ SameLink(a, s) /\ SameCaps(a, s) /\ SameWish(a, s)
    BY NextAddressFacts DEF Quiet
  <1>2. t \in {c.server : c \in Connects(a)} \/ t = ReconnectSchedule(a)
    BY DEF SwitchAddress
  <1> HIDE DEF a
  <1>3. Quiet(a) /\ ~a.reconnect_start
    BY <1>1 DEF Quiet, SameLink, SameCaps, SameWish, Down
  <1>4. CASE t = ReconnectSchedule(a)
    BY <1>3, <1>4, ScheduledGood
  <1>5. CASE t \in {c.server : c \in Connects(a)}
    <2>1. PICK c \in Connects(a) : t = c.server
      BY <1>5
    <2>2. c.server \in Server
      BY <1>1, ConnectsFacts
    <2>3. CASE Began(t, a)
      <3>1. ~t.reconnect_start
        BY <1>3, <2>3 DEF Began, SameWish
      <3>2. QED
        BY <1>3, <2>1, <2>2, <2>3, <3>1, BeganGood DEF Quiet
    <2>4. CASE Refused(t, a) /\ "config_error" \in Events
      <3>1. Quiet(t)
        BY <1>3, <2>1, <2>2, <2>4 DEF Quiet, Refused, SameLink, SameCaps, Down
      <3>2. Remembered(t)
        BY <2>4 DEF Remembered
      <3>3. QED
        BY <3>1, <3>2, QuietIsGood
    <2>5. CASE FailedAtOnce(t, a)
      BY <1>3, <2>1, <2>2, <2>5, FailedAtOnceGood DEF Quiet
    <2>6. QED
      BY <1>1, <2>1, <2>3, <2>4, <2>5, ConnectsFacts
  <1>6. QED
    BY <1>2, <1>4, <1>5

(***************************************************************************)
(* Goodness depends on the link, the capabilities and the wish only.       *)
(***************************************************************************)
LEMMA SameGood ==
  ASSUME NEW s, Good(s), NEW t \in Server,
         SameLink(t, s), SameCaps(t, s), SameWish(t, s)
  PROVE  Good(t)
  <1>1. Sound(t) /\ Timed(t)
    BY DEF Good, SameLink, SameWish, Sound, Timed
  <1>2. Remembered(t)
    BY DEF Good, SameLink, SameWish, Remembered
  <1>3. Fresh(t)
    BY DEF Good, SameLink, SameCaps, Fresh
  <1>4. QED
    BY <1>1, <1>2, <1>3 DEF Good

(***************************************************************************)
(* A good server without socket and without pending hook is quiet.         *)
(***************************************************************************)
LEMMA ClosedIsQuiet ==
  ASSUME NEW s, Good(s), ~s.sock, s.hook_connect # "pending"
  PROVE  Quiet(s)
  BY DEF Good, Sound, Fresh, Quiet, Down

(***************************************************************************)
(* The mark of the user on a server that the code leaves alone otherwise.  *)
(***************************************************************************)
LEMMA WishFacts ==
  ASSUME NEW s \in Server, NEW b \in BOOLEAN
  PROVE  LET w == [s EXCEPT !.wants = b] IN
           /\ w \in Server
           /\ SameLink(w, s)
           /\ SameCaps(w, s)
           /\ w.wants = b
           /\ w.reconnect_start = s.reconnect_start
  <1> DEFINE w == [s EXCEPT !.wants = b]
  <1>1. w \in Server
    BY Zenon DEF Server
  <1>2. SameLink(w, s)
    BY DEF Server, SameLink
  <1>3. SameCaps(w, s)
    BY DEF Server, SameCaps
  <1>4. w.wants = b
    BY Zenon DEF Server
  <1>5. w.reconnect_start = s.reconnect_start
    BY DEF Server
  <1>6. QED
    BY <1>1, <1>2, <1>3, <1>4, <1>5

(***************************************************************************)
(* /connect and /reconnect on a good server whose capabilities are         *)
(* forgotten.                                                              *)
(***************************************************************************)
LEMMA AskedGood ==
  ASSUME NEW s, Good(s),
         "connect_in_login" \notin Events => s.cap_list = {} /\ s.cap_ls = {},
         NEW c \in Connects(s)
  PROVE  Good(Asked(c))
  <1> DEFINE t == c.server
             u == Unscheduled(t)
             w == [u EXCEPT !.wants = TRUE]
  <1>1. s \in Server
    BY DEF Good
  <1>2. t \in Server
    BY <1>1, ConnectsFacts
  <1>3. /\ u \in Server /\ SameLink(u, t) /\ SameCaps(u, t) /\ ~u.reconnect_start
    BY <1>2, UnscheduledFacts
  <1> HIDE DEF u
  <1>4. /\ w \in Server /\ SameLink(w, u) /\ SameCaps(w, u)
        /\ w.reconnect_start = u.reconnect_start
    BY <1>3, WishFacts
  <1>5. Asked(c) = IF c.ok THEN w ELSE t
    BY DEF Asked, u
  <1> HIDE DEF t, w
  <1>6. /\ w \in Server /\ SameLink(w, t) /\ SameCaps(w, t) /\ ~w.reconnect_start
    BY <1>3, <1>4 DEF SameLink, SameCaps
  <1>7. CASE c.ok /\ Began(t, s)
    <2>1. Began(t, s) => Down(w) /\ w.hook_connect = "pending"
      BY <1>6 DEF Began, Down, SameLink
    <2>2. Sound(w) /\ Timed(w) /\ Remembered(w)
      BY <1>6, <1>7, <2>1 DEF Sound, Timed, Remembered, Down
    <2>3. Fresh(w)
      BY <1>6, <1>7 DEF Fresh, Began, SameCaps
    <2>4. QED
      BY <1>5, <1>6, <1>7, <2>2, <2>3 DEF Good
  <1>8. CASE ~c.ok /\ Refused(t, s)
    BY <1>2, <1>5, <1>8, SameGood DEF Refused
  <1>9. CASE c.ok /\ FailedAtOnce(t, s) /\ "sync_failure" \in Events
    <2>1. Quiet(t)
      BY <1>1, <1>2, <1>9, FailedAtOnceGood
    <2>2. Quiet(w)
      BY <1>6, <2>1 DEF Quiet, Down, SameLink, SameCaps
    <2>3. Remembered(w)
      BY <1>9 DEF Remembered
    <2>4. QED
      BY <1>5, <1>9, <2>2, <2>3, QuietIsGood
  <1>10. QED
    BY <1>1, <1>7, <1>8, <1>9, ConnectsFacts DEF t

-----------------------------------------------------------------------------
(* The steps: each leaves a good server. *)

LEMMA AutoConnectStep ==
  ASSUME IInv, AutoConnect
  PROVE  IInv'
  <1>1. /\ Quiet(server) /\ ~server.reconnect_start /\ Good(server)
        /\ server \in Server
    BY NewServerGood, ClosedIsQuiet DEF IInv, AutoConnect, Down, Good
  <1>2. CASE UNCHANGED server
    BY <1>2 DEF IInv, AutoConnect
  <1>3. ASSUME NEW c \in Connects(server),
               server' = IF c.ok THEN [c.server EXCEPT !.wants = TRUE]
                         ELSE ReconnectSchedule([c.server EXCEPT !.wants = TRUE])
        PROVE  Good(server')
    <2> DEFINE t == c.server
               w == [t EXCEPT !.wants = TRUE]
    <2>1. t \in Server
      BY <1>1, ConnectsFacts
    <2>2. /\ w \in Server /\ SameLink(w, t) /\ SameCaps(w, t)
          /\ w.reconnect_start = t.reconnect_start
      BY <2>1, WishFacts
    <2>3. server' = IF c.ok THEN w ELSE ReconnectSchedule(w)
      BY <1>3
    <2>4. \/ c.ok /\ Began(t, server)
          \/ ~c.ok /\ Refused(t, server)
          \/ c.ok /\ FailedAtOnce(t, server) /\ "sync_failure" \in Events
      BY <1>1, ConnectsFacts
    <2> HIDE DEF t, w
    <2>5. CASE c.ok /\ Began(t, server)
      <3>1. ~t.reconnect_start
        BY <1>1, <2>5 DEF Began, SameWish
      <3>2. Down(w) /\ w.hook_connect = "pending" /\ ~w.reconnect_start
        BY <2>2, <2>5, <3>1 DEF Began, Down, SameLink
      <3>3. Sound(w) /\ Timed(w) /\ Remembered(w)
        BY <3>2 DEF Sound, Timed, Remembered, Down
      <3>4. Fresh(w)
        BY <1>1, <2>2, <2>5 DEF Fresh, Began, SameCaps, Quiet
      <3>5. QED
        BY <2>2, <2>3, <2>5, <3>3, <3>4 DEF Good
    <2>6. CASE ~c.ok /\ Refused(t, server)
      <3>1. Quiet(w)
        BY <1>1, <2>2, <2>6 DEF Refused, Quiet, Down, SameLink, SameCaps
      <3>2. QED
        BY <2>3, <2>6, <3>1, ScheduledGood
    <2>7. CASE c.ok /\ FailedAtOnce(t, server) /\ "sync_failure" \in Events
      <3>1. Quiet(t)
        BY <1>1, <2>1, <2>7, FailedAtOnceGood DEF Quiet
      <3>2. Quiet(w) /\ Remembered(w)
        BY <2>2, <2>7, <3>1 DEF Quiet, Down, SameLink, SameCaps, Remembered
      <3>3. QED
        BY <2>3, <2>7, <3>2, QuietIsGood
    <2>8. QED
      BY <2>4, <2>5, <2>6, <2>7
  <1>4. QED
    BY <1>2, <1>3 DEF IInv, AutoConnect

(***************************************************************************)
(* The commands /connect, /disconnect and /reconnect, and the buffer that  *)
(* is closed.                                                              *)
(***************************************************************************)
LEMMA UserConnectStep ==
  ASSUME IInv, NEW switch_address \in BOOLEAN, UserConnect(switch_address)
  PROVE  Good(server')
  <1> DEFINE s == IF switch_address THEN NextAddress(server) ELSE server
  <1>1. Good(server) /\ server \in Server
    BY DEF IInv, Good
  <1>2. s \in Server /\ SameLink(s, server) /\ SameCaps(s, server) /\ SameWish(s, server)
    BY <1>1, NextAddressFacts DEF SameLink, SameCaps, SameWish
  <1>3. PICK c \in Connects(s) : server' = Asked(c)
    BY DEF UserConnect
  <1> HIDE DEF s
  <1>4. Good(s)
    BY <1>1, <1>2, SameGood
  <1>5. "connect_in_login" \notin Events => ~s.sock
    BY <1>2 DEF UserConnect, SameLink
  <1>6. "connect_in_login" \notin Events => s.cap_list = {} /\ s.cap_ls = {}
    BY <1>4, <1>5 DEF Good, Fresh
  <1>7. QED
    BY <1>3, <1>4, <1>6, AskedGood

LEMMA UserDisconnectStep ==
  ASSUME IInv, UserDisconnect
  PROVE  Good(server')
  BY DisconnectGood DEF IInv, UserDisconnect, Good

LEMMA UserReconnectStep ==
  ASSUME IInv, NEW switch_address \in BOOLEAN, UserReconnect(switch_address)
  PROVE  Good(server')
  <1> DEFINE active == \/ server.is_connected \/ server.sock
                       \/ server.hook_connect # "none"
             s == IF active THEN Disconnect(server, switch_address, FALSE)
                  ELSE IF switch_address THEN NextAddress(server) ELSE server
  <1>1. Good(server) /\ server \in Server
    BY DEF IInv, Good
  <1>2. PICK c \in Connects(s) : server' = Asked(c)
    BY DEF UserReconnect
  <1>3. CASE active
    <2>1. Good(s) /\ Down(s)
      BY <1>1, <1>3, DisconnectGood
    <2> HIDE DEF s
    <2>2. QED
      BY <1>2, <2>1, AskedGood DEF Good, Fresh, Down
  <1>4. CASE ~active
    <2>1. s \in Server /\ SameLink(s, server) /\ SameCaps(s, server) /\ SameWish(s, server)
      BY <1>1, <1>4, NextAddressFacts DEF SameLink, SameCaps, SameWish
    <2> HIDE DEF s
    <2>2. Good(s) /\ ~s.sock
      BY <1>1, <1>4, <2>1, SameGood DEF SameLink
    <2>3. QED
      BY <1>2, <2>2, AskedGood DEF Good, Fresh
  <1>5. QED
    BY <1>3, <1>4

LEMMA BufferCloseStep ==
  ASSUME IInv, BufferClose
  PROVE  Good(server')
  <1> DEFINE d == IF server.disconnected THEN server
                  ELSE Disconnect(server, FALSE, FALSE)
             u == Unscheduled(d)
             w == [u EXCEPT !.wants = FALSE]
  <1>1. Good(d) /\ d \in Server
    BY DisconnectGood DEF IInv, Good
  <1>2. server' = w
    BY DEF BufferClose
  <1> HIDE DEF d
  <1>3. /\ u \in Server /\ SameLink(u, d) /\ SameCaps(u, d) /\ ~u.reconnect_start
    BY <1>1, UnscheduledFacts
  <1> HIDE DEF u
  <1>4. /\ w \in Server /\ SameLink(w, u) /\ SameCaps(w, u) /\ w.wants = FALSE
        /\ w.reconnect_start = u.reconnect_start
    BY <1>3, WishFacts
  <1> HIDE DEF w
  <1>5. Sound(w) /\ Timed(w)
    BY <1>1, <1>3, <1>4 DEF Good, Sound, Timed, SameLink
  <1>6. Fresh(w)
    BY <1>1, <1>3, <1>4 DEF Good, Fresh, SameLink, SameCaps
  <1>7. Remembered(w)
    BY <1>4 DEF Remembered
  <1>8. QED
    BY <1>2, <1>4, <1>5, <1>6, <1>7 DEF Good

(***************************************************************************)
(* The answer of hook_connect().                                           *)
(***************************************************************************)
LEMMA ConnectOkStep ==
  ASSUME IInv, ConnectOk
  PROVE  Good(server')
  <1>1. /\ Good(server) /\ server \in Server
        /\ server.hook_connect = "pending" /\ server' = Login(server)
    BY DEF IInv, Good, ConnectOk
  <1>2. ~server.sock /\ ~server.reconnect_start
    BY <1>1 DEF Good, Sound
  <1> DEFINE t == Login(server)
  <1>3. t \in Server
    BY <1>1, Zenon DEF Login, Server
  <1>4. t.sock /\ t.hook_timer_connection /\ t.hook_connect = "none"
    BY <1>1 DEF Login, Server
  <1>5. SameCaps(t, server) /\ SameWish(t, server)
    BY <1>1 DEF Login, Server, SameCaps, SameWish
  <1> HIDE DEF t
  <1>6. Sound(t) /\ Timed(t)
    BY <1>2, <1>4, <1>5 DEF Sound, Timed, SameWish
  <1>7. Remembered(t)
    BY <1>4 DEF Remembered
  <1>8. Fresh(t)
    BY <1>1, <1>2, <1>4, <1>5 DEF Good, Fresh, SameCaps
  <1>9. QED
    BY <1>1, <1>3, <1>6, <1>7, <1>8 DEF Good, t

LEMMA ConnectFailsStep ==
  ASSUME IInv, NEW charged \in BOOLEAN, ConnectFails(charged)
  PROVE  Good(server')
  <1> DEFINE f == Failed(server, charged)
  <1>1. /\ Good(server) /\ server \in Server /\ server.hook_connect = "pending"
    BY DEF IInv, Good, ConnectFails
  <1>2. ~server.sock /\ ~server.reconnect_start
    BY <1>1 DEF Good, Sound
  <1>3. /\ f \in Server /\ Down(f) /\ f.hook_connect = "none"
        /\ SameWish(f, server)
        /\ f.cap_list = server.cap_list /\ f.cap_ls = server.cap_ls
        /\ f.acked = {} /\ f.offered = {}
    BY <1>1, FailedFacts
  <1>4. server' \in SwitchAddress(f) \/ server' = ReconnectSchedule(f)
    BY DEF ConnectFails
  <1> HIDE DEF f
  <1>5. Quiet(f) /\ ~f.reconnect_start
    BY <1>1, <1>2, <1>3 DEF Quiet, Good, Fresh, SameWish
  <1>6. QED
    BY <1>4, <1>5, SwitchAddressGood, ScheduledGood

(***************************************************************************)
(* The socket and the timers.                                              *)
(***************************************************************************)
LEMMA ReceiveStep ==
  ASSUME IInv, NEW n \in 0 .. MaxBatch, NEW lost \in BOOLEAN, Receive(n, lost)
  PROVE  Good(server')
  <1>1. Good(server) /\ server \in Server
    BY DEF IInv, Good
  <1>2. (~server.is_connected) \in BOOLEAN
    OBVIOUS
  <1>3. Good(Disconnect(server, ~server.is_connected, TRUE))
    BY <1>1, <1>2, DisconnectGood
  <1>4. QED
    BY <1>1, <1>3 DEF Receive

LEMMA TimerConnectionStep ==
  ASSUME IInv, TimerConnection
  PROVE  Good(server')
  <1> DEFINE s == [server EXCEPT !.hook_timer_connection = FALSE]
  <1>1. Good(server) /\ server \in Server
    BY DEF IInv, Good
  <1>2. s \in Server
    BY <1>1, Zenon DEF Server
  <1>3. /\ ~s.hook_timer_connection
        /\ s.hook_connect = server.hook_connect /\ s.sock = server.sock
        /\ s.is_connected = server.is_connected
        /\ s.hook_timer_sasl = server.hook_timer_sasl
    BY <1>1 DEF Server
  <1>4. SameCaps(s, server) /\ SameWish(s, server)
    BY <1>1 DEF Server, SameCaps, SameWish
  <1>5. server' = IF s.is_connected THEN s ELSE Disconnect(s, TRUE, TRUE)
    BY DEF TimerConnection
  <1> HIDE DEF s
  <1>6. ASSUME s.is_connected PROVE Good(s)
    <2>1. Sound(s) /\ Timed(s) /\ Remembered(s)
      BY <1>1, <1>3, <1>4, <1>6 DEF Good, Sound, Timed, Remembered, SameWish
    <2>2. Fresh(s)
      BY <1>1, <1>3, <1>4 DEF Good, Fresh, SameCaps
    <2>3. QED
      BY <1>2, <2>1, <2>2 DEF Good
  <1>7. QED
    BY <1>2, <1>5, <1>6, DisconnectGood

LEMMA SaslFailsGood ==
  ASSUME NEW s, Good(s), NEW f \in SASL_FAIL
  PROVE  Good(SaslFails(s, f))
  <1>1. (f = "reconnect") \in BOOLEAN /\ s \in Server
    BY DEF Good
  <1>2. Good(Disconnect(s, FALSE, f = "reconnect"))
    BY <1>1, DisconnectGood
  <1>3. QED
    BY <1>2 DEF SaslFails

LEMMA TimerSaslStep ==
  ASSUME IInv, TimerSasl
  PROVE  Good(server')
  <1> DEFINE s == [server EXCEPT !.hook_timer_sasl = FALSE]
  <1>1. Good(server) /\ server \in Server
    BY DEF IInv, Good
  <1>2. s \in Server
    BY <1>1, Zenon DEF Server
  <1>3. /\ ~s.hook_timer_sasl
        /\ s.hook_connect = server.hook_connect /\ s.sock = server.sock
        /\ s.is_connected = server.is_connected
        /\ s.hook_timer_connection = server.hook_timer_connection
    BY <1>1 DEF Server
  <1>4. SameCaps(s, server) /\ SameWish(s, server)
    BY <1>1 DEF Server, SameCaps, SameWish
  <1>5. PICK f \in SASL_FAIL :
          server' = IF s.is_connected THEN s ELSE SaslFails(s, f)
    BY DEF TimerSasl
  <1> HIDE DEF s
  <1>6. Sound(s) /\ Timed(s) /\ Remembered(s)
    BY <1>1, <1>3, <1>4 DEF Good, Sound, Timed, Remembered, SameWish
  <1>7. Fresh(s)
    BY <1>1, <1>3, <1>4 DEF Good, Fresh, SameCaps
  <1>8. Good(s)
    BY <1>2, <1>6, <1>7 DEF Good
  <1>9. QED
    BY <1>5, <1>8, SaslFailsGood

LEMMA TimerReconnectStep ==
  ASSUME IInv, TimerReconnect
  PROVE  Good(server')
  <1> DEFINE s == [server EXCEPT !.reconnect_start = FALSE]
  <1>1. Good(server) /\ server \in Server /\ server.reconnect_start
    BY DEF IInv, Good, TimerReconnect
  <1>2. ~server.sock /\ server.hook_connect # "pending"
    BY <1>1 DEF Good, Sound
  <1>3. s \in Server
    BY <1>1, Zenon DEF Server
  <1>4. SameLink(s, server)
    BY <1>1 DEF Server, SameLink
  <1>5. SameCaps(s, server) /\ ~s.reconnect_start
    BY <1>1 DEF Server, SameCaps
  <1>6. PICK c \in Connects(s) :
          server' = IF c.ok THEN c.server ELSE ReconnectSchedule(c.server)
    BY DEF TimerReconnect, Reconnect
  <1> HIDE DEF s
  <1>7. Quiet(s)
    BY <1>1, <1>2, <1>3, <1>4, <1>5, ClosedIsQuiet
       DEF Quiet, SameLink, SameCaps, Down
  <1>8. c.server \in Server
    BY <1>3, ConnectsFacts
  <1>9. CASE c.ok /\ Began(c.server, s)
    <2>1. ~c.server.reconnect_start
      BY <1>5, <1>9 DEF Began, SameWish
    <2>2. QED
      BY <1>3, <1>6, <1>7, <1>8, <1>9, <2>1, BeganGood DEF Quiet
  <1>10. CASE ~c.ok /\ Refused(c.server, s)
    <2>1. Quiet(c.server)
      BY <1>7, <1>8, <1>10 DEF Refused, Quiet, SameLink, SameCaps, Down
    <2>2. QED
      BY <1>6, <1>10, <2>1, ScheduledGood
  <1>11. CASE c.ok /\ FailedAtOnce(c.server, s)
    BY <1>3, <1>6, <1>7, <1>8, <1>11, FailedAtOnceGood DEF Quiet
  <1>12. QED
    BY <1>3, <1>9, <1>10, <1>11, ConnectsFacts

LEMMA TimerLagStep ==
  ASSUME IInv, TimerLag
  PROVE  Good(server')
  <1>1. Good(server) /\ server \in Server
    BY DEF IInv, Good
  <1>2. ASSUME NEW b \in BOOLEAN PROVE Good([server EXCEPT !.lag_check = b])
    <2> DEFINE s == [server EXCEPT !.lag_check = b]
    <2>1. s \in Server
      BY <1>1, Zenon DEF Server
    <2>2. SameLink(s, server)
      BY <1>1 DEF Server, SameLink
    <2>3. SameCaps(s, server) /\ SameWish(s, server)
      BY <1>1 DEF Server, SameCaps, SameWish
    <2> HIDE DEF s
    <2>4. Good(s)
      BY <1>1, <2>1, <2>2, <2>3, SameGood
    <2>5. QED
      BY <2>4 DEF s
  <1>3. Good(Disconnect(server, FALSE, TRUE))
    BY <1>1, DisconnectGood
  <1>4. \/ \E b \in BOOLEAN : server' = [server EXCEPT !.lag_check = b]
        \/ server' = Disconnect(server, FALSE, TRUE)
    BY Zenon DEF TimerLag
  <1>5. QED
    BY <1>2, <1>3, <1>4

(***************************************************************************)
(* /upgrade: what was armed is lost, what was scheduled is kept.           *)
(***************************************************************************)
LEMMA UpgradeStep ==
  ASSUME IInv, Upgrade
  PROVE  Good(server')
  <1> DEFINE d == Disconnect(server, FALSE, FALSE)
             e == [d EXCEPT !.index = 0, !.reconnect_delay = AUTORECONNECT_DELAY,
                            !.reconnect_start = TRUE, !.wants = server.wants]
             s == IF server.is_connected /\ server.ssl_connected THEN e ELSE server
             zero == [i \in Index |-> 0]
             t == [s EXCEPT !.hook_connect = "none",
                            !.hook_timer_connection = FALSE,
                            !.hook_timer_sasl = FALSE, !.gnutls_sess = FALSE,
                            !.checking_cap_ls = FALSE,
                            !.checking_cap_list = FALSE,
                            !.current_retry = 0, !.retry_array = zero,
                            !.fails = zero]
  <1>1. Good(server) /\ server \in Server
    BY DEF IInv, Good
  <1>2. Good(d) /\ Down(d) /\ d \in Server
    BY <1>1, DisconnectGood DEF Good
  <1>3. server' = t /\ "upgrade" \in Events
    BY Zenon DEF Upgrade
  <1> HIDE DEF d
  <1>4. AUTORECONNECT_DELAY \in 0 .. DELAY_MAX /\ 0 \in Index
        /\ server.wants \in BOOLEAN
    BY <1>1, ServerAssumption, IndexFacts DEF Server
  <1>5. e \in Server
    BY <1>2, <1>4, ZenonT(60) DEF Server
  <1>6. Down(e) /\ SameCaps(e, d)
    BY <1>2 DEF Server, Down, SameCaps
  <1> HIDE DEF e
  <1>7. s \in Server
    BY <1>1, <1>5
  <1>8. Fresh(s) /\ (s.reconnect_start => ~s.sock) /\ (s.is_connected => s.sock)
    BY <1>1, <1>2, <1>6 DEF Good, Fresh, Down, SameCaps, Sound
  <1> HIDE DEF s
  <1>9. zero \in [Index -> 0 .. MaxRetry] /\ 0 \in 0 .. MaxRetry
    BY ServerAssumption
  <1> HIDE DEF zero
  <1>10. t \in Server
    BY <1>7, <1>9, ZenonT(60) DEF Server
  <1>11. /\ t.hook_connect = "none" /\ t.sock = s.sock
         /\ ~t.hook_timer_connection /\ ~t.hook_timer_sasl
         /\ t.is_connected = s.is_connected
         /\ t.reconnect_start = s.reconnect_start
    BY <1>7 DEF Server
  <1>12. SameCaps(t, s)
    BY <1>7 DEF Server, SameCaps
  <1> HIDE DEF t
  <1>13. Sound(t) /\ Fresh(t)
    BY <1>8, <1>11, <1>12 DEF Sound, Fresh, SameCaps
  <1>14. Timed(t) /\ Remembered(t)
    BY <1>3 DEF Timed, Remembered
  <1>15. QED
    BY <1>3, <1>10, <1>13, <1>14 DEF Good

-----------------------------------------------------------------------------
(* The messages. *)

LEMMA Message001Step ==
  ASSUME IInv, Message001
  PROVE  Good(server')
  <1> DEFINE t == [server EXCEPT !.is_connected = TRUE, !.reconnect_delay = 0,
                                 !.hook_timer_connection = FALSE]
  <1>1. Good(server) /\ server \in Server /\ server.sock /\ server' = t
    BY DEF IInv, Good, Message001, Handling, CanHandle
  <1>2. 0 \in 0 .. DELAY_MAX
    BY ServerAssumption
  <1>3. t \in Server
    BY <1>1, <1>2, ZenonT(60) DEF Server
  <1>4. /\ t.is_connected /\ t.sock = server.sock
        /\ t.hook_connect = server.hook_connect
        /\ t.hook_timer_sasl = server.hook_timer_sasl
        /\ ~t.hook_timer_connection
    BY <1>1 DEF Server
  <1>5. SameCaps(t, server) /\ SameWish(t, server)
    BY <1>1 DEF Server, SameCaps, SameWish
  <1> HIDE DEF t
  <1>6. Sound(t) /\ Timed(t) /\ Remembered(t)
    BY <1>1, <1>4, <1>5 DEF Good, Sound, Timed, Remembered, SameWish
  <1>7. Fresh(t)
    BY <1>1, <1>4, <1>5 DEF Good, Fresh, SameCaps
  <1>8. QED
    BY <1>1, <1>3, <1>6, <1>7 DEF Good

LEMMA MessageErrorStep ==
  ASSUME IInv, MessageError
  PROVE  Good(server')
  <1>1. Good(server) /\ server \in Server /\ (~server.is_connected) \in BOOLEAN
    BY DEF IInv, Good
  <1>2. QED
    BY <1>1, DisconnectGood DEF MessageError

(***************************************************************************)
(* The messages that say what the server offers or enabled move the two    *)
(* lists together with what was said, while the socket is open.            *)
(***************************************************************************)
LEMMA SaidGood ==
  ASSUME NEW s, Good(s), s.sock, NEW t \in Server,
         SameLink(t, s), SameWish(t, s),
         s.cap_list = s.acked => t.cap_list = t.acked,
         s.cap_ls = s.offered => t.cap_ls = t.offered
  PROVE  Good(t)
  <1>1. Sound(t) /\ Timed(t)
    BY DEF Good, SameLink, SameWish, Sound, Timed
  <1>2. Remembered(t)
    BY DEF Good, SameLink, SameWish, Remembered
  <1>3. Fresh(t)
    BY DEF Good, SameLink, Fresh
  <1>4. QED
    BY <1>1, <1>2, <1>3 DEF Good

LEMMA MessageCapLsStep ==
  ASSUME IInv, NEW part \in SUBSET Caps, NEW last \in BOOLEAN,
         MessageCapLs(part, last)
  PROVE  Good(server')
  <1> DEFINE ls == Listed(server.cap_ls, server.checking_cap_ls, part)
             of == Listed(server.offered, server.checking_cap_ls, part)
             more == ~last
             t == [server EXCEPT !.cap_ls = ls, !.offered = of,
                                 !.checking_cap_ls = more]
  <1>1. Good(server) /\ server \in Server /\ server.sock
    BY DEF IInv, Good, MessageCapLs, Handling, CanHandle
  <1>2. ls \in SUBSET Caps /\ of \in SUBSET Caps
    BY <1>1 DEF Listed, Server
  <1>3. more \in BOOLEAN
    OBVIOUS
  <1>4. server.cap_ls = server.offered => ls = of
    OBVIOUS
  <1>5. server' = t \/ \E f \in SASL_FAIL : server' = SaslFails(t, f)
    BY DEF MessageCapLs
  <1> HIDE DEF ls, of, more
  <1>6. t \in Server
    BY <1>1, <1>2, <1>3, ZenonT(60) DEF Server
  <1>7. SameLink(t, server)
    BY <1>1 DEF Server, SameLink
  <1>8. SameWish(t, server)
    BY <1>1 DEF Server, SameWish
  <1>9. /\ t.cap_list = server.cap_list /\ t.acked = server.acked
        /\ t.cap_ls = ls /\ t.offered = of
    BY <1>1 DEF Server
  <1> HIDE DEF t
  <1>10. Good(t)
    BY <1>1, <1>4, <1>6, <1>7, <1>8, <1>9, SaidGood
  <1>11. QED
    BY <1>5, <1>10, SaslFailsGood

LEMMA MessageCapListStep ==
  ASSUME IInv, NEW part \in SUBSET Caps, NEW last \in BOOLEAN,
         MessageCapList(part, last)
  PROVE  Good(server')
  <1> DEFINE li == Listed(server.cap_list, server.checking_cap_list, part)
             ac == Listed(server.acked, server.checking_cap_list, part)
             more == ~last
             t == [server EXCEPT !.cap_list = li, !.acked = ac,
                                 !.checking_cap_list = more]
  <1>1. Good(server) /\ server \in Server /\ server.sock
    BY DEF IInv, Good, MessageCapList, Handling, CanHandle
  <1>2. li \in SUBSET Caps /\ ac \in SUBSET Caps
    BY <1>1 DEF Listed, Server
  <1>3. more \in BOOLEAN
    OBVIOUS
  <1>4. server.cap_list = server.acked => li = ac
    OBVIOUS
  <1>5. server' = t
    BY DEF MessageCapList
  <1> HIDE DEF li, ac, more
  <1>6. t \in Server
    BY <1>1, <1>2, <1>3, ZenonT(60) DEF Server
  <1>7. SameLink(t, server)
    BY <1>1 DEF Server, SameLink
  <1>8. SameWish(t, server)
    BY <1>1 DEF Server, SameWish
  <1>9. /\ t.cap_ls = server.cap_ls /\ t.offered = server.offered
        /\ t.cap_list = li /\ t.acked = ac
    BY <1>1 DEF Server
  <1> HIDE DEF t
  <1>10. QED
    BY <1>1, <1>4, <1>5, <1>6, <1>7, <1>8, <1>9, SaidGood

LEMMA MessageCapAckStep ==
  ASSUME IInv, NEW enabled \in SUBSET Caps, NEW removed \in SUBSET Caps,
         MessageCapAck(enabled, removed)
  PROVE  Good(server')
  <1> DEFINE li == (server.cap_list \ removed) \cup enabled
             ac == (server.acked \ removed) \cup enabled
             timer == server.hook_timer_sasl \/ "sasl" \in enabled
             done == server.sasl_done /\ "sasl" \notin enabled
             t == [server EXCEPT !.cap_list = li, !.acked = ac,
                                 !.hook_timer_sasl = timer, !.sasl_done = done]
  <1>1. Good(server) /\ server \in Server /\ server.sock
    BY DEF IInv, Good, MessageCapAck, Handling, CanHandle
  <1>2. li \in SUBSET Caps /\ ac \in SUBSET Caps
    BY <1>1 DEF Server
  <1>3. timer \in BOOLEAN /\ done \in BOOLEAN
    BY <1>1 DEF Server
  <1>4. server.cap_list = server.acked => li = ac
    OBVIOUS
  <1>5. server' = t
    BY DEF MessageCapAck
  <1> HIDE DEF li, ac, timer, done
  <1>6. t \in Server
    BY <1>1, <1>2, <1>3, ZenonT(60) DEF Server
  <1>7. /\ t.hook_connect = server.hook_connect /\ t.sock = server.sock
        /\ t.is_connected = server.is_connected
        /\ t.hook_timer_connection = server.hook_timer_connection
    BY <1>1 DEF Server
  <1>8. SameWish(t, server)
    BY <1>1 DEF Server, SameWish
  <1>9. /\ t.cap_ls = server.cap_ls /\ t.offered = server.offered
        /\ t.cap_list = li /\ t.acked = ac
    BY <1>1 DEF Server
  <1> HIDE DEF t
  <1>10. Sound(t) /\ Timed(t) /\ Remembered(t)
    BY <1>1, <1>7, <1>8 DEF Good, Sound, Timed, Remembered, SameWish
  <1>11. Fresh(t)
    BY <1>1, <1>4, <1>7, <1>9 DEF Good, Fresh
  <1>12. QED
    BY <1>5, <1>6, <1>10, <1>11 DEF Good

LEMMA MessageCapNewStep ==
  ASSUME IInv, NEW added \in SUBSET Caps, MessageCapNew(added)
  PROVE  Good(server')
  <1> DEFINE ls == server.cap_ls \cup added
             of == server.offered \cup added
             t == [server EXCEPT !.cap_ls = ls, !.offered = of]
  <1>1. Good(server) /\ server \in Server /\ server.sock
    BY DEF IInv, Good, MessageCapNew, Handling, CanHandle
  <1>2. ls \in SUBSET Caps /\ of \in SUBSET Caps
    BY <1>1 DEF Server
  <1>3. server.cap_ls = server.offered => ls = of
    OBVIOUS
  <1>4. server' = t
    BY DEF MessageCapNew
  <1> HIDE DEF ls, of
  <1>5. t \in Server
    BY <1>1, <1>2, ZenonT(60) DEF Server
  <1>6. SameLink(t, server)
    BY <1>1 DEF Server, SameLink
  <1>7. SameWish(t, server)
    BY <1>1 DEF Server, SameWish
  <1>8. /\ t.cap_list = server.cap_list /\ t.acked = server.acked
        /\ t.cap_ls = ls /\ t.offered = of
    BY <1>1 DEF Server
  <1> HIDE DEF t
  <1>9. QED
    BY <1>1, <1>3, <1>4, <1>5, <1>6, <1>7, <1>8, SaidGood

LEMMA MessageCapDelStep ==
  ASSUME IInv, NEW removed \in SUBSET Caps, MessageCapDel(removed)
  PROVE  Good(server')
  <1> DEFINE ls == server.cap_ls \ removed
             of == server.offered \ removed
             li == server.cap_list \ removed
             ac == server.acked \ removed
             t == [server EXCEPT !.cap_ls = ls, !.cap_list = li,
                                 !.offered = of, !.acked = ac]
  <1>1. Good(server) /\ server \in Server /\ server.sock
    BY DEF IInv, Good, MessageCapDel, Handling, CanHandle
  <1>2. ls \in SUBSET Caps /\ of \in SUBSET Caps /\ li \in SUBSET Caps /\ ac \in SUBSET Caps
    BY <1>1 DEF Server
  <1>3. /\ server.cap_ls = server.offered => ls = of
        /\ server.cap_list = server.acked => li = ac
    OBVIOUS
  <1>4. server' = t
    BY DEF MessageCapDel
  <1> HIDE DEF ls, of, li, ac
  <1>5. t \in Server
    BY <1>1, <1>2, ZenonT(60) DEF Server
  <1>6. SameLink(t, server)
    BY <1>1 DEF Server, SameLink
  <1>7. SameWish(t, server)
    BY <1>1 DEF Server, SameWish
  <1>8. t.cap_list = li /\ t.acked = ac /\ t.cap_ls = ls /\ t.offered = of
    BY <1>1 DEF Server
  <1> HIDE DEF t
  <1>9. QED
    BY <1>1, <1>3, <1>4, <1>5, <1>6, <1>7, <1>8, SaidGood

(***************************************************************************)
(* The messages that move one flag the invariant does not speak of.        *)
(***************************************************************************)
LEMMA FlagGood ==
  ASSUME NEW s, Good(s), NEW b \in BOOLEAN
  PROVE  Good([s EXCEPT !.sasl_done = b]) /\ Good([s EXCEPT !.lag_check = b])
  <1> DEFINE t == [s EXCEPT !.sasl_done = b]
             u == [s EXCEPT !.lag_check = b]
  <1>1. s \in Server
    BY DEF Good
  <1>2. t \in Server /\ u \in Server
    BY <1>1, ZenonT(60) DEF Server
  <1>3. SameLink(t, s) /\ SameCaps(t, s) /\ SameWish(t, s)
    BY <1>1 DEF Server, SameLink, SameCaps, SameWish
  <1>4. SameLink(u, s) /\ SameCaps(u, s) /\ SameWish(u, s)
    BY <1>1 DEF Server, SameLink, SameCaps, SameWish
  <1> HIDE DEF t, u
  <1>5. Good(t) /\ Good(u)
    BY <1>2, <1>3, <1>4, SameGood
  <1>6. QED
    BY <1>5 DEF t, u

LEMMA HandleMessageStep ==
  ASSUME IInv, HandleMessage
  PROVE  Good(server')
  <1>1. Good(server)
    BY DEF IInv
  <1>2. CASE MessageSaslOk
    BY <1>1, <1>2, FlagGood DEF MessageSaslOk
  <1>3. CASE MessageSaslFail
    BY <1>1, <1>3, FlagGood, SaslFailsGood DEF MessageSaslFail
  <1>4. CASE MessagePong
    BY <1>1, <1>4, FlagGood DEF MessagePong
  <1>5. CASE MessageOther
    BY <1>1, <1>5 DEF MessageOther
  <1>6. QED
    BY <1>2, <1>3, <1>4, <1>5, Message001Step, MessageErrorStep, MessageCapLsStep,
       MessageCapListStep, MessageCapAckStep, MessageCapNewStep, MessageCapDelStep
       DEF HandleMessage

-----------------------------------------------------------------------------
(***************************************************************************)
(* The queue of messages keeps its bound, and no step undoes the start.    *)
(***************************************************************************)
LEMMA QueueStep ==
  ASSUME IInv, Next, ~AutoConnect
  PROVE  msgq' \in 0 .. MaxBatch /\ started /\ started'
  <1>1. msgq \in 0 .. MaxBatch /\ MaxBatch \in Nat
    BY ServerAssumption DEF IInv
  <1>2. CASE HandleMessage
    <2>1. started /\ started' = started /\ msgq' = msgq - 1 /\ msgq > 0
      BY <1>2 DEF HandleMessage, Message001, MessageError, MessageSaslOk,
                  MessageSaslFail, MessagePong, MessageOther, MessageCapLs,
                  MessageCapList, MessageCapAck, MessageCapNew, MessageCapDel,
                  Handling
    <2>2. QED
      BY <1>1, <2>1
  <1> DEFINE kept == /\ started
                     /\ started' = started
                     /\ msgq' \in 0 .. MaxBatch
  <1>3. ASSUME Commands PROVE kept
    <2>1. UserDisconnect \/ BufferClose => kept
      BY <1>1 DEF UserDisconnect, BufferClose
    <2>2. Upgrade => kept
      BY <1>1 DEF Upgrade
    <2>3. \A sw \in BOOLEAN : UserConnect(sw) => kept
      BY <1>1 DEF UserConnect
    <2>4. \A sw \in BOOLEAN : UserReconnect(sw) => kept
      BY <1>1 DEF UserReconnect
    <2>5. QED
      BY <1>3, <2>1, <2>2, <2>3, <2>4 DEF Commands
  <1>4. ASSUME MainLoop PROVE kept
    <2>1. ConnectOk => kept
      BY <1>1 DEF ConnectOk, Idle
    <2>2. \A charged \in BOOLEAN : ConnectFails(charged) => kept
      BY <1>1 DEF ConnectFails, Idle
    <2>3. \A n \in 0 .. MaxBatch, lost \in BOOLEAN : Receive(n, lost) => kept
      BY <1>1 DEF Receive, Idle
    <2>4. TimerConnection \/ TimerSasl => kept
      BY <1>1 DEF TimerConnection, TimerSasl, Idle
    <2>5. TimerReconnect \/ TimerLag => kept
      BY <1>1 DEF TimerReconnect, TimerLag, Idle
    <2>6. QED
      BY <1>4, <2>1, <2>2, <2>3, <2>4, <2>5 DEF MainLoop, ConnectAnswer
  <1>5. kept => msgq' \in 0 .. MaxBatch /\ started /\ started'
    BY SMT
  <1> HIDE DEF kept
  <1>6. QED
    BY <1>2, <1>3, <1>4, <1>5 DEF Next

LEMMA IInvStep ==
  ASSUME IInv, [Next]_vars
  PROVE  IInv'
  <1>1. CASE UNCHANGED vars
    BY <1>1 DEF IInv, vars
  <1>2. CASE AutoConnect
    BY <1>2, AutoConnectStep
  <1>3. CASE Next /\ ~AutoConnect
    <2>1. ASSUME Commands PROVE Good(server')
      BY <1>3, <2>1, UserConnectStep, UserDisconnectStep, UserReconnectStep,
         BufferCloseStep, UpgradeStep DEF Commands
    <2>2. ASSUME MainLoop PROVE Good(server')
      BY <2>2, ConnectOkStep, ConnectFailsStep, ReceiveStep, TimerConnectionStep,
         TimerSaslStep, TimerReconnectStep, TimerLagStep
         DEF MainLoop, ConnectAnswer
    <2>3. Good(server')
      BY <1>3, <2>1, <2>2, HandleMessageStep DEF Next
    <2>4. QED
      BY <1>3, <2>3, QueueStep DEF IInv
  <1>4. QED
    BY <1>1, <1>2, <1>3

LEMMA IInvInit ==
  ASSUME Init
  PROVE  IInv
  <1>1. Good(server)
    BY NewServerGood DEF Init
  <1>2. msgq \in 0 .. MaxBatch
    BY ServerAssumption DEF Init
  <1>3. started \in BOOLEAN /\ server = NewServer
    BY DEF Init
  <1>4. QED
    BY <1>1, <1>2, <1>3 DEF IInv

(***************************************************************************)
(* The inductive invariant of the connection to a server.                  *)
(***************************************************************************)
THEOREM ServerInvariant == Spec => []IInv
  <1>1. Init => IInv
    BY IInvInit
  <1>2. IInv /\ [Next]_vars => IInv'
    BY IInvStep
  <1>3. QED
    BY <1>1, <1>2, PTL DEF Spec

(***************************************************************************)
(* The struct t_irc_server keeps its type: counts, delay and index stay in *)
(* their ranges.                                                           *)
(***************************************************************************)
THEOREM TypeCorrect == Spec => []TypeOK
  <1>1. IInv => TypeOK
    BY DEF IInv, Good, TypeOK
  <1>2. QED
    BY <1>1, ServerInvariant, PTL

(***************************************************************************)
(* One attempt at a time, no timer that outlives its connection, and no    *)
(* connected server without a socket, whatever may fail.                   *)
(***************************************************************************)
THEOREM LinkIsSound == Spec => []OneLink
  <1>1. IInv => OneLink
    BY DEF IInv, Good, Sound, OneLink, OneAttempt, TimersBelong, ConnectedHasSocket
  <1>2. QED
    BY <1>1, ServerInvariant, PTL

(***************************************************************************)
(* Without /upgrade, a login is always guarded by its timer.               *)
(***************************************************************************)
THEOREM LoginsAreTimed == "upgrade" \notin Events => (Spec => []LoginIsTimed)
  <1> SUFFICES ASSUME "upgrade" \notin Events
               PROVE  Spec => []LoginIsTimed
    OBVIOUS
  <1>1. IInv => LoginIsTimed
    BY DEF IInv, Good, Timed, LoginIsTimed
  <1>2. QED
    BY <1>1, ServerInvariant, PTL

(***************************************************************************)
(* When irc_server_connect() neither refuses nor fails at once, and        *)
(* without /upgrade, a server the user wants is never forgotten.           *)
(***************************************************************************)
THEOREM NothingIsForgotten ==
  Events \subseteq {"connect_in_login"} => (Spec => []NeverForgotten)
  <1> SUFFICES ASSUME Events \subseteq {"connect_in_login"}
               PROVE  Spec => []NeverForgotten
    OBVIOUS
  <1>1. IInv => NeverForgotten
    BY DEF IInv, Good, Remembered, NeverForgotten
  <1>2. QED
    BY <1>1, ServerInvariant, PTL

(***************************************************************************)
(* Without /connect during a login, the capabilities are those of the      *)
(* connection that is open.                                                *)
(***************************************************************************)
THEOREM CapabilitiesAreCurrent ==
  "connect_in_login" \notin Events => (Spec => []CapListIsCurrent)
  <1> SUFFICES ASSUME "connect_in_login" \notin Events
               PROVE  Spec => []CapListIsCurrent
    OBVIOUS
  <1>1. IInv => CapListIsCurrent
    BY DEF IInv, Good, Fresh, CapListIsCurrent
  <1>2. QED
    BY <1>1, ServerInvariant, PTL

-----------------------------------------------------------------------------
(***************************************************************************)
(* The rounds of addresses: for any number of addresses, any delays and    *)
(* any events, each address keeps its own retry count, and a reconnection  *)
(* waits between the first delay and the maximum.  It rests on the         *)
(* invariant above, for the types and as a server that waits for a         *)
(* reconnection has no socket, so that no message 001 resets its delay.    *)
(***************************************************************************)
\* The counts, wherever they are: that of the current address in
\* current_retry, the others put aside.
Counted(s) ==
  \A i \in Index : s.fails[i] = IF i = s.index THEN s.current_retry ELSE s.retry_array[i]

\* The delay is none, or one of a reconnection, and never none when one is due.
Delays == AUTORECONNECT_DELAY .. DELAY_MAX
Delayed(s) ==
  /\ s.reconnect_delay \in {0} \cup Delays
  /\ s.reconnect_start => s.reconnect_delay # 0

Paced(s) == s \in Server /\ Counted(s) /\ Delayed(s)

\* Two servers with the same counts, or the same schedule.
SameCounts(s, t) ==
  /\ s.index = t.index /\ s.current_retry = t.current_retry
  /\ s.retry_array = t.retry_array /\ s.fails = t.fails

SameDelay(s, t) ==
  s.reconnect_delay = t.reconnect_delay /\ s.reconnect_start = t.reconnect_start

LEMMA SamePaced ==
  ASSUME NEW s \in Server, NEW t \in Server, SameCounts(t, s), SameDelay(t, s), Paced(s)
  PROVE  Paced(t)
BY DEF Paced, Counted, Delayed, SameCounts, SameDelay
-----------------------------------------------------------------------------
(* The functions of irc-server.c.                                          *)

LEMMA DelaysFacts ==
  /\ AUTORECONNECT_DELAY \in Delays /\ 0 \notin Delays /\ Delays \subseteq 0 .. DELAY_MAX
  /\ DELAY_MAX \in Delays
BY ServerAssumption DEF Delays

LEMMA GrowDelayPaced ==
  ASSUME NEW d \in {0} \cup Delays
  PROVE  GrowDelay(d) \in Delays
<1> DEFINE grown == IF d = 0 THEN AUTORECONNECT_DELAY ELSE d * DELAY_GROWING
<1>1. grown \in Nat /\ grown >= AUTORECONNECT_DELAY
  <2>1. CASE d = 0 BY <2>1, ServerAssumption
  <2>2. CASE d # 0
    <3>1. d \in Nat /\ d >= AUTORECONNECT_DELAY BY <2>2, ServerAssumption DEF Delays
    <3>2. DELAY_GROWING \in Nat /\ DELAY_GROWING >= 1 BY ServerAssumption
    <3>3. d * DELAY_GROWING >= d /\ d * DELAY_GROWING \in Nat BY <3>1, <3>2
    <3>4. QED BY <2>2, <3>1, <3>3, ServerAssumption
  <2>3. QED BY <2>1, <2>2
<1>2. GrowDelay(d) = IF grown > DELAY_MAX THEN DELAY_MAX ELSE grown BY DEF GrowDelay
<1> HIDE DEF grown
<1>3. QED BY <1>1, <1>2, ServerAssumption DEF Delays

LEMMA SchedulePaced ==
  ASSUME NEW s \in Server, Paced(s)
  PROVE  Paced(ReconnectSchedule(s)) /\ Paced(Unscheduled(s))
<1>1. Unscheduled(s) = [s EXCEPT !.reconnect_delay = 0, !.reconnect_start = FALSE]
  BY DEF Unscheduled
<1>2. 0 \in 0 .. DELAY_MAX BY ServerAssumption
<1>3. Paced(Unscheduled(s))
  <2>1. Unscheduled(s) \in Server BY UnscheduledFacts
  <2>2. SameCounts(Unscheduled(s), s) BY <1>1 DEF SameCounts, Server
  <2>3. Delayed(Unscheduled(s)) BY <1>1 DEF Delayed, Server
  <2>4. QED BY <2>1, <2>2, <2>3 DEF Paced, Counted, SameCounts
<1>4. CASE AUTORECONNECT
  <2>1. s.reconnect_delay \in {0} \cup Delays BY DEF Paced, Delayed
  <2> DEFINE d == GrowDelay(s.reconnect_delay)
  <2>2. d \in Delays /\ d \in 0 .. DELAY_MAX /\ d # 0
    BY <2>1, GrowDelayPaced, DelaysFacts
  <2>3. ReconnectSchedule(s) = [s EXCEPT !.reconnect_delay = d, !.reconnect_start = TRUE]
    BY <1>4 DEF ReconnectSchedule
  <2> HIDE DEF d
  <2>4. ReconnectSchedule(s) \in Server BY ScheduleFacts
  <2>5. SameCounts(ReconnectSchedule(s), s) BY <2>3 DEF SameCounts, Server
  <2>6. Delayed(ReconnectSchedule(s))
    <3>1. ReconnectSchedule(s).reconnect_delay = d BY <2>3 DEF Server
    <3>2. QED BY <2>2, <3>1 DEF Delayed
  <2>7. QED BY <1>3, <2>4, <2>5, <2>6 DEF Paced, Counted, SameCounts
<1>5. CASE ~AUTORECONNECT BY <1>3, <1>5 DEF ReconnectSchedule
<1>6. QED BY <1>4, <1>5

LEMMA ClosePaced ==
  ASSUME NEW s \in Server
  PROVE  /\ CloseConnection(s) \in Server
         /\ SameCounts(CloseConnection(s), s) /\ SameDelay(CloseConnection(s), s)
         /\ Paced(s) => Paced(CloseConnection(s))
<1>1. CloseConnection(s) \in Server BY CloseConnectionFacts
<1>2. SameCounts(CloseConnection(s), s) BY DEF CloseConnection, SameCounts, Server
<1>3. SameDelay(CloseConnection(s), s) BY DEF CloseConnection, SameDelay, Server
<1>4. QED BY <1>1, <1>2, <1>3, SamePaced

LEMMA SetIndexPaced ==
  ASSUME NEW s \in Server, NEW i \in Index, Paced(s)
  PROVE  SetIndex(s, i) \in Server /\ Paced(SetIndex(s, i))
<1>1. SetIndex(s, i) \in Server BY SetIndexFacts
<1> DEFINE stored == [s.retry_array EXCEPT ![s.index] = s.current_retry]
<1>2. SetIndex(s, i) = [s EXCEPT !.retry_array = stored, !.index = i,
                                 !.current_retry = stored[i]]
  BY DEF SetIndex
<1>3. \A j \in Index : stored[j] = s.fails[j] BY DEF Paced, Counted, Server
<1> HIDE DEF stored
<1>4. Counted(SetIndex(s, i)) BY <1>2, <1>3 DEF Counted, Server
<1>5. Delayed(SetIndex(s, i)) BY <1>2 DEF Paced, Delayed, Server
<1>6. QED BY <1>1, <1>4, <1>5 DEF Paced

LEMMA NextAddressPaced ==
  ASSUME NEW s \in Server, Paced(s)
  PROVE  NextAddress(s) \in Server /\ Paced(NextAddress(s))
<1>1. (s.index + 1) % Addresses \in Index BY IndexFacts DEF Server
<1>2. QED BY <1>1, SetIndexPaced DEF NextAddress

LEMMA OpenedPaced ==
  ASSUME NEW s \in Server, NEW ssl \in BOOLEAN, Paced(s)
  PROVE  Opened(s, ssl) \in Server /\ Paced(Opened(s, ssl))
<1>1. CloseConnection(s) \in Server /\ Paced(CloseConnection(s)) BY ClosePaced
<1> DEFINE c == CloseConnection(s)
           sess == c.gnutls_sess \/ ssl
<1>2. Opened(s, ssl) = [c EXCEPT !.ssl_connected = ssl, !.gnutls_sess = sess]
  BY DEF Opened
<1>3. sess \in BOOLEAN OBVIOUS
<1>4. c \in Server /\ Paced(c) BY <1>1
<1> HIDE DEF c, sess
<1>5. Opened(s, ssl) \in Server BY OpenedFacts
<1>6. SameCounts(Opened(s, ssl), c) /\ SameDelay(Opened(s, ssl), c)
  BY <1>2, <1>4 DEF SameCounts, SameDelay, Server
<1>7. QED BY <1>4, <1>5, <1>6, SamePaced

LEMMA FailedPaced ==
  ASSUME NEW s \in Server, NEW charged \in BOOLEAN, Paced(s)
  PROVE  Failed(s, charged) \in Server /\ Paced(Failed(s, charged))
<1> DEFINE h == [s EXCEPT !.hook_connect = "none"]
           c == CloseConnection(h)
<1>1. h \in Server BY DEF Server
<1>2. SameCounts(h, s) /\ SameDelay(h, s) BY DEF SameCounts, SameDelay, Server
<1>3. Paced(h) BY <1>1, <1>2, SamePaced
<1>4. Failed(s, charged) \in Server BY FailedFacts
<1> HIDE DEF h
<1>5. c \in Server /\ Paced(c) /\ SameCounts(c, h) BY <1>1, <1>3, ClosePaced
<1>6. Failed(s, charged) = IF charged
        THEN [c EXCEPT !.current_retry = Bump(c.current_retry),
                       !.fails[s.index] = Bump(c.fails[s.index])]
        ELSE c
  BY DEF Failed, h
<1>7. c.index = s.index BY <1>2, <1>5 DEF SameCounts
<1> HIDE DEF c
<1>8. CASE charged
  <2>1. c.fails[c.index] = c.current_retry BY <1>5 DEF Paced, Counted, Server
  <2> DEFINE b == Bump(c.current_retry)
  <2>2. Failed(s, charged) = [c EXCEPT !.current_retry = b, !.fails[c.index] = b]
    BY <1>6, <1>7, <1>8, <2>1
  <2> HIDE DEF b
  <2>3. Counted(Failed(s, charged)) BY <1>5, <2>2 DEF Paced, Counted, Server
  <2>4. Delayed(Failed(s, charged)) BY <1>5, <2>2 DEF Paced, Delayed, Server
  <2>5. QED BY <1>4, <2>3, <2>4 DEF Paced
<1>9. CASE ~charged BY <1>4, <1>5, <1>6, <1>9
<1>10. QED BY <1>8, <1>9

\* irc_server_connect(), whatever it answers.
LEMMA ConnectsPaced ==
  ASSUME NEW s \in Server, Paced(s), NEW c \in Connects(s)
  PROVE  c.server \in Server /\ Paced(c.server)
<1> DEFINE n == [s EXCEPT !.disconnected = FALSE]
           a == SetIndex(n, s.index)
           began(ssl) == [Opened(a, ssl) EXCEPT !.hook_connect = "pending"]
           failed(ssl, charged) == ReconnectSchedule(Failed(Opened(a, ssl), charged))
           freed(ssl, charged) == [failed(ssl, charged) EXCEPT !.hook_connect = "freed"]
<1>1. n \in Server /\ s.index \in Index BY DEF Server
<1>2. SameCounts(n, s) /\ SameDelay(n, s) BY DEF SameCounts, SameDelay, Server
<1>3. Paced(n) BY <1>1, <1>2, SamePaced
<1>4. Connects(s) =
             {[ok |-> TRUE, server |-> began(ssl)] : ssl \in BOOLEAN}
        \cup {[ok |-> FALSE, server |-> a] : e \in Events \cap {"config_error"}}
        \cup {[ok |-> TRUE, server |-> freed(ssl, charged)] :
                ssl \in BOOLEAN, charged \in BOOLEAN,
                e \in Events \cap {"sync_failure"}}
  BY DEF Connects
<1> HIDE DEF n
<1>5. a \in Server /\ Paced(a) BY <1>1, <1>3, SetIndexPaced
<1> HIDE DEF a
<1>6. ASSUME NEW t \in Server, Paced(t), NEW h \in {"pending", "freed"}
      PROVE  Paced([t EXCEPT !.hook_connect = h])
  <2>1. [t EXCEPT !.hook_connect = h] \in Server BY <1>6 DEF Server
  <2>2. /\ SameCounts([t EXCEPT !.hook_connect = h], t)
        /\ SameDelay([t EXCEPT !.hook_connect = h], t)
    BY DEF SameCounts, SameDelay, Server
  <2>3. QED BY <1>6, <2>1, <2>2, SamePaced
<1>7. ASSUME NEW ssl \in BOOLEAN PROVE Paced(began(ssl))
  BY <1>5, <1>6, OpenedPaced
<1>8. ASSUME NEW ssl \in BOOLEAN, NEW charged \in BOOLEAN
      PROVE  Paced(freed(ssl, charged))
  <2>1. Opened(a, ssl) \in Server /\ Paced(Opened(a, ssl)) BY <1>5, OpenedPaced
  <2>2. /\ Failed(Opened(a, ssl), charged) \in Server
        /\ Paced(Failed(Opened(a, ssl), charged))
    BY <2>1, FailedPaced
  <2>3. Paced(failed(ssl, charged)) BY <2>2, SchedulePaced
  <2>4. failed(ssl, charged) \in Server BY <2>3 DEF Paced
  <2> HIDE DEF failed
  <2>5. QED BY <1>6, <2>3, <2>4
<1> HIDE DEF began, failed, freed
<1>9. Paced(c.server) BY <1>4, <1>5, <1>7, <1>8
<1>10. QED BY <1>9 DEF Paced

LEMMA SwitchAddressPaced ==
  ASSUME NEW s \in Server, Paced(s), NEW t \in SwitchAddress(s)
  PROVE  Paced(t)
<1>1. NextAddress(s) \in Server /\ Paced(NextAddress(s)) BY NextAddressPaced
<1>2. \/ \E c \in Connects(NextAddress(s)) : t = c.server
      \/ t = ReconnectSchedule(NextAddress(s))
  BY DEF SwitchAddress
<1>3. QED BY <1>1, <1>2, ConnectsPaced, SchedulePaced

\* irc_server_disconnect() starts the counts of the address again.
LEMMA DisconnectPaced ==
  ASSUME NEW s \in Server, Paced(s),
         NEW switch_address \in BOOLEAN, NEW reconnect \in BOOLEAN
  PROVE  /\ Disconnect(s, switch_address, reconnect) \in Server
         /\ Paced(Disconnect(s, switch_address, reconnect))
<1> DEFINE w == s.wants /\ reconnect
           c == CloseConnection(s)
           z == [c EXCEPT !.current_retry = 0, !.fails[s.index] = 0, !.wants = w]
           a == IF switch_address THEN NextAddress(z) ELSE SetIndex(z, 0)
           r == ResetSession(a)
           d == IF reconnect THEN ReconnectSchedule(r) ELSE Unscheduled(r)
<1>1. /\ c \in Server /\ Paced(c) /\ SameCounts(c, s) BY ClosePaced
<1>2. c.wants = s.wants BY CloseConnectionFacts DEF SameWish
<1>3. w \in BOOLEAN /\ s.index \in Index /\ 0 \in 0 .. MaxRetry
  BY ServerAssumption DEF Server
<1>4. Disconnect(s, switch_address, reconnect) = d BY <1>2 DEF Disconnect
<1>5. c.index = s.index BY <1>1 DEF SameCounts
<1> HIDE DEF c, w
<1>6. z \in Server BY <1>1, <1>3, ZenonT(60) DEF Server
<1>7. Counted(z) BY <1>1, <1>3, <1>5 DEF Paced, Counted, Server
<1>8. Delayed(z) BY <1>1 DEF Paced, Delayed, Server
<1>9. Paced(z) BY <1>6, <1>7, <1>8 DEF Paced
<1> HIDE DEF z
<1>10. a \in Server /\ Paced(a)
  BY <1>6, <1>9, NextAddressPaced, SetIndexPaced, IndexFacts
<1> HIDE DEF a
<1>11. r \in Server BY <1>10, ZenonT(60) DEF ResetSession, Server
<1>12. SameCounts(r, a) /\ SameDelay(r, a)
  BY <1>10 DEF ResetSession, SameCounts, SameDelay, Server
<1>13. Paced(r) BY <1>10, <1>11, <1>12, SamePaced
<1> HIDE DEF r
<1>14. Paced(d) BY <1>11, <1>13, SchedulePaced
<1> HIDE DEF d
<1>15. QED BY <1>4, <1>14 DEF Paced

LEMMA SaslFailsPaced ==
  ASSUME NEW s \in Server, Paced(s), NEW f \in SASL_FAIL
  PROVE  Paced(SaslFails(s, f))
<1>1. (f = "reconnect") \in BOOLEAN OBVIOUS
<1>2. Paced(Disconnect(s, FALSE, f = "reconnect")) BY <1>1, DisconnectPaced
<1>3. QED BY <1>2 DEF SaslFails

\* The wish of the user is no part of it.
LEMMA WishPaced ==
  ASSUME NEW s \in Server, Paced(s), NEW w \in BOOLEAN
  PROVE  /\ [s EXCEPT !.wants = w] \in Server
         /\ Paced([s EXCEPT !.wants = w])
<1>1. [s EXCEPT !.wants = w] \in Server BY DEF Server
<1>2. SameCounts([s EXCEPT !.wants = w], s) /\ SameDelay([s EXCEPT !.wants = w], s)
  BY DEF SameCounts, SameDelay, Server
<1>3. QED BY <1>1, <1>2, SamePaced

LEMMA AskedPaced ==
  ASSUME NEW s \in Server, Paced(s), NEW c \in Connects(s)
  PROVE  Paced(Asked(c))
<1>1. c.server \in Server /\ Paced(c.server) BY ConnectsPaced
<1>2. Unscheduled(c.server) \in Server /\ Paced(Unscheduled(c.server))
  BY <1>1, SchedulePaced DEF Paced
<1>3. Asked(c) = IF c.ok THEN [Unscheduled(c.server) EXCEPT !.wants = TRUE] ELSE c.server
  BY DEF Asked
<1>4. QED BY <1>1, <1>2, <1>3, WishPaced
-----------------------------------------------------------------------------
(* The actions.  IInv gives the types before a step, and IInv' after it.   *)

PacedNow == IInv /\ Paced(server) /\ server \in Server

LEMMA AutoConnectPaced ==
  ASSUME PacedNow, AutoConnect
  PROVE  Paced(server')
<1>1. \/ server' = server
      \/ \E c \in Connects(server) :
           server' = IF c.ok THEN [c.server EXCEPT !.wants = TRUE]
                     ELSE ReconnectSchedule([c.server EXCEPT !.wants = TRUE])
  BY DEF AutoConnect
<1>2. ASSUME NEW c \in Connects(server)
      PROVE  /\ Paced([c.server EXCEPT !.wants = TRUE])
             /\ Paced(ReconnectSchedule([c.server EXCEPT !.wants = TRUE]))
  <2>1. c.server \in Server /\ Paced(c.server) BY ConnectsPaced DEF PacedNow
  <2>2. /\ [c.server EXCEPT !.wants = TRUE] \in Server
        /\ Paced([c.server EXCEPT !.wants = TRUE])
    BY <2>1, WishPaced
  <2>3. QED BY <2>2, SchedulePaced
<1>3. QED BY <1>1, <1>2 DEF PacedNow

LEMMA UserConnectPaced ==
  ASSUME PacedNow, NEW switch_address \in BOOLEAN, UserConnect(switch_address)
  PROVE  Paced(server')
<1> DEFINE s == IF switch_address THEN NextAddress(server) ELSE server
<1>1. s \in Server /\ Paced(s) BY NextAddressPaced DEF PacedNow
<1>2. \E c \in Connects(s) : server' = Asked(c) BY DEF UserConnect
<1> HIDE DEF s
<1>3. QED BY <1>1, <1>2, AskedPaced

LEMMA UserDisconnectPaced ==
  ASSUME PacedNow, UserDisconnect
  PROVE  Paced(server')
BY DisconnectPaced DEF PacedNow, UserDisconnect

LEMMA UserReconnectPaced ==
  ASSUME PacedNow, NEW switch_address \in BOOLEAN, UserReconnect(switch_address)
  PROVE  Paced(server')
<1> DEFINE active == \/ server.is_connected \/ server.sock
                     \/ server.hook_connect # "none"
           s == IF active THEN Disconnect(server, switch_address, FALSE)
                ELSE IF switch_address THEN NextAddress(server) ELSE server
<1>1. s \in Server /\ Paced(s) BY NextAddressPaced, DisconnectPaced DEF PacedNow
<1>2. \E c \in Connects(s) : server' = Asked(c) BY DEF UserReconnect
<1> HIDE DEF s
<1>3. QED BY <1>1, <1>2, AskedPaced

LEMMA BufferClosePaced ==
  ASSUME PacedNow, BufferClose
  PROVE  Paced(server')
<1> DEFINE d == IF server.disconnected THEN server
                ELSE Disconnect(server, FALSE, FALSE)
<1>1. d \in Server /\ Paced(d) BY DisconnectPaced DEF PacedNow
<1>2. server' = [Unscheduled(d) EXCEPT !.wants = FALSE] BY DEF BufferClose
<1> HIDE DEF d
<1>3. Unscheduled(d) \in Server /\ Paced(Unscheduled(d)) BY <1>1, SchedulePaced DEF Paced
<1>4. QED BY <1>2, <1>3, WishPaced

\* /upgrade forgets the counts of all the addresses.
LEMMA UpgradePaced ==
  ASSUME PacedNow, IInv', Upgrade
  PROVE  Paced(server')
<1> DEFINE d == Disconnect(server, FALSE, FALSE)
           e == [d EXCEPT !.index = 0, !.reconnect_delay = AUTORECONNECT_DELAY,
                          !.reconnect_start = TRUE, !.wants = server.wants]
           s == IF server.is_connected /\ server.ssl_connected THEN e ELSE server
           zero == [i \in Index |-> 0]
           t == [s EXCEPT !.hook_connect = "none",
                          !.hook_timer_connection = FALSE,
                          !.hook_timer_sasl = FALSE, !.gnutls_sess = FALSE,
                          !.checking_cap_ls = FALSE,
                          !.checking_cap_list = FALSE,
                          !.current_retry = 0, !.retry_array = zero,
                          !.fails = zero]
<1>1. d \in Server BY DisconnectPaced DEF PacedNow
<1>2. server' = t BY Zenon DEF Upgrade
<1>3. t \in Server BY <1>2 DEF IInv, Good
<1> HIDE DEF d
<1>4. AUTORECONNECT_DELAY \in Delays /\ 0 \notin Delays BY DelaysFacts
<1>5. AUTORECONNECT_DELAY \in 0 .. DELAY_MAX /\ 0 \in Index /\ server.wants \in BOOLEAN
  BY ServerAssumption, IndexFacts DEF PacedNow, Server
<1>6. e \in Server BY <1>1, <1>5, ZenonT(60) DEF Server
<1>7. Delayed(e) BY <1>1, <1>4 DEF Delayed, Server
<1> HIDE DEF e
<1>8. s \in Server /\ Delayed(s) BY <1>6, <1>7 DEF PacedNow, Paced
<1> HIDE DEF s
<1>9. SameDelay(t, s) BY <1>8 DEF SameDelay, Server
<1>10. Delayed(t) BY <1>8, <1>9 DEF Delayed, SameDelay
<1>11. Counted(t) BY <1>8 DEF Counted, Server
<1>12. QED BY <1>2, <1>3, <1>10, <1>11 DEF Paced

LEMMA ConnectAnswerPaced ==
  ASSUME PacedNow, ConnectAnswer
  PROVE  Paced(server')
<1>1. CASE ConnectOk
  <2>1. server' = Login(server) BY <1>1 DEF ConnectOk
  <2>2. Login(server) \in Server BY Zenon DEF PacedNow, Login, Server
  <2>3. SameCounts(Login(server), server) /\ SameDelay(Login(server), server)
    BY DEF PacedNow, Login, SameCounts, SameDelay, Server
  <2>4. QED BY <2>1, <2>2, <2>3, SamePaced DEF PacedNow
<1>2. ASSUME NEW charged \in BOOLEAN, ConnectFails(charged)
      PROVE  Paced(server')
  <2>1. /\ Failed(server, charged) \in Server
        /\ Paced(Failed(server, charged))
    BY FailedPaced DEF PacedNow
  <2>2. \/ server' \in SwitchAddress(Failed(server, charged))
        \/ server' = ReconnectSchedule(Failed(server, charged))
    BY <1>2 DEF ConnectFails
  <2>3. QED BY <2>1, <2>2, SwitchAddressPaced, SchedulePaced
<1>3. QED BY <1>1, <1>2 DEF ConnectAnswer

LEMMA ReceivePaced ==
  ASSUME PacedNow, NEW n \in 0 .. MaxBatch, NEW lost \in BOOLEAN, Receive(n, lost)
  PROVE  Paced(server')
<1>1. (~server.is_connected) \in BOOLEAN OBVIOUS
<1>2. QED BY <1>1, DisconnectPaced DEF PacedNow, Receive

LEMMA TimersPaced ==
  ASSUME PacedNow, TimerConnection \/ TimerSasl \/ TimerReconnect \/ TimerLag
  PROVE  Paced(server')
<1>1. CASE TimerConnection
  <2> DEFINE s == [server EXCEPT !.hook_timer_connection = FALSE]
  <2>1. s \in Server BY Zenon DEF PacedNow, Server
  <2>2. SameCounts(s, server) /\ SameDelay(s, server)
    BY DEF PacedNow, SameCounts, SameDelay, Server
  <2>3. server' = IF s.is_connected THEN s ELSE Disconnect(s, TRUE, TRUE)
    BY <1>1 DEF TimerConnection
  <2> HIDE DEF s
  <2>4. Paced(s) BY <2>1, <2>2, SamePaced DEF PacedNow
  <2>5. QED BY <2>1, <2>3, <2>4, DisconnectPaced
<1>2. CASE TimerSasl
  <2> DEFINE s == [server EXCEPT !.hook_timer_sasl = FALSE]
  <2>1. s \in Server BY Zenon DEF PacedNow, Server
  <2>2. SameCounts(s, server) /\ SameDelay(s, server)
    BY DEF PacedNow, SameCounts, SameDelay, Server
  <2>3. PICK f \in SASL_FAIL :
          server' = IF s.is_connected THEN s ELSE SaslFails(s, f)
    BY <1>2 DEF TimerSasl
  <2> HIDE DEF s
  <2>4. Paced(s) BY <2>1, <2>2, SamePaced DEF PacedNow
  <2>5. QED BY <2>1, <2>3, <2>4, SaslFailsPaced
<1>3. CASE TimerReconnect
  <2> DEFINE s == [server EXCEPT !.reconnect_start = FALSE]
  <2>1. s \in Server BY Zenon DEF PacedNow, Server
  <2>2. SameCounts(s, server) BY DEF PacedNow, SameCounts, Server
  <2>3. Delayed(s) BY DEF PacedNow, Paced, Delayed, Server
  <2>4. PICK c \in Connects(s) :
          server' = IF c.ok THEN c.server ELSE ReconnectSchedule(c.server)
    BY <1>3 DEF TimerReconnect, Reconnect
  <2> HIDE DEF s
  <2>5. Paced(s) BY <2>1, <2>2, <2>3 DEF PacedNow, Paced, Counted, SameCounts
  <2>6. c.server \in Server /\ Paced(c.server) BY <2>1, <2>5, ConnectsPaced
  <2>7. QED BY <2>4, <2>6, SchedulePaced
<1>4. CASE TimerLag
  <2>1. ASSUME NEW b \in BOOLEAN PROVE Paced([server EXCEPT !.lag_check = b])
    <3> DEFINE s == [server EXCEPT !.lag_check = b]
    <3>1. s \in Server BY Zenon DEF PacedNow, Server
    <3>2. SameCounts(s, server) /\ SameDelay(s, server)
      BY DEF PacedNow, SameCounts, SameDelay, Server
    <3>3. QED BY <3>1, <3>2, SamePaced DEF PacedNow
  <2>2. Paced(Disconnect(server, FALSE, TRUE)) BY DisconnectPaced DEF PacedNow
  <2>3. \/ \E b \in BOOLEAN : server' = [server EXCEPT !.lag_check = b]
        \/ server' = Disconnect(server, FALSE, TRUE)
    BY <1>4, Zenon DEF TimerLag
  <2>4. QED BY <2>1, <2>2, <2>3
<1>5. QED BY <1>1, <1>2, <1>3, <1>4
-----------------------------------------------------------------------------
(* The messages.  001 resets the delay: while a reconnection is due there  *)
(* is no socket to read it from.                                           *)

LEMMA Message001Paced ==
  ASSUME PacedNow, IInv', Message001
  PROVE  Paced(server')
<1>1. server' \in Server BY DEF IInv, Good
<1>2. server' = [server EXCEPT !.is_connected = TRUE, !.reconnect_delay = 0,
                               !.hook_timer_connection = FALSE]
  BY DEF Message001
<1>3. ~server.reconnect_start
  BY DEF PacedNow, IInv, Good, Sound, Message001, Handling, CanHandle
<1>4. SameCounts(server', server) BY <1>2 DEF PacedNow, SameCounts, Server
<1>5. Delayed(server') BY <1>2, <1>3 DEF PacedNow, Delayed, Server
<1>6. QED BY <1>1, <1>4, <1>5 DEF PacedNow, Paced, Counted, SameCounts

LEMMA CapLsPaced ==
  ASSUME PacedNow, IInv', NEW part \in SUBSET Caps, NEW last \in BOOLEAN,
         MessageCapLs(part, last)
  PROVE  Paced(server')
<1> DEFINE said == Listed(server.cap_ls, server.checking_cap_ls, part)
           offers == Listed(server.offered, server.checking_cap_ls, part)
           more == ~last
           s == [server EXCEPT !.cap_ls = said, !.offered = offers,
                               !.checking_cap_ls = more]
<1>1. said \in SUBSET Caps /\ offers \in SUBSET Caps /\ more \in BOOLEAN
  BY DEF PacedNow, Listed, Server
<1>2. server' = s \/ \E f \in SASL_FAIL : server' = SaslFails(s, f)
  BY DEF MessageCapLs
<1> HIDE DEF said, offers, more
<1>3. s \in Server BY <1>1, ZenonT(60) DEF PacedNow, Server
<1>4. SameCounts(s, server) /\ SameDelay(s, server)
  BY DEF PacedNow, SameCounts, SameDelay, Server
<1>5. Paced(s) BY <1>3, <1>4, SamePaced DEF PacedNow
<1> HIDE DEF s
<1>6. QED BY <1>2, <1>3, <1>5, SaslFailsPaced

LEMMA MessagePaced ==
  ASSUME PacedNow, IInv', HandleMessage
  PROVE  Paced(server')
<1> DEFINE Kept == SameCounts(server', server) /\ SameDelay(server', server)
<1>1. ASSUME Kept PROVE Paced(server')
  <2>1. server' \in Server BY DEF IInv, Good
  <2>2. QED BY <1>1, <2>1, SamePaced DEF PacedNow
<1>2. CASE Message001 BY <1>2, Message001Paced
<1>3. CASE MessageError
  <2>1. (~server.is_connected) \in BOOLEAN OBVIOUS
  <2>2. QED BY <1>3, <2>1, DisconnectPaced DEF PacedNow, MessageError
<1>4. CASE MessageSaslOk
  <2>1. Kept BY <1>4 DEF PacedNow, MessageSaslOk, SameCounts, SameDelay, Server
  <2>2. QED BY <1>1, <2>1
<1>5. CASE MessageSaslFail
  <2> DEFINE s == [server EXCEPT !.sasl_done = TRUE]
  <2>1. s \in Server BY Zenon DEF PacedNow, Server
  <2>2. SameCounts(s, server) /\ SameDelay(s, server)
    BY DEF PacedNow, SameCounts, SameDelay, Server
  <2>3. Paced(s) BY <2>1, <2>2, SamePaced DEF PacedNow
  <2>4. \E f \in SASL_FAIL : server' = SaslFails(s, f) BY <1>5 DEF MessageSaslFail
  <2> HIDE DEF s
  <2>5. QED BY <2>1, <2>3, <2>4, SaslFailsPaced
<1>6. CASE MessagePong
  <2>1. Kept BY <1>6 DEF PacedNow, MessagePong, SameCounts, SameDelay, Server
  <2>2. QED BY <1>1, <2>1
<1>7. CASE MessageOther
  <2>1. Kept BY <1>7 DEF MessageOther, SameCounts, SameDelay
  <2>2. QED BY <1>1, <2>1
<1>8. ASSUME NEW c \in SUBSET Caps, NEW last \in BOOLEAN, MessageCapList(c, last)
      PROVE  Paced(server')
  <2>1. Kept BY <1>8 DEF PacedNow, MessageCapList, SameCounts, SameDelay, Server
  <2>2. QED BY <1>1, <2>1
<1>9. ASSUME NEW c \in SUBSET Caps, NEW d \in SUBSET Caps, MessageCapAck(c, d)
      PROVE  Paced(server')
  <2>1. Kept BY <1>9 DEF PacedNow, MessageCapAck, SameCounts, SameDelay, Server
  <2>2. QED BY <1>1, <2>1
<1>10. ASSUME NEW c \in SUBSET Caps, MessageCapNew(c) \/ MessageCapDel(c)
       PROVE  Paced(server')
  <2>1. Kept
    BY <1>10 DEF PacedNow, MessageCapNew, MessageCapDel, SameCounts, SameDelay, Server
  <2>2. QED BY <1>1, <2>1
<1> HIDE DEF Kept
<1>11. QED
  BY <1>2, <1>3, <1>4, <1>5, <1>6, <1>7, <1>8, <1>9, <1>10, CapLsPaced
     DEF HandleMessage
-----------------------------------------------------------------------------
LEMMA InitPaced == Init => Paced(server)
<1>1. NewServer \in Server BY NewServerGood DEF Good
<1>2. Counted(NewServer) BY DEF Counted, NewServer
<1>3. Delayed(NewServer) BY DEF Delayed, NewServer
<1>4. QED BY <1>1, <1>2, <1>3 DEF Init, Paced

LEMMA NextPaced ==
  ASSUME IInv, IInv', Paced(server), [Next]_vars
  PROVE  Paced(server')
<1>1. PacedNow BY DEF PacedNow, Paced
<1>2. CASE Commands
  BY <1>1, <1>2, AutoConnectPaced, UserConnectPaced, UserDisconnectPaced,
     UserReconnectPaced, BufferClosePaced, UpgradePaced
     DEF Commands
<1>3. CASE MainLoop
  BY <1>1, <1>3, ConnectAnswerPaced, ReceivePaced, TimersPaced DEF MainLoop
<1>4. CASE HandleMessage BY <1>1, <1>4, MessagePaced
<1>5. CASE UNCHANGED vars BY <1>5 DEF vars
<1>6. QED BY <1>2, <1>3, <1>4, <1>5 DEF Next

(***************************************************************************)
(* Whatever fails, in whatever order and for whatever delays: each address *)
(* keeps its own retry count through the switches of address (the next IP  *)
(* is chosen from it), and a scheduled reconnection waits at least the     *)
(* first delay and at most the maximum (irc_server_switch_address(),       *)
(* irc_server_reconnect_schedule()).                                       *)
(***************************************************************************)
THEOREM RetriesStayBounded == Spec => []RetriesAreBounded
<1>1. Init => Paced(server) BY InitPaced
<1>2. IInv /\ IInv' /\ Paced(server) /\ [Next]_vars => Paced(server)'
  BY NextPaced DEF Paced, Counted, Delayed
<1>3. Paced(server) => RetriesAreBounded
  BY DEF Paced, Counted, Delayed, Delays, RetriesAreBounded, RetryPerAddress,
         DelayIsBounded
<1>4. QED BY <1>1, <1>2, <1>3, ServerInvariant, PTL DEF Spec
=============================================================================
