----------------------------- MODULE IrcChannel -----------------------------
(***************************************************************************)
(* The channels of one IRC server (plugins/irc: irc-channel.c, irc-nick.c, *)
(* the handlers of irc-protocol.c that change them, the commands that      *)
(* enter and leave them), with the network at the other end.               *)
(*                                                                         *)
(* The client learns who is in a channel, under which nick and with which  *)
(* modes, from the messages of the network only, and they cross its own:   *)
(* `sent' holds what the client wrote and the network has not read, `wire' *)
(* what the network wrote and the client has not.  The link of the client  *)
(* is reduced to its states (IrcServer models how it gets there), and the  *)
(* queues of IrcOutqueue to their order: JOIN and PART have one priority.  *)
(*                                                                         *)
(* A mode of a nick is a number, 1 for the highest; the prefixes of a nick *)
(* (irc_nick.prefixes) are the set of its modes, its prefix the least one. *)
(***************************************************************************)
EXTENDS Integers, Sequences, FiniteSets

CONSTANTS
  Channel,         \* channels of the network
  Name,            \* nicks in use on the network
  MyNames,         \* those the client may have
  Modes,           \* modes of nicks are 1..Modes
  Granted,         \* sets of modes a nick may have when the client joins
  Autojoin,        \* channels of the server option "autojoin"
  MULTI_PREFIX,    \* the capability "multi-prefix" is enabled
  AutorejoinDelays,\* {"none", "now", "later"}: options autorejoin, autorejoin_delay
  CommandDelays,   \* values of "command and command_delay are set"
  PartCloses,      \* values of the option irc.look.part_closes_buffer
  Faults,          \* what may go wrong: "ban", "kill", "bouncer", "loss"
  MaxWire, MaxSent,\* bounds: others add to no longer wire, nor the user to longer ones
  MaxTimers,       \* bound of the timers of autorejoin
  MaxLinks         \* bound of the connections

Mode  == 1 .. Modes
Timer == 1 .. MaxTimers

CONSTANTS NoNick, NoChannel, Freed

ASSUME ChannelAssumption ==
  /\ IsFiniteSet(Channel) /\ Autojoin \subseteq Channel
  /\ MyNames \subseteq Name /\ NoNick \notin Name
  /\ NoChannel \notin Channel /\ Freed \notin Channel \cup {NoChannel}
  /\ Modes \in Nat /\ Granted \subseteq SUBSET Mode
  /\ MULTI_PREFIX \in BOOLEAN
  /\ AutorejoinDelays \subseteq {"none", "now", "later"}
  /\ CommandDelays \subseteq BOOLEAN /\ PartCloses \subseteq BOOLEAN
  /\ MaxTimers \in Nat /\ MaxLinks \in Nat

VARIABLES
  server,   \* t_irc_server: link, nick, reconnect_join, disable_autojoin, command_time
  channel,  \* t_irc_channel of each channel
  timer,    \* timers of autorejoin: the channel each points to, or NoChannel
  sent,     \* messages of the client, oldest first
  wire,     \* messages of the network, oldest first
  net       \* the network: the client's nick, members, bans; links so far

vars == <<server, channel, timer, sent, wire, net>>
-----------------------------------------------------------------------------
(* Nicks of a channel: partial functions from names to sets of modes.      *)

NoNicks == [n \in {} |-> {}]
Nicks   == UNION {[S -> SUBSET Mode] : S \in SUBSET Name}

Put(f, g)        == [n \in DOMAIN f \cup DOMAIN g |-> IF n \in DOMAIN g THEN g[n] ELSE f[n]]
Without(f, n)    == [x \in DOMAIN f \ {n} |-> f[x]]
Rename(f, n, m)  == [x \in (DOMAIN f \ {n}) \cup {m} |-> IF x = m THEN f[n] ELSE f[x]]

\* Mutant: a nick with no mode gets a group past the last one.
irc_nick_get_nicklist_group_PastEnd(modes) ==
  IF modes = {} THEN {Modes + 1} ELSE {m \in modes : \A k \in modes : m <= k}

\* Group of the nicklist of a nick, as a set of one: its highest mode, or 0
\* (the group "999|...").
irc_nick_get_nicklist_group(modes) ==
  IF modes = {} THEN {0} ELSE {m \in modes : \A k \in modes : m <= k}

Listed(n, modes) == {<<n, g>> : g \in irc_nick_get_nicklist_group(modes)}
Entries(f) == UNION {Listed(n, f[n]) : n \in DOMAIN f}

\* gui_nicklist_remove_nick() and gui_nicklist_add_nick(): what is removed is
\* looked up in its group; a name that is there, in any group, is not added.
Relist(list, out, in) ==
  LET left == list \ out
  IN  left \cup {e \in in : \A l \in left : l[1] # e[1]}

Only(f, S) == [n \in DOMAIN f \cap S |-> f[n]]

\* Adds nicks, or sets the prefixes of those that are there.
irc_nick_new(ch, f) ==
  [ch EXCEPT !.nicks    = Put(ch.nicks, f),
             !.nicklist = Relist(ch.nicklist, Entries(Only(ch.nicks, DOMAIN f)), Entries(f))]

irc_nick_change(ch, n, m) ==
  [ch EXCEPT !.nicks    = Rename(ch.nicks, n, m),
             !.nicklist = Relist(ch.nicklist, Entries(Only(ch.nicks, {n})),
                                 Listed(m, ch.nicks[n]))]

\* Mutant: the entry to remove is looked up once the mode has changed.
irc_nick_set_mode_RemovesLate(ch, n, set, mode) ==
  LET new == [x \in {n} |-> IF set THEN ch.nicks[n] \cup {mode} ELSE ch.nicks[n] \ {mode}]
  IN  [ch EXCEPT !.nicks    = Put(ch.nicks, new),
                 !.nicklist = Relist(ch.nicklist, Entries(new), Entries(new))]

irc_nick_set_mode(ch, n, set, mode) ==
  LET new == [x \in {n} |-> IF set THEN ch.nicks[n] \cup {mode} ELSE ch.nicks[n] \ {mode}]
  IN  [ch EXCEPT !.nicks    = Put(ch.nicks, new),
                 !.nicklist = Relist(ch.nicklist, Entries(Only(ch.nicks, {n})), Entries(new))]

irc_nick_free(ch, n) ==
  [ch EXCEPT !.nicks    = Without(ch.nicks, n),
             !.nicklist = Relist(ch.nicklist, Entries(Only(ch.nicks, {n})), {})]

irc_nick_free_all(ch) == [ch EXCEPT !.nicks = NoNicks, !.nicklist = {}]
-----------------------------------------------------------------------------
(* Channels of the client.                                                 *)

Closed == [open |-> FALSE, part |-> FALSE, cycle |-> FALSE,
           nicks |-> NoNicks, nicklist |-> {}, hook_autorejoin |-> 0]

irc_channel_new == [Closed EXCEPT !.open = TRUE]

Connected == server.link = "up"
Opened    == {c \in Channel : channel[c].open}

\* Timers once those the channels point to are unhooked.
UnhookAll ==
  [t \in Timer |-> IF \E c \in Channel : channel[c].hook_autorejoin = t
                   THEN NoChannel ELSE timer[t]]

\* irc_channel_free(): the timers left point to memory that is free.
FreeTimers(c) ==
  [t \in Timer |-> IF channel[c].hook_autorejoin = t THEN NoChannel
                   ELSE IF timer[t] = c THEN Freed ELSE timer[t]]

\* irc_server_sendf(): nothing is written without a socket.
Send(msgs) == sent' = IF server.link \in {"login", "up"} THEN sent \o msgs ELSE sent
Message(cmd, c) == <<[cmd |-> cmd, chan |-> c]>>

\* irc_command_join_server() for one channel, irc_command_part_channel()
irc_command_join_server(c)  == Send(Message("JOIN", c))
irc_command_part_channel(c) == Send(Message("PART", c))

\* The channels of a set, each once, in any order.
Orders(S) == {q \in [1 .. Cardinality(S) -> S] : \A i, j \in DOMAIN q : q[i] = q[j] => i = j}
Joins(q)  == [i \in DOMAIN q |-> [cmd |-> "JOIN", chan |-> q[i]]]
-----------------------------------------------------------------------------
(* Handlers of the messages of the network.                                *)

\* Mutant: only the channels with nicks are joined again; all were emptied.
irc_server_autojoin_channels_Joined(s) ==
  LET again == ~s.disable_autojoin /\ s.reconnect_join /\ Opened # {}
      which == IF again THEN {c \in Opened : channel[c].nicks # NoNicks}
               ELSE IF s.disable_autojoin THEN {} ELSE Autojoin
  IN  /\ \E q \in Orders(which) : sent' = sent \o Joins(q)
      /\ server' = [s EXCEPT !.disable_autojoin = FALSE,
                             !.reconnect_join   = @ /\ ~again]

\* irc_server_autojoin_channels(), called with the server as s
irc_server_autojoin_channels(s) ==
  LET again == ~s.disable_autojoin /\ s.reconnect_join /\ Opened # {}
      which == IF again THEN {c \in Opened : ~channel[c].part}
               ELSE IF s.disable_autojoin THEN {} ELSE Autojoin
  IN  /\ \E q \in Orders(which) : sent' = sent \o Joins(q)
      /\ server' = [s EXCEPT !.disable_autojoin = FALSE,
                             !.reconnect_join   = @ /\ ~again]

Recv001(m) ==
  /\ m.type = "001"
  /\ \E later \in CommandDelays :
       LET s == [server EXCEPT !.link = "up", !.nick = m.who]
       IN  IF later
           THEN server' = [s EXCEPT !.command_time = TRUE] /\ UNCHANGED sent
           ELSE irc_server_autojoin_channels(s)
  /\ UNCHANGED <<channel, timer>>

\* A new channel may get the memory of a freed one, and the timers left with it.
RecvJoin(m) ==
  LET c == m.chan
      ch == [IF channel[c].open THEN channel[c] ELSE irc_channel_new EXCEPT !.part = FALSE]
      local == m.who = server.nick
  IN  /\ m.type = "JOIN"
      /\ IF channel[c].open \/ local
         THEN channel' = [channel EXCEPT ![c] =
                irc_nick_new(IF local THEN irc_nick_free_all(ch) ELSE ch,
                             [n \in {m.who} |-> {}])]
         ELSE UNCHANGED channel
      /\ IF ~channel[c].open /\ local
         THEN \E S \in SUBSET {t \in Timer : timer[t] = Freed} :
                timer' = [t \in Timer |-> IF t \in S THEN c ELSE timer[t]]
         ELSE UNCHANGED timer
      /\ UNCHANGED <<server, sent>>

\* Answer to NAMES; taken only where the client knows itself to be.
Recv353(m) ==
  LET ch == channel[m.chan]
  IN  /\ m.type = "353"
      /\ channel' = [channel EXCEPT ![m.chan] =
                       IF ch.nicks # NoNicks THEN irc_nick_new(ch, m.nicks) ELSE ch]
      /\ UNCHANGED <<server, timer, sent>>

Idle == {t \in Timer : timer[t] = NoChannel}
NewTimer == CHOOSE t \in Idle : TRUE

\* A timer still pending from an earlier kick stays, and the pointer to it is lost.
RecvKickMe(m) ==
  LET c == m.chan
      ch == irc_nick_free_all(channel[c])
  IN  /\ m.type = "KICK" /\ channel[c].open /\ m.who = server.nick
      /\ \/ /\ "none" \in AutorejoinDelays
            /\ channel' = [channel EXCEPT ![c] = ch]
            /\ UNCHANGED <<timer, sent>>
         \/ /\ "now" \in AutorejoinDelays
            /\ channel' = [channel EXCEPT ![c] = ch]
            /\ irc_command_join_server(c)
            /\ UNCHANGED timer
         \/ /\ "later" \in AutorejoinDelays /\ Idle # {}
            /\ channel' = [channel EXCEPT ![c] = [ch EXCEPT !.hook_autorejoin = NewTimer]]
            /\ timer' = [timer EXCEPT ![NewTimer] = c]
            /\ UNCHANGED sent
      /\ UNCHANGED server

RecvPartMe(m) ==
  LET c == m.chan
      ch == irc_nick_free_all(channel[c])
  IN  /\ m.type = "PART" /\ channel[c].open /\ m.who = server.nick
      /\ \/ /\ ch.cycle
            /\ channel' = [channel EXCEPT ![c] = [ch EXCEPT !.cycle = FALSE]]
            /\ irc_command_join_server(c)
            /\ UNCHANGED timer
         \/ /\ ~ch.cycle /\ TRUE \in PartCloses
            /\ channel' = [channel EXCEPT ![c] = Closed]
            /\ timer' = FreeTimers(c)
            /\ UNCHANGED sent
         \/ /\ ~ch.cycle /\ FALSE \in PartCloses
            /\ channel' = [channel EXCEPT ![c] = [ch EXCEPT !.part = TRUE]]
            /\ UNCHANGED <<timer, sent>>
      /\ UNCHANGED server

\* PART and KICK of another nick
RecvLeft(m) ==
  LET ch == channel[m.chan]
  IN  /\ m.type \in {"PART", "KICK"}
      /\ ~(ch.open /\ m.who = server.nick)
      /\ channel' = [channel EXCEPT ![m.chan] =
                       IF m.who \in DOMAIN ch.nicks THEN irc_nick_free(ch, m.who) ELSE ch]
      /\ UNCHANGED <<server, timer, sent>>

RecvMode(m) ==
  LET ch == channel[m.chan]
  IN  /\ m.type = "MODE"
      /\ channel' = [channel EXCEPT ![m.chan] =
                       IF m.who \in DOMAIN ch.nicks
                       THEN irc_nick_set_mode(ch, m.who, m.set, m.mode) ELSE ch]
      /\ UNCHANGED <<server, timer, sent>>

RecvNick(m) ==
  /\ m.type = "NICK"
  /\ server' = [server EXCEPT !.nick = IF m.who = @ THEN m.new ELSE @]
  /\ channel' = [c \in Channel |->
                   IF m.who \in DOMAIN channel[c].nicks
                   THEN irc_nick_change(channel[c], m.who, m.new) ELSE channel[c]]
  /\ UNCHANGED <<timer, sent>>

\* QUIT is looked up in each channel; KILL of the client empties them all.
RecvQuit(m) ==
  /\ m.type \in {"QUIT", "KILL"}
  /\ channel' = [c \in Channel |->
                   IF m.type = "KILL" /\ m.who = server.nick THEN irc_nick_free_all(channel[c])
                   ELSE IF m.who \in DOMAIN channel[c].nicks
                        THEN irc_nick_free(channel[c], m.who) ELSE channel[c]]
  /\ UNCHANGED <<server, timer, sent>>

ClientReads ==
  /\ server.link \in {"login", "up"} /\ wire # <<>>
  /\ wire' = Tail(wire)
  /\ LET m == Head(wire)
     IN  \/ Recv001(m) \/ RecvJoin(m) \/ Recv353(m) \/ RecvKickMe(m) \/ RecvPartMe(m)
         \/ RecvLeft(m) \/ RecvMode(m) \/ RecvNick(m) \/ RecvQuit(m)
  /\ UNCHANGED net
-----------------------------------------------------------------------------
(* Timers of the client.                                                   *)

\* Mutant: the pointer to the timer is not reset.
AutorejoinFires_KeepsPointer(t) ==
  LET c == timer[t]
      rejoin == c \in Channel /\ channel[c].hook_autorejoin # 0
  IN  /\ c # NoChannel
      /\ timer' = [timer EXCEPT ![t] = NoChannel]
      /\ IF rejoin THEN irc_command_join_server(c) ELSE UNCHANGED sent
      /\ UNCHANGED <<channel, server, wire, net>>

\* irc_channel_autorejoin_cb(): any timer that points to the channel rejoins
\* it, if the channel waits for one, and the channel waits no more.
AutorejoinFires(t) ==
  LET c == timer[t]
      rejoin == c \in Channel /\ channel[c].hook_autorejoin # 0
  IN  /\ c # NoChannel
      /\ timer' = [timer EXCEPT ![t] = NoChannel]
      /\ IF rejoin
         THEN /\ irc_command_join_server(c)
              /\ channel' = [channel EXCEPT ![c] = [channel[c] EXCEPT !.hook_autorejoin = 0]]
         ELSE UNCHANGED <<sent, channel>>
      /\ UNCHANGED <<server, wire, net>>

\* irc_server_timer_cb(), when the delay after the command is over
AutojoinDue ==
  /\ Connected /\ server.command_time
  /\ irc_server_autojoin_channels([server EXCEPT !.command_time = FALSE])
  /\ UNCHANGED <<channel, timer, wire, net>>

Timers == AutojoinDue \/ \E t \in Timer : AutorejoinFires(t)
-----------------------------------------------------------------------------
(* The link.                                                               *)

Away == [net EXCEPT !.me = NoNick, !.members = [c \in Channel |-> NoNicks]]

\* irc_server_disconnect(); the time of the command is kept.
irc_server_disconnect(reconnect) ==
  /\ server' = [server EXCEPT !.link = IF reconnect THEN "waiting" ELSE "off",
                              !.nick = IF reconnect THEN @ ELSE NoNick]
  /\ IF Connected
     THEN /\ channel' = [c \in Channel |-> [irc_nick_free_all(channel[c])
                                             EXCEPT !.hook_autorejoin = 0]]
          /\ timer' = UnhookAll
     ELSE UNCHANGED <<channel, timer>>
  /\ sent' = <<>> /\ wire' = <<>>

LinkLost ==
  /\ "loss" \in Faults /\ server.link \in {"login", "up"} /\ net.links < MaxLinks
  /\ irc_server_disconnect(TRUE)
  /\ net' = [Away EXCEPT !.links = @ + 1]

\* The network closes the link of a client that was killed.
KilledEnd ==
  /\ Connected /\ net.me = NoNick /\ wire = <<>>
  /\ irc_server_disconnect(TRUE)
  /\ net' = Away

\* /disconnect
Disconnect ==
  /\ server.link # "off" /\ net.links < MaxLinks
  /\ irc_server_disconnect(FALSE)
  /\ net' = [Away EXCEPT !.links = @ + 1]

\* /connect [-nojoin]
Connect(no_join) ==
  /\ server.link \in {"off", "waiting"}
  /\ server' = [server EXCEPT !.link = "login", !.disable_autojoin = no_join,
                              !.reconnect_join = Opened # {}]
  /\ UNCHANGED <<channel, timer, sent, wire, net>>

irc_server_reconnect ==
  /\ server.link = "waiting"
  /\ server' = [server EXCEPT !.link = "login", !.reconnect_join = TRUE]
  /\ UNCHANGED <<channel, timer, sent, wire, net>>

\* The network accepts the client under a nick, maybe not the one asked for.
Registers(n) ==
  /\ server.link = "login" /\ net.me = NoNick /\ wire = <<>>
  /\ net' = [net EXCEPT !.me = n]
  /\ wire' = <<[type |-> "001", who |-> n]>>
  /\ UNCHANGED <<server, channel, timer, sent>>

Link ==
  \/ LinkLost \/ KilledEnd \/ Disconnect \/ irc_server_reconnect
  \/ \E b \in BOOLEAN : Connect(b)
  \/ \E n \in MyNames : Registers(n)
-----------------------------------------------------------------------------
(* Commands of the user.                                                   *)

UserMayAct  == Len(sent) < MaxSent /\ Len(wire) <= MaxWire
UserMaySend == Connected /\ UserMayAct

\* /join
Join(c) ==
  /\ UserMaySend
  /\ irc_command_join_server(c)
  /\ UNCHANGED <<server, channel, timer, wire, net>>

\* /part, by name or in the buffer: where the client is not, no message is
\* sent, and the buffer is closed if the option says so.
Part(c) ==
  /\ UserMaySend
  /\ \/ /\ ~channel[c].open \/ channel[c].nicks # NoNicks
        /\ irc_command_part_channel(c)
        /\ UNCHANGED <<channel, timer>>
     \/ /\ channel[c].open /\ channel[c].nicks = NoNicks /\ TRUE \in PartCloses
        /\ channel' = [channel EXCEPT ![c] = Closed]
        /\ timer' = FreeTimers(c)
        /\ UNCHANGED sent
  /\ UNCHANGED <<server, wire, net>>

\* /cycle: whether the client is in the channel is not looked at.
Cycle(c) ==
  /\ UserMaySend
  /\ irc_command_part_channel(c)
  /\ channel' = [channel EXCEPT ![c] = [channel[c] EXCEPT !.cycle = channel[c].open]]
  /\ UNCHANGED <<server, timer, wire, net>>

\* The buffer of the channel is closed (irc_buffer_close_cb()).
CloseBuffer(c) ==
  /\ channel[c].open /\ UserMayAct
  /\ IF channel[c].nicks # NoNicks THEN irc_command_part_channel(c) ELSE UNCHANGED sent
  /\ channel' = [channel EXCEPT ![c] = Closed]
  /\ timer' = FreeTimers(c)
  /\ UNCHANGED <<server, wire, net>>

User == \E c \in Channel : Join(c) \/ Part(c) \/ Cycle(c) \/ CloseBuffer(c)
-----------------------------------------------------------------------------
(* The network: it reads what the client sends, and others act.  It tells  *)
(* the client what happens in the channels the client is in, in order.     *)

In(c)  == net.me \in DOMAIN net.members[c]
Tell(msgs) == wire' = wire \o msgs
NetMayAct == net.me # NoNick /\ Len(wire) < MaxWire
Visible == {net.me} \cup UNION {DOMAIN net.members[c] : c \in Channel}

\* Prefixes of each nick as NAMES gives them: the highest only, or all.
Shown(f) ==
  [n \in DOMAIN f |-> IF MULTI_PREFIX \/ f[n] = {} THEN f[n]
                      ELSE irc_nick_get_nicklist_group(f[n])]
NamesReply(c, f) == [type |-> "353", chan |-> c, nicks |-> Shown(f)]
Event(type, n, c) == [type |-> type, who |-> n, chan |-> c]

\* Where the client is not, nothing is kept of the members: when it joins they
\* are any set.
NetReads ==
  /\ server.link \in {"login", "up"} /\ sent # <<>>
  /\ sent' = Tail(sent)
  /\ LET c == Head(sent).chan
         cmd == Head(sent).cmd
     IN  \/ /\ cmd = "JOIN" /\ net.me # NoNick /\ ~In(c) /\ c \notin net.banned
           /\ \E f \in UNION {[S \cup {net.me} -> Granted] : S \in SUBSET (Name \ {net.me})} :
                /\ net' = [net EXCEPT !.members = [net.members EXCEPT ![c] = f]]
                /\ Tell(<<Event("JOIN", net.me, c), NamesReply(c, f)>>)
        \/ /\ cmd = "PART" /\ In(c)
           /\ net' = [net EXCEPT !.members = [net.members EXCEPT ![c] = NoNicks]]
           /\ Tell(<<Event("PART", net.me, c)>>)
        \/ /\ \/ cmd = "JOIN" /\ (In(c) \/ net.me = NoNick \/ c \in net.banned)
              \/ cmd = "PART" /\ ~In(c)
           /\ UNCHANGED <<net, wire>>
  /\ UNCHANGED <<server, channel, timer>>

NetJoin(n, c) ==
  /\ In(c) /\ n \notin DOMAIN net.members[c]
  /\ net' = [net EXCEPT !.members =
               [net.members EXCEPT ![c] = Put(net.members[c], [x \in {n} |-> {}])]]
  /\ Tell(<<Event("JOIN", n, c)>>)

\* PART or KICK of another nick
NetLeave(n, c, type) ==
  /\ In(c) /\ n \in DOMAIN net.members[c] \ {net.me}
  /\ net' = [net EXCEPT !.members =
               [net.members EXCEPT ![c] = Without(net.members[c], n)]]
  /\ Tell(<<Event(type, n, c)>>)

NetKicksMe(c, ban) ==
  /\ In(c) /\ (ban => "ban" \in Faults)
  /\ net' = [net EXCEPT !.members = [net.members EXCEPT ![c] = NoNicks],
                        !.banned  = IF ban THEN @ \cup {c} ELSE @]
  /\ Tell(<<Event("KICK", net.me, c)>>)

NetMode(n, c, set, mode) ==
  /\ In(c) /\ n \in DOMAIN net.members[c]
  /\ (mode \in net.members[c][n]) # set
  /\ net' = [net EXCEPT !.members = [net.members EXCEPT ![c] =
               Put(net.members[c],
                   [x \in {n} |-> IF set THEN net.members[c][n] \cup {mode}
                                  ELSE net.members[c][n] \ {mode}])]]
  /\ Tell(<<[type |-> "MODE", who |-> n, chan |-> c, set |-> set, mode |-> mode]>>)

\* A nick changes: of the client, on its demand or forced, or of another.
NetNick(n, m) ==
  /\ n \in Visible /\ m \notin Visible /\ (n = net.me => m \in MyNames)
  /\ net' = [net EXCEPT !.me = IF n = @ THEN m ELSE @,
                        !.members = [c \in Channel |->
                          IF n \in DOMAIN net.members[c] THEN Rename(net.members[c], n, m)
                          ELSE net.members[c]]]
  /\ Tell(<<[type |-> "NICK", who |-> n, new |-> m]>>)

NetQuit(n, type) ==
  /\ n \in Visible \ {net.me} /\ (type = "KILL" => "kill" \in Faults)
  /\ net' = [net EXCEPT !.members = [c \in Channel |-> Without(net.members[c], n)]]
  /\ Tell(<<[type |-> type, who |-> n]>>)

NetKillsMe ==
  /\ "kill" \in Faults /\ net.links < MaxLinks
  /\ net' = [Away EXCEPT !.links = @ + 1]
  /\ Tell(<<[type |-> "KILL", who |-> net.me]>>)

\* A bouncer that comes back to the network says again where the client is.
BouncerJoins(c) ==
  /\ "bouncer" \in Faults /\ In(c)
  /\ Tell(<<Event("JOIN", net.me, c), NamesReply(c, net.members[c])>>)
  /\ UNCHANGED net

Others ==
  /\ NetMayAct
  /\ \/ NetKillsMe
     \/ \E c \in Channel : BouncerJoins(c) \/ \E b \in BOOLEAN : NetKicksMe(c, b)
     \/ \E n \in Name, c \in Channel :
          \/ NetJoin(n, c)
          \/ \E type \in {"PART", "KICK"} : NetLeave(n, c, type)
          \/ \E set \in BOOLEAN, mode \in Mode : NetMode(n, c, set, mode)
     \/ \E n, m \in Name : NetNick(n, m)
     \/ \E n \in Name, type \in {"QUIT", "KILL"} : NetQuit(n, type)
  /\ UNCHANGED <<server, channel, timer, sent>>
-----------------------------------------------------------------------------
Init ==
  /\ server = [link |-> "off", nick |-> NoNick, reconnect_join |-> FALSE,
               disable_autojoin |-> FALSE, command_time |-> FALSE]
  /\ channel = [c \in Channel |-> Closed]
  /\ timer = [t \in Timer |-> NoChannel]
  /\ sent = <<>> /\ wire = <<>>
  /\ net = [me |-> NoNick, members |-> [c \in Channel |-> NoNicks],
            banned |-> {}, links |-> 0]

Next == ClientReads \/ Timers \/ Link \/ User \/ NetReads \/ Others

Spec == Init /\ [][Next]_vars

\* The main loop of the client reads the socket and runs its timers; the
\* network reads, registers and ends what it must.  Users are free.
FairSpec ==
  /\ Spec
  /\ WF_vars(ClientReads) /\ WF_vars(NetReads)
  /\ WF_vars(AutojoinDue) /\ WF_vars(KilledEnd) /\ WF_vars(irc_server_reconnect)
  /\ \A t \in Timer : WF_vars(AutorejoinFires(t))
  /\ WF_vars(\E n \in MyNames : Registers(n))
-----------------------------------------------------------------------------
Request == [cmd : {"JOIN", "PART"}, chan : Channel]
Answer ==
  [type : {"001", "QUIT", "KILL"}, who : Name]
    \cup [type : {"JOIN", "PART", "KICK"}, who : Name, chan : Channel]
    \cup [type : {"353"}, chan : Channel, nicks : Nicks]
    \cup [type : {"MODE"}, who : Name, chan : Channel, set : BOOLEAN, mode : Mode]
    \cup [type : {"NICK"}, who : Name, new : Name]

\* Types: a channel has nicks and a nicklist of the groups there are, a timer
\* points to a channel, to freed memory, or is none.
TypeOK ==
  /\ server \in [link : {"off", "waiting", "login", "up"}, nick : Name \cup {NoNick},
                 reconnect_join : BOOLEAN, disable_autojoin : BOOLEAN,
                 command_time : BOOLEAN]
  /\ channel \in [Channel -> [open : BOOLEAN, part : BOOLEAN, cycle : BOOLEAN,
                              nicks : Nicks, nicklist : SUBSET (Name \X (0 .. Modes)),
                              hook_autorejoin : Timer \cup {0}]]
  /\ timer \in [Timer -> Channel \cup {NoChannel, Freed}]
  /\ sent \in Seq(Request)
  /\ wire \in Seq(Answer)
  /\ net \in [me : Name \cup {NoNick}, members : [Channel -> Nicks],
              banned : SUBSET Channel, links : 0 .. MaxLinks]

\* With nothing under way, what the client shows is what the network has: its
\* own nick, who is in each channel, their modes, and the groups of the
\* nicklist; without a link it shows nobody.
ShowsNetwork ==
  /\ Connected /\ wire = <<>> /\ sent = <<>> /\ net.me # NoNick =>
       /\ server.nick = net.me
       /\ \A c \in Channel :
            /\ DOMAIN channel[c].nicks = DOMAIN net.members[c]
            /\ \A n \in DOMAIN channel[c].nicks :
                 IF MULTI_PREFIX THEN channel[c].nicks[n] = net.members[c][n]
                 ELSE channel[c].nicks[n] \subseteq net.members[c][n]
            /\ channel[c].nicklist = Entries(channel[c].nicks)
  /\ ~Connected => \A c \in Channel : channel[c].nicks = NoNicks /\ channel[c].nicklist = {}

\* The pointer of a channel to its timer is that of a pending timer made for
\* it, never of one that fired: unhooking it frees no memory twice.
TimerPending ==
  \A c \in Channel : channel[c].hook_autorejoin # 0 => timer[channel[c].hook_autorejoin] = c

\* A channel in which the client knows itself to be is one that a
\* reconnection joins again: it is open and not marked as left.
JoinedIsRejoined ==
  \A c \in Channel : channel[c].nicks # NoNicks => channel[c].open /\ ~channel[c].part

MayRejoin(c) == channel[c].open /\ ~channel[c].part /\ c \notin net.banned

\* A channel open and not left is joined again after the link was lost, and
\* after a kick with a timer, unless it is closed, left or banned, or the user
\* disconnects or connects with -nojoin.
Rejoins ==
  \A c \in Channel :
    /\ (MayRejoin(c) /\ server.link \in {"waiting", "login"})
         ~> (channel[c].nicks # NoNicks \/ ~MayRejoin(c) \/ server.link = "off"
             \/ server.disable_autojoin)
    /\ channel[c].hook_autorejoin # 0
         ~> (channel[c].nicks # NoNicks \/ ~MayRejoin(c) \/ ~Connected)
=============================================================================
