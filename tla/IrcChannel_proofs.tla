------------------------- MODULE IrcChannel_proofs --------------------------
(***************************************************************************)
(* Safety of IrcChannel, for every set of channels and of nicks, any modes *)
(* and any faults: the types, the pointers to the timers of autorejoin,    *)
(* what a reconnection joins again, and that what the client shows is what *)
(* the network has, once nothing is under way between them.                *)
(***************************************************************************)
EXTENDS IrcChannel, TLAPS, FiniteSetTheorems, SequenceTheorems

USE ChannelAssumption

ServerData ==
  [link : {"off", "waiting", "login", "up"}, nick : Name \cup {NoNick},
   reconnect_join : BOOLEAN, disable_autojoin : BOOLEAN, command_time : BOOLEAN]
ChannelData ==
  [open : BOOLEAN, part : BOOLEAN, cycle : BOOLEAN, nicks : Nicks,
   nicklist : SUBSET (Name \X (0 .. Modes)), hook_autorejoin : Timer \cup {0}]
NetData ==
  [me : Name \cup {NoNick}, members : [Channel -> Nicks],
   banned : SUBSET Channel, links : 0 .. MaxLinks]

\* A channel with nicks is open and not left.
Sound(ch) == ch \in ChannelData /\ (ch.nicks # NoNicks => ch.open /\ ~ch.part)

IInv == TypeOK /\ TimerPending /\ JoinedIsRejoined

\* IInv, as what it says of each variable.
Parts ==
  /\ server \in ServerData /\ net \in NetData
  /\ channel \in [Channel -> ChannelData] /\ \A c \in Channel : Sound(channel[c])
  /\ timer \in [Timer -> Channel \cup {NoChannel, Freed}]
  /\ \A c \in Channel : channel[c].hook_autorejoin # 0 => timer[channel[c].hook_autorejoin] = c
  /\ sent \in Seq(Request) /\ wire \in Seq(Answer)

LEMMA IInvIsParts == IInv <=> Parts
BY DEF IInv, Parts, TypeOK, TimerPending, JoinedIsRejoined, Sound, ServerData, NetData,
       ChannelData
-----------------------------------------------------------------------------
(* Nicks and nicklists.                                                    *)

LEMMA NicksFacts ==
  ASSUME NEW f \in Nicks
  PROVE  /\ DOMAIN f \in SUBSET Name
         /\ f = [x \in DOMAIN f |-> f[x]]
         /\ \A x \in DOMAIN f : f[x] \in SUBSET Mode
<1>1. PICK S \in SUBSET Name : f \in [S -> SUBSET Mode] BY DEF Nicks
<1>2. QED BY <1>1

LEMMA FunctionIsNicks ==
  ASSUME NEW S \in SUBSET Name, NEW f \in [S -> SUBSET Mode]
  PROVE  f \in Nicks
BY DEF Nicks

LEMMA NoNicksFacts == NoNicks \in Nicks /\ DOMAIN NoNicks = {}
<1>1. NoNicks \in [{} -> SUBSET Mode] BY DEF NoNicks
<1>2. QED BY <1>1, FunctionIsNicks, {} \in SUBSET Name

LEMMA PutIsNicks ==
  ASSUME NEW f \in Nicks, NEW g \in Nicks
  PROVE  Put(f, g) \in Nicks
<1>1. /\ DOMAIN f \in SUBSET Name /\ \A x \in DOMAIN f : f[x] \in SUBSET Mode
      /\ DOMAIN g \in SUBSET Name /\ \A x \in DOMAIN g : g[x] \in SUBSET Mode
  BY NicksFacts
<1>2. Put(f, g) \in [DOMAIN f \cup DOMAIN g -> SUBSET Mode] BY <1>1 DEF Put
<1>3. DOMAIN f \cup DOMAIN g \in SUBSET Name BY <1>1
<1>4. QED BY <1>2, <1>3, FunctionIsNicks

LEMMA WithoutIsNicks ==
  ASSUME NEW f \in Nicks, NEW n
  PROVE  Without(f, n) \in Nicks
<1>1. DOMAIN f \in SUBSET Name /\ \A x \in DOMAIN f : f[x] \in SUBSET Mode
  BY NicksFacts
<1>2. Without(f, n) \in [DOMAIN f \ {n} -> SUBSET Mode] BY <1>1 DEF Without
<1>3. DOMAIN f \ {n} \in SUBSET Name BY <1>1
<1>4. QED BY <1>2, <1>3, FunctionIsNicks

LEMMA RenameIsNicks ==
  ASSUME NEW f \in Nicks, NEW n \in DOMAIN f, NEW m \in Name
  PROVE  Rename(f, n, m) \in Nicks
<1>1. DOMAIN f \in SUBSET Name /\ \A x \in DOMAIN f : f[x] \in SUBSET Mode
  BY NicksFacts
<1>2. Rename(f, n, m) \in [(DOMAIN f \ {n}) \cup {m} -> SUBSET Mode]
  BY <1>1 DEF Rename
<1>3. (DOMAIN f \ {n}) \cup {m} \in SUBSET Name BY <1>1
<1>4. QED BY <1>2, <1>3, FunctionIsNicks

LEMMA OnlyIsNicks ==
  ASSUME NEW f \in Nicks, NEW S
  PROVE  Only(f, S) \in Nicks
<1>1. DOMAIN f \in SUBSET Name /\ \A x \in DOMAIN f : f[x] \in SUBSET Mode
  BY NicksFacts
<1>2. Only(f, S) \in [DOMAIN f \cap S -> SUBSET Mode] BY <1>1 DEF Only
<1>3. DOMAIN f \cap S \in SUBSET Name BY <1>1
<1>4. QED BY <1>2, <1>3, FunctionIsNicks

Entry == Name \X (0 .. Modes)

\* The groups are those of the nicklist: the modes, and that of nicks without.
LEMMA GroupsExist ==
  ASSUME NEW modes \in SUBSET Mode
  PROVE  irc_nick_get_nicklist_group(modes) \in SUBSET (0 .. Modes)
<1>1. Modes \in Nat OBVIOUS
<1>2. 0 \in 0 .. Modes /\ \A m \in modes : m \in 0 .. Modes BY <1>1 DEF Mode
<1>3. {0} \in SUBSET (0 .. Modes) BY <1>2
<1>4. {m \in modes : \A k \in modes : m <= k} \in SUBSET (0 .. Modes) BY <1>2
<1>5. QED BY <1>3, <1>4 DEF irc_nick_get_nicklist_group

LEMMA ListedIsEntry ==
  ASSUME NEW n \in Name, NEW modes \in SUBSET Mode
  PROVE  Listed(n, modes) \in SUBSET Entry
<1>1. irc_nick_get_nicklist_group(modes) \in SUBSET (0 .. Modes) BY GroupsExist
<1>2. QED BY <1>1 DEF Listed, Entry

LEMMA EntriesAreEntry ==
  ASSUME NEW f \in Nicks
  PROVE  Entries(f) \in SUBSET Entry
<1>1. DOMAIN f \in SUBSET Name /\ \A x \in DOMAIN f : f[x] \in SUBSET Mode
  BY NicksFacts
<1>2. \A n \in DOMAIN f : Listed(n, f[n]) \in SUBSET Entry BY <1>1, ListedIsEntry
<1>3. QED BY <1>2 DEF Entries

LEMMA RelistIsEntry ==
  ASSUME NEW list \in SUBSET Entry, NEW out, NEW in \in SUBSET Entry
  PROVE  Relist(list, out, in) \in SUBSET Entry
BY DEF Relist
-----------------------------------------------------------------------------
(* Channels: an operator on the nicks of a channel keeps it sound, and its *)
(* pointer to a timer.                                                     *)

LEMMA NickNewSound ==
  ASSUME NEW ch, Sound(ch), NEW f \in Nicks, ch.open, ~ch.part
  PROVE  /\ Sound(irc_nick_new(ch, f))
         /\ irc_nick_new(ch, f).hook_autorejoin = ch.hook_autorejoin
<1>1. ch \in ChannelData /\ ch.nicks \in Nicks /\ ch.nicklist \in SUBSET Entry
  BY DEF Sound, ChannelData, Entry
<1>2. Put(ch.nicks, f) \in Nicks BY <1>1, PutIsNicks
<1>3. Entries(f) \in SUBSET Entry BY EntriesAreEntry
<1> DEFINE out == Entries(Only(ch.nicks, DOMAIN f))
<1>4. Relist(ch.nicklist, out, Entries(f)) \in SUBSET Entry
  BY <1>1, <1>3, RelistIsEntry
<1> HIDE DEF out
<1>5. irc_nick_new(ch, f) = [ch EXCEPT !.nicks = Put(ch.nicks, f),
                                       !.nicklist = Relist(ch.nicklist, out, Entries(f))]
  BY DEF irc_nick_new, out
<1>6. QED BY <1>1, <1>2, <1>4, <1>5 DEF Sound, ChannelData, Entry

LEMMA NickChangeSound ==
  ASSUME NEW ch, Sound(ch), NEW n \in DOMAIN ch.nicks, NEW m \in Name
  PROVE  /\ Sound(irc_nick_change(ch, n, m))
         /\ irc_nick_change(ch, n, m).hook_autorejoin = ch.hook_autorejoin
<1>1. ch \in ChannelData /\ ch.nicks \in Nicks /\ ch.nicklist \in SUBSET Entry
  BY DEF Sound, ChannelData, Entry
<1>2. Rename(ch.nicks, n, m) \in Nicks BY <1>1, RenameIsNicks
<1>3. ch.nicks[n] \in SUBSET Mode BY <1>1, NicksFacts
<1>4. Listed(m, ch.nicks[n]) \in SUBSET Entry BY <1>3, ListedIsEntry
<1> DEFINE out == Entries(Only(ch.nicks, {n}))
           new == Listed(m, ch.nicks[n])
<1>5. Relist(ch.nicklist, out, new) \in SUBSET Entry BY <1>1, <1>4, RelistIsEntry
<1> HIDE DEF out, new
<1>6. irc_nick_change(ch, n, m) = [ch EXCEPT !.nicks = Rename(ch.nicks, n, m),
                                             !.nicklist = Relist(ch.nicklist, out, new)]
  BY DEF irc_nick_change, out, new
<1>7. ch.nicks # NoNicks BY NoNicksFacts
<1>8. QED BY <1>1, <1>2, <1>5, <1>6, <1>7 DEF Sound, ChannelData, Entry

LEMMA NickSetModeSound ==
  ASSUME NEW ch, Sound(ch), NEW n \in DOMAIN ch.nicks, NEW set \in BOOLEAN, NEW mode \in Mode
  PROVE  /\ Sound(irc_nick_set_mode(ch, n, set, mode))
         /\ irc_nick_set_mode(ch, n, set, mode).hook_autorejoin = ch.hook_autorejoin
<1> DEFINE new == [x \in {n} |-> IF set THEN ch.nicks[n] \cup {mode} ELSE ch.nicks[n] \ {mode}]
           out == Entries(Only(ch.nicks, {n}))
<1>1. ch \in ChannelData /\ ch.nicks \in Nicks /\ ch.nicklist \in SUBSET Entry
  BY DEF Sound, ChannelData, Entry
<1>2. n \in Name /\ ch.nicks[n] \in SUBSET Mode BY <1>1, NicksFacts
<1>3. new \in [{n} -> SUBSET Mode] BY <1>2
<1>4. {n} \in SUBSET Name BY <1>2
<1>5. irc_nick_set_mode(ch, n, set, mode)
        = [ch EXCEPT !.nicks = Put(ch.nicks, new),
                     !.nicklist = Relist(ch.nicklist, out, Entries(new))]
  BY DEF irc_nick_set_mode
<1> HIDE DEF new, out
<1>6. new \in Nicks BY <1>3, <1>4, FunctionIsNicks
<1>7. Put(ch.nicks, new) \in Nicks BY <1>1, <1>6, PutIsNicks
<1>8. Relist(ch.nicklist, out, Entries(new)) \in SUBSET Entry
  BY <1>1, <1>6, EntriesAreEntry, RelistIsEntry
<1>9. ch.nicks # NoNicks BY NoNicksFacts
<1>10. QED BY <1>1, <1>5, <1>7, <1>8, <1>9 DEF Sound, ChannelData, Entry

LEMMA NickFreeSound ==
  ASSUME NEW ch, Sound(ch), NEW n \in DOMAIN ch.nicks
  PROVE  /\ Sound(irc_nick_free(ch, n))
         /\ irc_nick_free(ch, n).hook_autorejoin = ch.hook_autorejoin
<1>1. ch \in ChannelData /\ ch.nicks \in Nicks /\ ch.nicklist \in SUBSET Entry
  BY DEF Sound, ChannelData, Entry
<1>2. Without(ch.nicks, n) \in Nicks BY <1>1, WithoutIsNicks
<1> DEFINE out == Entries(Only(ch.nicks, {n}))
<1>3. Relist(ch.nicklist, out, {}) \in SUBSET Entry BY <1>1, RelistIsEntry
<1> HIDE DEF out
<1>4. irc_nick_free(ch, n) = [ch EXCEPT !.nicks = Without(ch.nicks, n),
                                        !.nicklist = Relist(ch.nicklist, out, {})]
  BY DEF irc_nick_free, out
<1>5. ch.nicks # NoNicks BY NoNicksFacts
<1>6. QED BY <1>1, <1>2, <1>3, <1>4, <1>5 DEF Sound, ChannelData, Entry

LEMMA NickFreeAllSound ==
  ASSUME NEW ch \in ChannelData
  PROVE  /\ Sound(irc_nick_free_all(ch))
         /\ irc_nick_free_all(ch).hook_autorejoin = ch.hook_autorejoin
         /\ irc_nick_free_all(ch).cycle = ch.cycle
         /\ irc_nick_free_all(ch).nicks = NoNicks
BY NoNicksFacts DEF irc_nick_free_all, Sound, ChannelData

LEMMA ClosedSound == Sound(Closed) /\ Closed.hook_autorejoin = 0 /\ Closed.nicks = NoNicks
BY NoNicksFacts DEF Closed, Sound, ChannelData

LEMMA ChannelNewSound ==
  /\ Sound(irc_channel_new) /\ irc_channel_new.hook_autorejoin = 0
  /\ irc_channel_new.nicks = NoNicks /\ irc_channel_new.open
BY NoNicksFacts DEF irc_channel_new, Closed, Sound, ChannelData
-----------------------------------------------------------------------------
(* Messages.                                                               *)

LEMMA AnswerFields ==
  ASSUME NEW m \in Answer
  PROVE  /\ m.type \in {"001", "QUIT", "KILL", "JOIN", "PART", "KICK", "MODE", "NICK"} =>
              m.who \in Name
         /\ m.type \in {"JOIN", "PART", "KICK", "353", "MODE"} => m.chan \in Channel
         /\ m.type = "353" => m.nicks \in Nicks
         /\ m.type = "MODE" => m.set \in BOOLEAN /\ m.mode \in Mode
         /\ m.type = "NICK" => m.new \in Name
<1>1. CASE m \in [type : {"001", "QUIT", "KILL"}, who : Name] BY <1>1
<1>2. CASE m \in [type : {"JOIN", "PART", "KICK"}, who : Name, chan : Channel] BY <1>2
<1>3. CASE m \in [type : {"353"}, chan : Channel, nicks : Nicks] BY <1>3
<1>4. CASE m \in [type : {"MODE"}, who : Name, chan : Channel, set : BOOLEAN, mode : Mode]
  BY <1>4
<1>5. CASE m \in [type : {"NICK"}, who : Name, new : Name] BY <1>5
<1>6. QED BY <1>1, <1>2, <1>3, <1>4, <1>5 DEF Answer

LEMMA SendTypes ==
  ASSUME sent \in Seq(Request), NEW msgs \in Seq(Request), Send(msgs)
  PROVE  sent' \in Seq(Request)
BY ConcatProperties DEF Send

LEMMA OneMessage ==
  ASSUME NEW cmd \in {"JOIN", "PART"}, NEW c \in Channel
  PROVE  Message(cmd, c) \in Seq(Request)
BY DEF Message, Request

LEMMA CommandTypes ==
  ASSUME sent \in Seq(Request), NEW c \in Channel,
         irc_command_join_server(c) \/ irc_command_part_channel(c)
  PROVE  sent' \in Seq(Request)
BY SendTypes, OneMessage DEF irc_command_join_server, irc_command_part_channel

LEMMA JoinsTypes ==
  ASSUME NEW S \in SUBSET Channel, NEW q \in Orders(S)
  PROVE  Joins(q) \in Seq(Request)
<1>1. Cardinality(S) \in Nat BY FS_Subset, FS_CardinalityType
<1> DEFINE n == Cardinality(S)
<1> HIDE DEF n
<1>2. n \in Nat /\ q \in [1 .. n -> S] BY <1>1 DEF Orders, n
<1>3. Joins(q) = [i \in 1 .. n |-> [cmd |-> "JOIN", chan |-> q[i]]] BY <1>2 DEF Joins
<1>4. \A i \in 1 .. n : [cmd |-> "JOIN", chan |-> q[i]] \in Request
  BY <1>2 DEF Request
<1>5. Joins(q) \in [1 .. n -> Request] BY <1>3, <1>4
<1>6. QED BY <1>2, <1>5

LEMMA AutojoinTypes ==
  ASSUME sent \in Seq(Request), NEW s \in ServerData, irc_server_autojoin_channels(s)
  PROVE  sent' \in Seq(Request) /\ server' \in ServerData
<1> DEFINE again == ~s.disable_autojoin /\ s.reconnect_join /\ Opened # {}
           which == IF again THEN {c \in Opened : ~channel[c].part}
                    ELSE IF s.disable_autojoin THEN {} ELSE Autojoin
<1>1. /\ \E q \in Orders(which) : sent' = sent \o Joins(q)
      /\ server' = [s EXCEPT !.disable_autojoin = FALSE,
                             !.reconnect_join   = s.reconnect_join /\ ~again]
  BY DEF irc_server_autojoin_channels
<1>2. which \in SUBSET Channel BY DEF Opened
<1>3. again \in BOOLEAN OBVIOUS
<1> HIDE DEF again, which
<1>4. PICK q \in Orders(which) : sent' = sent \o Joins(q) BY <1>1
<1>5. Joins(q) \in Seq(Request) BY <1>2, JoinsTypes
<1>6. sent' \in Seq(Request) BY <1>4, <1>5, ConcatProperties
<1>7. server' \in ServerData BY <1>1, <1>3 DEF ServerData
<1>8. QED BY <1>6, <1>7
-----------------------------------------------------------------------------
(* The handlers of the messages.  Each keeps the client's part of IInv.    *)

Client ==
  /\ server \in ServerData
  /\ channel \in [Channel -> ChannelData] /\ \A c \in Channel : Sound(channel[c])
  /\ timer \in [Timer -> Channel \cup {NoChannel, Freed}]
  /\ \A c \in Channel : channel[c].hook_autorejoin # 0 => timer[channel[c].hook_autorejoin] = c
  /\ sent \in Seq(Request)

\* One channel changes and keeps its timer.
LEMMA OneChannel ==
  ASSUME Client, NEW c \in Channel, NEW ch, Sound(ch),
         ch.hook_autorejoin = channel[c].hook_autorejoin,
         channel' = [channel EXCEPT ![c] = ch], UNCHANGED timer
  PROVE  /\ channel' \in [Channel -> ChannelData] /\ \A d \in Channel : Sound(channel'[d])
         /\ \A d \in Channel : channel'[d].hook_autorejoin # 0 =>
              timer'[channel'[d].hook_autorejoin] = d
<1>1. ch \in ChannelData BY DEF Sound
<1>2. channel' \in [Channel -> ChannelData] BY <1>1 DEF Client
<1>3. \A d \in Channel : channel'[d] = IF d = c THEN ch ELSE channel[d] BY DEF Client
<1>4. QED BY <1>2, <1>3 DEF Client

LEMMA Recv001Step ==
  ASSUME Client, NEW m \in Answer, Recv001(m)
  PROVE  Client'
<1>1. m.who \in Name BY AnswerFields DEF Recv001
<1> DEFINE s == [server EXCEPT !.link = "up", !.nick = m.who]
<1>2. s \in ServerData /\ [s EXCEPT !.command_time = TRUE] \in ServerData
  BY <1>1 DEF Client, ServerData
<1>3. \/ server' = [s EXCEPT !.command_time = TRUE] /\ UNCHANGED sent
      \/ irc_server_autojoin_channels(s)
  BY DEF Recv001
<1> HIDE DEF s
<1>4. server' \in ServerData /\ sent' \in Seq(Request)
  BY <1>2, <1>3, AutojoinTypes DEF Client
<1>5. QED BY <1>4 DEF Client, Recv001

LEMMA RecvJoinStep ==
  ASSUME Client, NEW m \in Answer, RecvJoin(m)
  PROVE  Client'
<1> DEFINE c == m.chan
           local == m.who = server.nick
           old == IF channel[c].open THEN channel[c] ELSE irc_channel_new
           ch == [old EXCEPT !.part = FALSE]
           emptied == IF local THEN irc_nick_free_all(ch) ELSE ch
           joined == [n \in {m.who} |-> {}]
<1>1. c \in Channel /\ m.who \in Name BY AnswerFields DEF RecvJoin
<1>2. joined \in Nicks
  <2>1. joined \in [{m.who} -> SUBSET Mode] OBVIOUS
  <2>2. QED BY <1>1, <2>1, FunctionIsNicks, {m.who} \in SUBSET Name
<1>3. /\ Sound(old) /\ old.open
      /\ channel[c].open => old.hook_autorejoin = channel[c].hook_autorejoin
      /\ ~channel[c].open => old.hook_autorejoin = 0
  BY <1>1, ChannelNewSound DEF Client
<1>4. /\ IF channel[c].open \/ local
         THEN channel' = [channel EXCEPT ![c] = irc_nick_new(emptied, joined)]
         ELSE UNCHANGED channel
      /\ IF ~channel[c].open /\ local
         THEN \E S \in SUBSET {t \in Timer : timer[t] = Freed} :
                timer' = [t \in Timer |-> IF t \in S THEN c ELSE timer[t]]
         ELSE UNCHANGED timer
      /\ UNCHANGED <<server, sent>>
  BY DEF RecvJoin
<1> HIDE DEF c, old, joined
<1>5. Sound(ch) /\ ch.open /\ ~ch.part /\ ch.hook_autorejoin = old.hook_autorejoin
  BY <1>3 DEF Sound, ChannelData
<1> HIDE DEF ch
<1>6. /\ Sound(emptied) /\ emptied.open /\ ~emptied.part
      /\ emptied.hook_autorejoin = old.hook_autorejoin
  <2>1. ch \in ChannelData BY <1>5 DEF Sound
  <2>2. /\ Sound(irc_nick_free_all(ch))
        /\ irc_nick_free_all(ch).hook_autorejoin = ch.hook_autorejoin
    BY <2>1, NickFreeAllSound
  <2>3. irc_nick_free_all(ch).open /\ ~irc_nick_free_all(ch).part
    BY <1>5, <2>1 DEF irc_nick_free_all, ChannelData
  <2>4. QED BY <1>5, <2>2, <2>3
<1> HIDE DEF emptied, local
<1> DEFINE new == irc_nick_new(emptied, joined)
<1>7. Sound(new) /\ new.hook_autorejoin = old.hook_autorejoin
  BY <1>2, <1>6, NickNewSound
<1> HIDE DEF new
<1>8. CASE channel[c].open
  <2>1. channel' = [channel EXCEPT ![c] = new] /\ UNCHANGED timer
    BY <1>4, <1>8 DEF new
  <2>2. new.hook_autorejoin = channel[c].hook_autorejoin BY <1>3, <1>7, <1>8
  <2>3. /\ channel' \in [Channel -> ChannelData] /\ \A d \in Channel : Sound(channel'[d])
        /\ \A d \in Channel : channel'[d].hook_autorejoin # 0 =>
             timer'[channel'[d].hook_autorejoin] = d
    BY <1>1, <1>7, <2>1, <2>2, OneChannel
  <2>4. QED BY <1>4, <2>1, <2>3 DEF Client
<1>9. CASE ~channel[c].open /\ local
  <2>1. PICK S \in SUBSET {t \in Timer : timer[t] = Freed} :
               timer' = [t \in Timer |-> IF t \in S THEN c ELSE timer[t]]
    BY <1>4, <1>9
  <2>2. channel' = [channel EXCEPT ![c] = new] BY <1>4, <1>9 DEF new
  <2>3. new \in ChannelData /\ new.hook_autorejoin = 0 BY <1>3, <1>7, <1>9 DEF Sound
  <2>4. channel' \in [Channel -> ChannelData] BY <2>2, <2>3 DEF Client
  <2>5. \A d \in Channel : channel'[d] = IF d = c THEN new ELSE channel[d]
    BY <2>2 DEF Client
  <2>6. \A d \in Channel : Sound(channel'[d]) BY <1>7, <2>5 DEF Client
  <2>7. timer' \in [Timer -> Channel \cup {NoChannel, Freed}]
    BY <1>1, <2>1 DEF Client
  <2>8. ASSUME NEW d \in Channel, channel'[d].hook_autorejoin # 0
        PROVE  timer'[channel'[d].hook_autorejoin] = d
    <3>1. d # c /\ channel'[d] = channel[d] BY <2>3, <2>5, <2>8
    <3>2. channel[d].hook_autorejoin \in Timer
      BY <2>8, <3>1 DEF Client, ChannelData
    <3>3. timer[channel[d].hook_autorejoin] = d /\ d # Freed
      BY <2>8, <3>1 DEF Client
    <3>4. QED BY <2>1, <3>1, <3>2, <3>3
  <2>9. QED BY <1>4, <2>4, <2>6, <2>7, <2>8 DEF Client
<1>10. CASE ~channel[c].open /\ ~local
  <2>1. UNCHANGED <<channel, timer, server, sent>> BY <1>4, <1>10
  <2>2. QED BY <2>1 DEF Client
<1>11. QED BY <1>8, <1>9, <1>10

\* One channel has new contents, and keeps its timer; the rest of the client stays.
LEMMA Refresh ==
  ASSUME Client, NEW c \in Channel, NEW ch, Sound(ch),
         ch.hook_autorejoin = channel[c].hook_autorejoin,
         channel' = [channel EXCEPT ![c] = ch], UNCHANGED timer,
         server' = server, sent' \in Seq(Request)
  PROVE  Client'
<1>1. /\ channel' \in [Channel -> ChannelData] /\ \A d \in Channel : Sound(channel'[d])
      /\ \A d \in Channel : channel'[d].hook_autorejoin # 0 =>
           timer'[channel'[d].hook_autorejoin] = d
  BY OneChannel
<1>2. QED BY <1>1 DEF Client

LEMMA Recv353Step ==
  ASSUME Client, NEW m \in Answer, Recv353(m)
  PROVE  Client'
<1> DEFINE c == m.chan
           ch == channel[c]
           new == IF ch.nicks # NoNicks THEN irc_nick_new(ch, m.nicks) ELSE ch
<1>1. c \in Channel /\ m.nicks \in Nicks BY AnswerFields DEF Recv353
<1>2. channel' = [channel EXCEPT ![c] = new] /\ UNCHANGED <<server, timer, sent>>
  BY DEF Recv353
<1>3. Sound(ch) BY <1>1 DEF Client
<1>4. Sound(new) /\ new.hook_autorejoin = ch.hook_autorejoin
  <2>1. CASE ch.nicks # NoNicks
    <3>1. ch.open /\ ~ch.part BY <1>3, <2>1 DEF Sound
    <3>2. QED BY <1>1, <1>3, <2>1, <3>1, NickNewSound
  <2>2. CASE ch.nicks = NoNicks BY <1>3, <2>2
  <2>3. QED BY <2>1, <2>2
<1> HIDE DEF c, new
<1>5. sent' \in Seq(Request) BY <1>2 DEF Client
<1>6. QED BY <1>1, <1>2, <1>4, <1>5, Refresh

LEMMA RecvLeftStep ==
  ASSUME Client, NEW m \in Answer, RecvLeft(m)
  PROVE  Client'
<1> DEFINE c == m.chan
           ch == channel[c]
           new == IF m.who \in DOMAIN ch.nicks THEN irc_nick_free(ch, m.who) ELSE ch
<1>1. c \in Channel BY AnswerFields DEF RecvLeft
<1>2. channel' = [channel EXCEPT ![c] = new] /\ UNCHANGED <<server, timer, sent>>
  BY DEF RecvLeft
<1>3. Sound(ch) BY <1>1 DEF Client
<1>4. Sound(new) /\ new.hook_autorejoin = ch.hook_autorejoin
  BY <1>3, NickFreeSound
<1> HIDE DEF c, new
<1>5. sent' \in Seq(Request) BY <1>2 DEF Client
<1>6. QED BY <1>1, <1>2, <1>4, <1>5, Refresh

LEMMA RecvModeStep ==
  ASSUME Client, NEW m \in Answer, RecvMode(m)
  PROVE  Client'
<1> DEFINE c == m.chan
           ch == channel[c]
           new == IF m.who \in DOMAIN ch.nicks
                  THEN irc_nick_set_mode(ch, m.who, m.set, m.mode) ELSE ch
<1>1. c \in Channel /\ m.set \in BOOLEAN /\ m.mode \in Mode BY AnswerFields DEF RecvMode
<1>2. channel' = [channel EXCEPT ![c] = new] /\ UNCHANGED <<server, timer, sent>>
  BY DEF RecvMode
<1>3. Sound(ch) BY <1>1 DEF Client
<1>4. Sound(new) /\ new.hook_autorejoin = ch.hook_autorejoin
  BY <1>1, <1>3, NickSetModeSound
<1> HIDE DEF c, new
<1>5. sent' \in Seq(Request) BY <1>2 DEF Client
<1>6. QED BY <1>1, <1>2, <1>4, <1>5, Refresh

\* Every channel changes, and keeps its timer.
LEMMA EveryChannel ==
  ASSUME Client, NEW f, channel' = [c \in Channel |-> f[c]],
         \A c \in Channel : /\ Sound(f[c])
                            /\ f[c].hook_autorejoin = channel[c].hook_autorejoin,
         UNCHANGED <<timer, sent>>, server' \in ServerData
  PROVE  Client'
<1>1. \A c \in Channel : channel'[c] = f[c] /\ f[c] \in ChannelData BY DEF Sound
<1>2. channel' \in [Channel -> ChannelData] BY <1>1
<1>3. QED BY <1>1, <1>2 DEF Client

LEMMA RecvNickStep ==
  ASSUME Client, NEW m \in Answer, RecvNick(m)
  PROVE  Client'
<1> DEFINE f == [c \in Channel |-> IF m.who \in DOMAIN channel[c].nicks
                                   THEN irc_nick_change(channel[c], m.who, m.new)
                                   ELSE channel[c]]
<1>1. m.new \in Name BY AnswerFields DEF RecvNick
<1>2. /\ server' = [server EXCEPT !.nick = IF m.who = server.nick THEN m.new ELSE server.nick]
      /\ channel' = f /\ UNCHANGED <<timer, sent>>
  BY DEF RecvNick
<1>3. server' \in ServerData BY <1>1, <1>2 DEF Client, ServerData
<1>4. \A c \in Channel : Sound(f[c]) /\ f[c].hook_autorejoin = channel[c].hook_autorejoin
  BY <1>1, NickChangeSound DEF Client
<1>5. f = [c \in Channel |-> f[c]] OBVIOUS
<1> HIDE DEF f
<1>6. QED BY <1>2, <1>3, <1>4, <1>5, EveryChannel

LEMMA RecvQuitStep ==
  ASSUME Client, NEW m \in Answer, RecvQuit(m)
  PROVE  Client'
<1> DEFINE f == [c \in Channel |->
                   IF m.type = "KILL" /\ m.who = server.nick THEN irc_nick_free_all(channel[c])
                   ELSE IF m.who \in DOMAIN channel[c].nicks
                        THEN irc_nick_free(channel[c], m.who) ELSE channel[c]]
<1>1. channel' = f /\ UNCHANGED <<server, timer, sent>> BY DEF RecvQuit
<1>2. server' \in ServerData BY <1>1 DEF Client
<1>3. ASSUME NEW c \in Channel
      PROVE  Sound(f[c]) /\ f[c].hook_autorejoin = channel[c].hook_autorejoin
  <2>1. Sound(channel[c]) /\ channel[c] \in ChannelData BY DEF Client
  <2>2. CASE m.type = "KILL" /\ m.who = server.nick BY <2>1, <2>2, NickFreeAllSound
  <2>3. CASE ~(m.type = "KILL" /\ m.who = server.nick) BY <2>1, <2>3, NickFreeSound
  <2>4. QED BY <2>2, <2>3
<1>4. f = [c \in Channel |-> f[c]] OBVIOUS
<1> HIDE DEF f
<1>5. QED BY <1>1, <1>2, <1>3, <1>4, EveryChannel

\* A channel changes with its pointer, and timers with it.
LEMMA OneTimer ==
  ASSUME Client, NEW c \in Channel, NEW ch, Sound(ch),
         channel' = [channel EXCEPT ![c] = ch],
         timer' \in [Timer -> Channel \cup {NoChannel, Freed}],
         ch.hook_autorejoin # 0 => timer'[ch.hook_autorejoin] = c,
         \A t \in Timer : timer[t] \in Channel \ {c} => timer'[t] = timer[t],
         server' \in ServerData, sent' \in Seq(Request)
  PROVE  Client'
<1>1. ch \in ChannelData BY DEF Sound
<1>2. channel' \in [Channel -> ChannelData] BY <1>1 DEF Client
<1>3. \A d \in Channel : channel'[d] = IF d = c THEN ch ELSE channel[d] BY DEF Client
<1>4. \A d \in Channel : Sound(channel'[d]) BY <1>3 DEF Client
<1>5. ASSUME NEW d \in Channel, channel'[d].hook_autorejoin # 0
      PROVE  timer'[channel'[d].hook_autorejoin] = d
  <2>1. CASE d = c BY <1>3, <1>5, <2>1
  <2>2. CASE d # c
    <3>1. channel'[d] = channel[d] BY <1>3, <2>2
    <3>2. channel[d].hook_autorejoin \in Timer BY <1>5, <3>1 DEF Client, ChannelData
    <3>3. timer[channel[d].hook_autorejoin] = d BY <1>5, <3>1 DEF Client
    <3>4. QED BY <2>2, <3>1, <3>2, <3>3
  <2>3. QED BY <2>1, <2>2
<1>6. QED BY <1>2, <1>4, <1>5 DEF Client

LEMMA RecvKickMeStep ==
  ASSUME Client, NEW m \in Answer, RecvKickMe(m)
  PROVE  Client'
<1> DEFINE c == m.chan
           ch == irc_nick_free_all(channel[c])
           waits == [ch EXCEPT !.hook_autorejoin = NewTimer]
<1>1. c \in Channel BY AnswerFields DEF RecvKickMe
<1>2. /\ Sound(ch) /\ ch.hook_autorejoin = channel[c].hook_autorejoin
      /\ ch.nicks = NoNicks /\ ch \in ChannelData
  BY <1>1, NickFreeAllSound DEF Client, Sound
<1>3. server' = server BY DEF RecvKickMe
<1>4. CASE channel' = [channel EXCEPT ![c] = ch] /\ UNCHANGED <<timer, sent>>
  <2>1. sent' \in Seq(Request) BY <1>4 DEF Client
  <2> HIDE DEF c, ch
  <2>2. QED BY <1>1, <1>2, <1>3, <1>4, <2>1, Refresh
<1>5. CASE /\ channel' = [channel EXCEPT ![c] = ch] /\ irc_command_join_server(c)
           /\ UNCHANGED timer
  <2>1. sent' \in Seq(Request) BY <1>1, <1>5, CommandTypes DEF Client
  <2> HIDE DEF c, ch
  <2>2. QED BY <1>1, <1>2, <1>3, <1>5, <2>1, Refresh
<1>6. CASE /\ Idle # {} /\ channel' = [channel EXCEPT ![c] = waits]
           /\ timer' = [timer EXCEPT ![NewTimer] = c] /\ UNCHANGED sent
  <2>1. NewTimer \in Idle BY <1>6 DEF NewTimer
  <2>2. NewTimer \in Timer /\ timer[NewTimer] = NoChannel BY <2>1 DEF Idle
  <2> HIDE DEF ch
  <2>3. Sound(waits) /\ waits.hook_autorejoin = NewTimer
    BY <1>2, <2>2 DEF Sound, ChannelData
  <2> HIDE DEF waits, c
  <2>4. timer' \in [Timer -> Channel \cup {NoChannel, Freed}]
    BY <1>1, <1>6, <2>2 DEF Client
  <2>5. timer'[waits.hook_autorejoin] = c BY <1>6, <2>2, <2>3 DEF Client
  <2>6. \A t \in Timer : timer[t] \in Channel \ {c} => timer'[t] = timer[t]
    BY <1>6, <2>2 DEF Client
  <2>7. server' \in ServerData /\ sent' \in Seq(Request) BY <1>3, <1>6 DEF Client
  <2>8. channel' = [channel EXCEPT ![c] = waits] BY <1>6
  <2>9. QED BY <1>1, <2>3, <2>4, <2>5, <2>6, <2>7, <2>8, OneTimer
<1>7. QED BY <1>4, <1>5, <1>6 DEF RecvKickMe

\* A channel is freed: the timers that others point to stay.
LEMMA ChannelFreed ==
  ASSUME Client, NEW c \in Channel, channel' = [channel EXCEPT ![c] = Closed],
         timer' = FreeTimers(c), server' = server, sent' \in Seq(Request)
  PROVE  Client'
<1>1. Sound(Closed) /\ Closed.hook_autorejoin = 0 BY ClosedSound
<1>2. timer' \in [Timer -> Channel \cup {NoChannel, Freed}]
  BY DEF Client, FreeTimers
<1>3. ASSUME NEW t \in Timer, timer[t] \in Channel \ {c} PROVE timer'[t] = timer[t]
  <2>1. t # 0 BY DEF Timer
  <2>2. channel[c].hook_autorejoin # t BY <1>3, <2>1 DEF Client
  <2>3. QED BY <1>3, <2>2 DEF FreeTimers
<1>4. server' \in ServerData BY DEF Client
<1>5. QED BY <1>1, <1>2, <1>3, <1>4, OneTimer

LEMMA RecvPartMeStep ==
  ASSUME Client, NEW m \in Answer, RecvPartMe(m)
  PROVE  Client'
<1> DEFINE c == m.chan
           ch == irc_nick_free_all(channel[c])
           cycled == [ch EXCEPT !.cycle = FALSE]
           parted == [ch EXCEPT !.part = TRUE]
<1>1. c \in Channel BY AnswerFields DEF RecvPartMe
<1>2. /\ Sound(ch) /\ ch.hook_autorejoin = channel[c].hook_autorejoin
      /\ ch.nicks = NoNicks /\ ch \in ChannelData
  BY <1>1, NickFreeAllSound DEF Client, Sound
<1>3. server' = server BY DEF RecvPartMe
<1>4. /\ Sound(cycled) /\ cycled.hook_autorejoin = channel[c].hook_autorejoin
      /\ Sound(parted) /\ parted.hook_autorejoin = channel[c].hook_autorejoin
  <2> HIDE DEF ch
  <2>1. QED BY <1>2 DEF Sound, ChannelData
<1>5. CASE /\ channel' = [channel EXCEPT ![c] = cycled] /\ irc_command_join_server(c)
           /\ UNCHANGED timer
  <2>1. sent' \in Seq(Request) BY <1>1, <1>5, CommandTypes DEF Client
  <2> HIDE DEF c, cycled
  <2>2. QED BY <1>1, <1>3, <1>4, <1>5, <2>1, Refresh
<1>6. CASE channel' = [channel EXCEPT ![c] = parted] /\ UNCHANGED <<timer, sent>>
  <2>1. sent' \in Seq(Request) BY <1>6 DEF Client
  <2> HIDE DEF c, parted
  <2>2. QED BY <1>1, <1>3, <1>4, <1>6, <2>1, Refresh
<1>7. CASE /\ channel' = [channel EXCEPT ![c] = Closed] /\ timer' = FreeTimers(c)
           /\ UNCHANGED sent
  <2>1. sent' \in Seq(Request) BY <1>7 DEF Client
  <2> HIDE DEF c
  <2>2. QED BY <1>1, <1>3, <1>7, <2>1, ChannelFreed
<1>8. QED BY <1>5, <1>6, <1>7 DEF RecvPartMe

LEMMA PartsAreClient == Parts <=> Client /\ net \in NetData /\ wire \in Seq(Answer)
BY DEF Parts, Client

LEMMA ClientReadsStep == Parts /\ ClientReads => Parts'
<1> SUFFICES ASSUME Parts, ClientReads PROVE Parts' OBVIOUS
<1> DEFINE m == Head(wire)
<1>1. Client /\ net \in NetData /\ wire \in Seq(Answer) BY PartsAreClient
<1>2. wire # <<>> /\ wire' = Tail(wire) /\ net' = net BY DEF ClientReads
<1>3. m \in Answer /\ wire' \in Seq(Answer) BY <1>1, <1>2, HeadTailProperties
<1>4. \/ Recv001(m) \/ RecvJoin(m) \/ Recv353(m) \/ RecvKickMe(m) \/ RecvPartMe(m)
      \/ RecvLeft(m) \/ RecvMode(m) \/ RecvNick(m) \/ RecvQuit(m)
  BY DEF ClientReads
<1> HIDE DEF m
<1>5. ASSUME Recv001(m) PROVE Client' BY <1>1, <1>3, <1>5, Recv001Step
<1>6. ASSUME RecvJoin(m) PROVE Client' BY <1>1, <1>3, <1>6, RecvJoinStep
<1>7. ASSUME Recv353(m) PROVE Client' BY <1>1, <1>3, <1>7, Recv353Step
<1>8. ASSUME RecvKickMe(m) PROVE Client' BY <1>1, <1>3, <1>8, RecvKickMeStep
<1>9. ASSUME RecvPartMe(m) PROVE Client' BY <1>1, <1>3, <1>9, RecvPartMeStep
<1>10. ASSUME RecvLeft(m) PROVE Client' BY <1>1, <1>3, <1>10, RecvLeftStep
<1>11. ASSUME RecvMode(m) PROVE Client' BY <1>1, <1>3, <1>11, RecvModeStep
<1>12. ASSUME RecvNick(m) PROVE Client' BY <1>1, <1>3, <1>12, RecvNickStep
<1>13. ASSUME RecvQuit(m) PROVE Client' BY <1>1, <1>3, <1>13, RecvQuitStep
<1>14. Client'
  BY <1>4, <1>5, <1>6, <1>7, <1>8, <1>9, <1>10, <1>11, <1>12, <1>13
<1>15. net' \in NetData BY <1>1, <1>2
<1>16. QED BY <1>3, <1>14, <1>15 DEF Parts, Client
-----------------------------------------------------------------------------
(* Timers, the link, the user.  A step leaves the network alone, or empties *)
(* what is under way.                                                      *)

LEMMA FromClient ==
  ASSUME Client', net' \in NetData, wire' \in Seq(Answer)
  PROVE  Parts'
BY DEF Parts, Client

LEMMA TimersStep == Parts /\ Timers => Parts'
<1> SUFFICES ASSUME Parts, Timers PROVE Parts' OBVIOUS
<1>1. Client /\ net \in NetData /\ wire \in Seq(Answer) BY PartsAreClient
<1>2. ASSUME AutojoinDue PROVE Client' /\ net' \in NetData /\ wire' \in Seq(Answer)
  <2>1. [server EXCEPT !.command_time = FALSE] \in ServerData
    BY <1>1 DEF Client, ServerData
  <2>2. irc_server_autojoin_channels([server EXCEPT !.command_time = FALSE])
    BY <1>2 DEF AutojoinDue
  <2>3. server' \in ServerData /\ sent' \in Seq(Request)
    BY <1>1, <2>1, <2>2, AutojoinTypes DEF Client
  <2>4. QED BY <1>1, <1>2, <2>3 DEF Client, AutojoinDue
<1>3. ASSUME NEW t \in Timer, AutorejoinFires(t)
      PROVE  Client' /\ net' \in NetData /\ wire' \in Seq(Answer)
  <2> DEFINE c == timer[t]
             rejoin == c \in Channel /\ channel[c].hook_autorejoin # 0
             ch == [channel[c] EXCEPT !.hook_autorejoin = 0]
  <2>1. timer' = [timer EXCEPT ![t] = NoChannel] /\ UNCHANGED <<server, wire, net>>
    BY <1>3 DEF AutorejoinFires
  <2>2. timer' \in [Timer -> Channel \cup {NoChannel, Freed}] BY <1>1, <2>1 DEF Client
  <2>3. CASE rejoin
    <3>1. irc_command_join_server(c) /\ channel' = [channel EXCEPT ![c] = ch]
      BY <1>3, <2>3 DEF AutorejoinFires
    <3>2. sent' \in Seq(Request) BY <1>1, <2>3, <3>1, CommandTypes DEF Client
    <3>3. Sound(ch) /\ ch.hook_autorejoin = 0
      <4>1. Sound(channel[c]) BY <1>1, <2>3 DEF Client
      <4>2. QED BY <4>1 DEF Sound, ChannelData
    <3>4. \A s \in Timer : timer[s] \in Channel \ {c} => timer'[s] = timer[s]
      BY <1>1, <2>1 DEF Client
    <3>5. server' \in ServerData BY <1>1, <2>1 DEF Client
    <3>6. c \in Channel BY <2>3
    <3> HIDE DEF c, ch
    <3>7. Client' BY <1>1, <2>2, <3>1, <3>2, <3>3, <3>4, <3>5, <3>6, OneTimer
    <3>8. QED BY <1>1, <2>1, <3>7
  <2>4. CASE ~rejoin
    <3>1. UNCHANGED <<channel, sent>> BY <1>3, <2>4 DEF AutorejoinFires
    <3>2. ASSUME NEW d \in Channel, channel[d].hook_autorejoin # 0
          PROVE  timer'[channel[d].hook_autorejoin] = d
      <4>1. channel[d].hook_autorejoin \in Timer /\ timer[channel[d].hook_autorejoin] = d
        BY <1>1, <3>2 DEF Client, ChannelData
      <4>2. channel[d].hook_autorejoin # t BY <2>4, <3>2, <4>1
      <4>3. QED BY <1>1, <2>1, <4>1, <4>2 DEF Client
    <3>3. QED BY <1>1, <2>1, <2>2, <3>1, <3>2 DEF Client
  <2>5. QED BY <2>3, <2>4
<1>4. QED BY <1>2, <1>3, FromClient DEF Timers

LEMMA AwayTypes ==
  ASSUME net \in NetData
  PROVE  /\ Away \in NetData
         /\ net.links < MaxLinks => [Away EXCEPT !.links = Away.links + 1] \in NetData
<1>1. [c \in Channel |-> NoNicks] \in [Channel -> Nicks] BY NoNicksFacts
<1>2. Away = [net EXCEPT !.me = NoNick, !.members = [c \in Channel |-> NoNicks]]
  BY DEF Away
<1> DEFINE empty == [c \in Channel |-> NoNicks]
<1> HIDE DEF empty
<1>3. Away \in NetData /\ Away.links = net.links BY <1>1, <1>2 DEF NetData, empty
<1>4. MaxLinks \in Nat /\ net.links \in 0 .. MaxLinks BY DEF NetData
<1>5. net.links < MaxLinks => Away.links + 1 \in 0 .. MaxLinks BY <1>3, <1>4
<1>6. QED BY <1>3, <1>5 DEF NetData

LEMMA DisconnectTypes ==
  ASSUME Client, NEW reconnect \in BOOLEAN, irc_server_disconnect(reconnect)
  PROVE  Client' /\ wire' \in Seq(Answer)
<1>1. /\ server' = [server EXCEPT !.link = IF reconnect THEN "waiting" ELSE "off",
                                  !.nick = IF reconnect THEN server.nick ELSE NoNick]
      /\ sent' = <<>> /\ wire' = <<>>
  BY DEF irc_server_disconnect
<1>2. server' \in ServerData BY <1>1 DEF Client, ServerData
<1>3. sent' \in Seq(Request) /\ wire' \in Seq(Answer) BY <1>1
<1>4. CASE Connected
  <2> DEFINE new(c) == [irc_nick_free_all(channel[c]) EXCEPT !.hook_autorejoin = 0]
  <2>1. channel' = [c \in Channel |-> new(c)] /\ timer' = UnhookAll
    BY <1>4 DEF irc_server_disconnect
  <2>2. ASSUME NEW c \in Channel PROVE Sound(new(c)) /\ new(c).hook_autorejoin = 0
    <3>1. channel[c] \in ChannelData BY DEF Client
    <3>2. Sound(irc_nick_free_all(channel[c])) BY <3>1, NickFreeAllSound
    <3>3. QED BY <3>2 DEF Sound, ChannelData
  <2> HIDE DEF new
  <2>3. \A c \in Channel : channel'[c] = new(c) /\ new(c) \in ChannelData
    BY <2>1, <2>2 DEF Sound
  <2>4. channel' \in [Channel -> ChannelData] BY <2>1, <2>3
  <2>5. timer' \in [Timer -> Channel \cup {NoChannel, Freed}]
    BY <2>1 DEF Client, UnhookAll
  <2>6. QED BY <1>2, <1>3, <2>2, <2>3, <2>4, <2>5 DEF Client
<1>5. CASE ~Connected
  <2>1. UNCHANGED <<channel, timer>> BY <1>5 DEF irc_server_disconnect
  <2>2. QED BY <1>2, <1>3, <2>1 DEF Client
<1>6. QED BY <1>4, <1>5

LEMMA LinkStep == Parts /\ Link => Parts'
<1> SUFFICES ASSUME Parts, Link PROVE Parts' OBVIOUS
<1>1. Client /\ net \in NetData /\ wire \in Seq(Answer) BY PartsAreClient
<1>2. ASSUME LinkLost \/ Disconnect PROVE Parts'
  <2>1. PICK b \in BOOLEAN : irc_server_disconnect(b) BY <1>2 DEF LinkLost, Disconnect
  <2>2. net.links < MaxLinks /\ net' = [Away EXCEPT !.links = Away.links + 1]
    BY <1>2 DEF LinkLost, Disconnect
  <2>3. net' \in NetData BY <1>1, <2>2, AwayTypes
  <2>4. Client' /\ wire' \in Seq(Answer) BY <1>1, <2>1, DisconnectTypes
  <2>5. QED BY <2>3, <2>4, FromClient
<1>3. ASSUME KilledEnd PROVE Parts'
  <2>1. irc_server_disconnect(TRUE) /\ net' = Away BY <1>3 DEF KilledEnd
  <2>2. Client' /\ wire' \in Seq(Answer) BY <1>1, <2>1, DisconnectTypes
  <2>3. QED BY <1>1, <2>1, <2>2, AwayTypes, FromClient
<1>4. ASSUME irc_server_reconnect \/ \E b \in BOOLEAN : Connect(b) PROVE Parts'
  <2>1. UNCHANGED <<channel, timer, sent, wire, net>>
    BY <1>4 DEF irc_server_reconnect, Connect
  <2>2. server' \in ServerData
    <3>1. CASE irc_server_reconnect BY <1>1, <3>1 DEF irc_server_reconnect, Client, ServerData
    <3>2. CASE \E b \in BOOLEAN : Connect(b)
      <4>1. PICK b \in BOOLEAN : Connect(b) BY <3>2
      <4>2. (Opened # {}) \in BOOLEAN OBVIOUS
      <4>3. server' = [server EXCEPT !.link = "login", !.disable_autojoin = b,
                                     !.reconnect_join = Opened # {}]
        BY <4>1 DEF Connect
      <4>4. QED BY <1>1, <4>2, <4>3 DEF Client, ServerData
    <3>3. QED BY <1>4, <3>1, <3>2
  <2>3. Client' BY <1>1, <2>1, <2>2 DEF Client
  <2>4. QED BY <1>1, <2>1, <2>3, FromClient
<1>5. ASSUME NEW n \in MyNames, Registers(n) PROVE Parts'
  <2>1. /\ UNCHANGED <<server, channel, timer, sent>>
        /\ net' = [net EXCEPT !.me = n]
        /\ wire' = <<[type |-> "001", who |-> n]>>
    BY <1>5 DEF Registers
  <2>2. net' \in NetData BY <1>1, <2>1 DEF NetData
  <2>3. [type |-> "001", who |-> n] \in Answer BY DEF Answer
  <2>4. wire' \in Seq(Answer) BY <2>1, <2>3
  <2>5. Client' BY <1>1, <2>1 DEF Client
  <2>6. QED BY <2>2, <2>4, <2>5, FromClient
<1>6. QED BY <1>2, <1>3, <1>4, <1>5 DEF Link

LEMMA UserStep == Parts /\ User => Parts'
<1> SUFFICES ASSUME Parts, User PROVE Parts' OBVIOUS
<1>1. Client /\ net \in NetData /\ wire \in Seq(Answer) BY PartsAreClient
<1>2. PICK c \in Channel : Join(c) \/ Part(c) \/ Cycle(c) \/ CloseBuffer(c) BY DEF User
<1>3. UNCHANGED <<server, wire, net>> BY <1>2 DEF Join, Part, Cycle, CloseBuffer
<1>4. ASSUME UNCHANGED <<channel, timer>>,
             irc_command_join_server(c) \/ irc_command_part_channel(c)
      PROVE  Client'
  <2>1. sent' \in Seq(Request) BY <1>1, <1>4, CommandTypes DEF Client
  <2>2. QED BY <1>1, <1>3, <1>4, <2>1 DEF Client
<1>5. ASSUME channel' = [channel EXCEPT ![c] = Closed], timer' = FreeTimers(c),
             irc_command_part_channel(c) \/ UNCHANGED sent
      PROVE  Client'
  <2>1. sent' \in Seq(Request) BY <1>1, <1>5, CommandTypes DEF Client
  <2>2. QED BY <1>1, <1>3, <1>5, <2>1, ChannelFreed
<1>6. ASSUME Cycle(c) PROVE Client'
  <2> DEFINE ch == [channel[c] EXCEPT !.cycle = channel[c].open]
  <2>1. channel' = [channel EXCEPT ![c] = ch] /\ UNCHANGED timer
        /\ irc_command_part_channel(c)
    BY <1>6 DEF Cycle
  <2>2. Sound(channel[c]) BY <1>1 DEF Client
  <2>3. Sound(ch) /\ ch.hook_autorejoin = channel[c].hook_autorejoin
    BY <2>2 DEF Sound, ChannelData
  <2>4. sent' \in Seq(Request) BY <1>1, <2>1, CommandTypes DEF Client
  <2> HIDE DEF ch
  <2>5. QED BY <1>1, <1>3, <2>1, <2>3, <2>4, Refresh
<1>7. Client' BY <1>2, <1>4, <1>5, <1>6 DEF Join, Part, CloseBuffer
<1>8. QED BY <1>1, <1>3, <1>7, FromClient
-----------------------------------------------------------------------------
(* The network.                                                            *)

LEMMA EventIsAnswer ==
  ASSUME NEW type \in {"JOIN", "PART", "KICK"}, NEW n \in Name, NEW c \in Channel
  PROVE  Event(type, n, c) \in Answer
BY DEF Event, Answer

LEMMA NamesReplyIsAnswer ==
  ASSUME NEW c \in Channel, NEW f \in Nicks
  PROVE  NamesReply(c, f) \in Answer
<1>1. DOMAIN f \in SUBSET Name /\ \A n \in DOMAIN f : f[n] \in SUBSET Mode
  BY NicksFacts
<1>2. \A n \in DOMAIN f : f[n] # {} => irc_nick_get_nicklist_group(f[n]) \in SUBSET Mode
  BY <1>1 DEF irc_nick_get_nicklist_group
<1>3. Shown(f) \in [DOMAIN f -> SUBSET Mode] BY <1>1, <1>2 DEF Shown
<1>4. Shown(f) \in Nicks BY <1>1, <1>3, FunctionIsNicks
<1>5. QED BY <1>4 DEF NamesReply, Answer

LEMMA TellOne ==
  ASSUME wire \in Seq(Answer), NEW m \in Answer, Tell(<<m>>)
  PROVE  wire' \in Seq(Answer)
<1>1. <<m>> \in Seq(Answer) OBVIOUS
<1>2. QED BY <1>1, ConcatProperties DEF Tell

LEMMA TellTwo ==
  ASSUME wire \in Seq(Answer), NEW m \in Answer, NEW n \in Answer, Tell(<<m, n>>)
  PROVE  wire' \in Seq(Answer)
<1>1. <<m, n>> \in Seq(Answer) OBVIOUS
<1>2. QED BY <1>1, ConcatProperties DEF Tell

\* The members of a channel change.
LEMMA MembersTypes ==
  ASSUME net \in NetData, NEW c \in Channel, NEW f \in Nicks
  PROVE  [net EXCEPT !.members = [net.members EXCEPT ![c] = f]] \in NetData
<1>1. net.members \in [Channel -> Nicks] BY DEF NetData
<1>2. [net.members EXCEPT ![c] = f] \in [Channel -> Nicks] BY <1>1
<1>3. QED BY <1>2 DEF NetData

LEMMA ModesAreNicks ==
  ASSUME NEW n \in Name, NEW modes \in SUBSET Mode
  PROVE  [x \in {n} |-> modes] \in Nicks
<1>1. [x \in {n} |-> modes] \in [{n} -> SUBSET Mode] OBVIOUS
<1>2. {n} \in SUBSET Name OBVIOUS
<1>3. QED BY <1>1, <1>2, FunctionIsNicks

LEMMA InIsName ==
  ASSUME net \in NetData, NEW c \in Channel, In(c)
  PROVE  net.me \in Name /\ net.members[c] \in Nicks /\ net.me \in DOMAIN net.members[c]
<1>1. net.members[c] \in Nicks BY DEF NetData
<1>2. DOMAIN net.members[c] \in SUBSET Name BY <1>1, NicksFacts
<1>3. QED BY <1>1, <1>2 DEF In

LEMMA NetReadsStep == Parts /\ NetReads => Parts'
<1> SUFFICES ASSUME Parts, NetReads PROVE Parts' OBVIOUS
<1> DEFINE m == Head(sent)
           c == m.chan
<1>1. Client /\ net \in NetData /\ wire \in Seq(Answer) BY PartsAreClient
<1>2. sent # <<>> /\ sent' = Tail(sent) /\ UNCHANGED <<server, channel, timer>>
  BY DEF NetReads
<1>3. m \in Request /\ sent' \in Seq(Request)
  BY <1>1, <1>2, HeadTailProperties DEF Client
<1>4. c \in Channel BY <1>3 DEF Request
<1>5. Client' BY <1>1, <1>2, <1>3 DEF Client
<1>6. \/ net.me # NoNick /\ \E f \in UNION {[S \cup {net.me} -> Granted] : S \in SUBSET (Name \ {net.me})} :
           /\ net' = [net EXCEPT !.members = [net.members EXCEPT ![c] = f]]
           /\ Tell(<<Event("JOIN", net.me, c), NamesReply(c, f)>>)
      \/ /\ In(c)
         /\ net' = [net EXCEPT !.members = [net.members EXCEPT ![c] = NoNicks]]
         /\ Tell(<<Event("PART", net.me, c)>>)
      \/ UNCHANGED <<net, wire>>
  BY DEF NetReads
<1> HIDE DEF c, m
<1>7. ASSUME net.me # NoNick,
             NEW f \in UNION {[S \cup {net.me} -> Granted] : S \in SUBSET (Name \ {net.me})},
             net' = [net EXCEPT !.members = [net.members EXCEPT ![c] = f]],
             Tell(<<Event("JOIN", net.me, c), NamesReply(c, f)>>)
      PROVE  net' \in NetData /\ wire' \in Seq(Answer)
  <2>1. net.me \in Name BY <1>1, <1>7 DEF NetData
  <2>2. PICK S \in SUBSET (Name \ {net.me}) : f \in [S \cup {net.me} -> Granted] OBVIOUS
  <2>3. S \cup {net.me} \in SUBSET Name BY <2>1
  <2>4. Granted \subseteq SUBSET Mode OBVIOUS
  <2>5. f \in [S \cup {net.me} -> SUBSET Mode] BY <2>2, <2>4
  <2>6. f \in Nicks BY <2>3, <2>5, FunctionIsNicks
  <2>7. net' \in NetData BY <1>1, <1>4, <1>7, <2>6, MembersTypes
  <2>8. Event("JOIN", net.me, c) \in Answer /\ NamesReply(c, f) \in Answer
    BY <1>4, <2>1, <2>6, EventIsAnswer, NamesReplyIsAnswer
  <2>9. wire' \in Seq(Answer) BY <1>1, <1>7, <2>8, TellTwo
  <2>10. QED BY <2>7, <2>9
<1>8. ASSUME In(c), net' = [net EXCEPT !.members = [net.members EXCEPT ![c] = NoNicks]],
             Tell(<<Event("PART", net.me, c)>>)
      PROVE  net' \in NetData /\ wire' \in Seq(Answer)
  <2>1. net' \in NetData BY <1>1, <1>4, <1>8, NoNicksFacts, MembersTypes
  <2>2. net.me \in Name BY <1>1, <1>4, <1>8, InIsName
  <2>3. Event("PART", net.me, c) \in Answer BY <1>4, <2>2, EventIsAnswer
  <2>4. wire' \in Seq(Answer) BY <1>1, <1>8, <2>3, TellOne
  <2>5. QED BY <2>1, <2>4
<1>9. net' \in NetData /\ wire' \in Seq(Answer) BY <1>1, <1>6, <1>7, <1>8
<1>10. QED BY <1>5, <1>9, FromClient

\* What others do, one lemma for what happens in a channel, one for the rest.
NetTypes == net' \in NetData /\ wire' \in Seq(Answer)

LEMMA ChannelEvents ==
  ASSUME net \in NetData, wire \in Seq(Answer), NEW c \in Channel
  PROVE  /\ BouncerJoins(c) => NetTypes
         /\ \A b \in BOOLEAN : NetKicksMe(c, b) => NetTypes
         /\ \A n \in Name : NetJoin(n, c) => NetTypes
         /\ \A n \in Name, type \in {"PART", "KICK"} : NetLeave(n, c, type) => NetTypes
         /\ \A n \in Name, set \in BOOLEAN, mode \in Mode : NetMode(n, c, set, mode) => NetTypes
<1>1. ASSUME BouncerJoins(c) PROVE NetTypes
  <2>1. net.me \in Name /\ net.members[c] \in Nicks BY <1>1, InIsName DEF BouncerJoins
  <2>2. Event("JOIN", net.me, c) \in Answer /\ NamesReply(c, net.members[c]) \in Answer
    BY <2>1, EventIsAnswer, NamesReplyIsAnswer
  <2>3. Tell(<<Event("JOIN", net.me, c), NamesReply(c, net.members[c])>>) /\ net' = net
    BY <1>1 DEF BouncerJoins
  <2>4. QED BY <2>2, <2>3, TellTwo DEF NetTypes
<1>2. ASSUME NEW b \in BOOLEAN, NetKicksMe(c, b) PROVE NetTypes
  <2>1. net.me \in Name BY <1>2, InIsName DEF NetKicksMe
  <2>2. Event("KICK", net.me, c) \in Answer BY <2>1, EventIsAnswer
  <2> DEFINE banned == IF b THEN net.banned \cup {c} ELSE net.banned
             left == [net EXCEPT !.members = [net.members EXCEPT ![c] = NoNicks]]
  <2>3. Tell(<<Event("KICK", net.me, c)>>) BY <1>2 DEF NetKicksMe
  <2>4. net' = [left EXCEPT !.banned = banned] BY <1>2 DEF NetKicksMe, NetData
  <2>5. left \in NetData BY NoNicksFacts, MembersTypes
  <2>6. banned \in SUBSET Channel BY DEF NetData
  <2> HIDE DEF left, banned
  <2>7. net' \in NetData BY <2>4, <2>5, <2>6 DEF NetData
  <2>8. QED BY <2>2, <2>3, <2>7, TellOne DEF NetTypes
<1>3. ASSUME NEW n \in Name, NetJoin(n, c) PROVE NetTypes
  <2>1. net.members[c] \in Nicks BY DEF NetData
  <2>2. [x \in {n} |-> {}] \in Nicks BY ModesAreNicks, {} \in SUBSET Mode
  <2>3. Put(net.members[c], [x \in {n} |-> {}]) \in Nicks BY <2>1, <2>2, PutIsNicks
  <2>4. net' \in NetData BY <1>3, <2>3, MembersTypes DEF NetJoin
  <2>5. Event("JOIN", n, c) \in Answer BY EventIsAnswer
  <2>6. QED BY <1>3, <2>4, <2>5, TellOne DEF NetTypes, NetJoin
<1>4. ASSUME NEW n \in Name, NEW type \in {"PART", "KICK"}, NetLeave(n, c, type)
      PROVE  NetTypes
  <2>1. net.members[c] \in Nicks BY DEF NetData
  <2>2. Without(net.members[c], n) \in Nicks BY <2>1, WithoutIsNicks
  <2>3. net' \in NetData BY <1>4, <2>2, MembersTypes DEF NetLeave
  <2>4. Event(type, n, c) \in Answer BY EventIsAnswer
  <2>5. QED BY <1>4, <2>3, <2>4, TellOne DEF NetTypes, NetLeave
<1>5. ASSUME NEW n \in Name, NEW set \in BOOLEAN, NEW mode \in Mode, NetMode(n, c, set, mode)
      PROVE  NetTypes
  <2> DEFINE modes == IF set THEN net.members[c][n] \cup {mode}
                      ELSE net.members[c][n] \ {mode}
  <2>1. net.members[c] \in Nicks /\ n \in DOMAIN net.members[c]
    BY <1>5 DEF NetData, NetMode
  <2>2. modes \in SUBSET Mode BY <2>1, NicksFacts
  <2>3. net' = [net EXCEPT !.members = [net.members EXCEPT ![c] =
                  Put(net.members[c], [x \in {n} |-> modes])]]
    BY <1>5 DEF NetMode
  <2>4. Tell(<<[type |-> "MODE", who |-> n, chan |-> c, set |-> set, mode |-> mode]>>)
    BY <1>5 DEF NetMode
  <2> HIDE DEF modes
  <2>5. [x \in {n} |-> modes] \in Nicks BY <2>2, ModesAreNicks
  <2>6. Put(net.members[c], [x \in {n} |-> modes]) \in Nicks BY <2>1, <2>5, PutIsNicks
  <2>7. net' \in NetData BY <2>3, <2>6, MembersTypes
  <2>8. [type |-> "MODE", who |-> n, chan |-> c, set |-> set, mode |-> mode] \in Answer
    BY DEF Answer
  <2>9. QED BY <2>4, <2>7, <2>8, TellOne DEF NetTypes
<1>6. QED BY <1>1, <1>2, <1>3, <1>4, <1>5

LEMMA VisibleNames ==
  ASSUME net \in NetData, net.me # NoNick
  PROVE  Visible \in SUBSET Name
<1>1. net.me \in Name BY DEF NetData
<1>2. ASSUME NEW c \in Channel PROVE DOMAIN net.members[c] \in SUBSET Name
  <2>1. net.members[c] \in Nicks BY DEF NetData
  <2>2. QED BY <2>1, NicksFacts
<1>3. QED BY <1>1, <1>2 DEF Visible

LEMMA NickEvents ==
  ASSUME net \in NetData, wire \in Seq(Answer), net.me # NoNick
  PROVE  /\ NetKillsMe => NetTypes
         /\ \A n, m \in Name : NetNick(n, m) => NetTypes
         /\ \A n \in Name, type \in {"QUIT", "KILL"} : NetQuit(n, type) => NetTypes
<1>1. ASSUME NetKillsMe PROVE NetTypes
  <2>1. /\ net.links < MaxLinks /\ net' = [Away EXCEPT !.links = Away.links + 1]
        /\ Tell(<<[type |-> "KILL", who |-> net.me]>>)
    BY <1>1 DEF NetKillsMe
  <2>2. net' \in NetData BY <2>1, AwayTypes
  <2>3. [type |-> "KILL", who |-> net.me] \in Answer BY DEF Answer, NetData
  <2>4. QED BY <2>1, <2>2, <2>3, TellOne DEF NetTypes
<1>2. ASSUME NEW n \in Name, NEW m \in Name, NetNick(n, m) PROVE NetTypes
  <2> DEFINE members == [c \in Channel |->
                           IF n \in DOMAIN net.members[c] THEN Rename(net.members[c], n, m)
                           ELSE net.members[c]]
             me == IF n = net.me THEN m ELSE net.me
  <2>1. \A c \in Channel : net.members[c] \in Nicks BY DEF NetData
  <2>2. members \in [Channel -> Nicks] BY <2>1, RenameIsNicks
  <2>3. me \in Name \cup {NoNick} BY DEF NetData
  <2>4. /\ net' = [net EXCEPT !.me = me, !.members = members]
        /\ Tell(<<[type |-> "NICK", who |-> n, new |-> m]>>)
    BY <1>2 DEF NetNick
  <2> HIDE DEF members, me
  <2>5. net' \in NetData BY <2>2, <2>3, <2>4 DEF NetData
  <2>6. [type |-> "NICK", who |-> n, new |-> m] \in Answer BY DEF Answer
  <2>7. QED BY <2>4, <2>5, <2>6, TellOne DEF NetTypes
<1>3. ASSUME NEW n \in Name, NEW type \in {"QUIT", "KILL"}, NetQuit(n, type) PROVE NetTypes
  <2> DEFINE members == [c \in Channel |-> Without(net.members[c], n)]
  <2>1. \A c \in Channel : net.members[c] \in Nicks BY DEF NetData
  <2>2. members \in [Channel -> Nicks] BY <2>1, WithoutIsNicks
  <2>3. net' = [net EXCEPT !.members = members] /\ Tell(<<[type |-> type, who |-> n]>>)
    BY <1>3 DEF NetQuit
  <2> HIDE DEF members
  <2>4. net' \in NetData BY <2>2, <2>3 DEF NetData
  <2>5. [type |-> type, who |-> n] \in Answer BY DEF Answer
  <2>6. QED BY <2>3, <2>4, <2>5, TellOne DEF NetTypes
<1>4. QED BY <1>1, <1>2, <1>3

LEMMA OthersStep == Parts /\ Others => Parts'
<1> SUFFICES ASSUME Parts, Others PROVE Parts' OBVIOUS
<1>1. Client /\ net \in NetData /\ wire \in Seq(Answer) BY PartsAreClient
<1>2. UNCHANGED <<server, channel, timer, sent>> /\ net.me # NoNick
  BY DEF Others, NetMayAct
<1>3. Client' BY <1>1, <1>2 DEF Client
<1>4. NetTypes
  <2>1. CASE NetKillsMe BY <1>1, <1>2, <2>1, NickEvents
  <2>2. CASE \E c \in Channel : BouncerJoins(c) \/ \E b \in BOOLEAN : NetKicksMe(c, b)
    BY <1>1, <2>2, ChannelEvents
  <2>3. ASSUME NEW n \in Name, NEW c \in Channel,
               \/ NetJoin(n, c)
               \/ \E type \in {"PART", "KICK"} : NetLeave(n, c, type)
               \/ \E set \in BOOLEAN, mode \in Mode : NetMode(n, c, set, mode)
        PROVE  NetTypes
    BY <1>1, <2>3, ChannelEvents
  <2>4. CASE \E n, m \in Name : NetNick(n, m) BY <1>1, <1>2, <2>4, NickEvents
  <2>5. CASE \E n \in Name, type \in {"QUIT", "KILL"} : NetQuit(n, type)
    BY <1>1, <1>2, <2>5, NickEvents
  <2>6. QED BY <2>1, <2>2, <2>3, <2>4, <2>5 DEF Others
<1>5. QED BY <1>3, <1>4, FromClient DEF NetTypes
-----------------------------------------------------------------------------
LEMMA InitParts == Init => Parts
<1> SUFFICES ASSUME Init PROVE Parts OBVIOUS
<1>1. server \in ServerData BY DEF Init, ServerData
<1>2. channel = [c \in Channel |-> Closed] BY DEF Init
<1>3. Closed \in ChannelData /\ Sound(Closed) /\ Closed.hook_autorejoin = 0
  BY ClosedSound DEF Sound
<1>4. channel \in [Channel -> ChannelData] BY <1>2, <1>3
<1>5. timer \in [Timer -> Channel \cup {NoChannel, Freed}] BY DEF Init
<1>6. sent \in Seq(Request) /\ wire \in Seq(Answer) BY DEF Init
<1> DEFINE empty == [c \in Channel |-> NoNicks]
<1>7. empty \in [Channel -> Nicks] BY NoNicksFacts
<1>8. net = [me |-> NoNick, members |-> empty, banned |-> {}, links |-> 0] BY DEF Init
<1> HIDE DEF empty
<1>9. 0 \in 0 .. MaxLinks OBVIOUS
<1>10. net \in NetData BY <1>7, <1>8, <1>9 DEF NetData
<1>11. QED BY <1>1, <1>2, <1>3, <1>4, <1>5, <1>6, <1>10 DEF Parts

LEMMA NextParts == Parts /\ [Next]_vars => Parts'
<1>1. ASSUME Parts, UNCHANGED vars PROVE Parts' BY <1>1 DEF Parts, vars
<1>2. QED BY <1>1, ClientReadsStep, TimersStep, LinkStep, UserStep, NetReadsStep, OthersStep
          DEF Next
-----------------------------------------------------------------------------
(***************************************************************************)
(* What the client will know.  The messages of `wire' that it has not read *)
(* lead it, one after the other, to a nick (NickTrail) and to nicks of each*)
(* channel (Trail): NickAfter and NicksAfter are what the handlers of      *)
(* irc-protocol.c make of a message.  At the end of `wire' it has what the *)
(* network has, or nobody in a channel closed with a PART under way (Ends).*)
(* A trail exists: nothing is computed along the messages, so that no step *)
(* needs an induction on them.                                             *)
(***************************************************************************)
Nick == Name \cup {NoNick}

\* The client's nick once it has read m.
NickAfter(me, m) ==
  IF m.type = "001" THEN m.who
  ELSE IF m.type = "NICK" /\ m.who = me THEN m.new ELSE me

Local(c, me, m) == m.type = "JOIN" /\ m.chan = c /\ m.who = me
Other(c, me, m) == m.type = "JOIN" /\ m.chan = c /\ m.who # me

\* The nicks f of the channel c once the client, under the nick me, has read m.
NicksAfter(c, me, f, m) ==
  IF m.type = "JOIN" /\ m.chan = c
  THEN IF m.who = me THEN [n \in {me} |-> {}]
       ELSE IF f = NoNicks THEN f ELSE Put(f, [n \in {m.who} |-> {}])
  ELSE IF m.type = "353" /\ m.chan = c
  THEN IF f = NoNicks THEN f ELSE Put(f, m.nicks)
  ELSE IF m.type \in {"PART", "KICK"} /\ m.chan = c
  THEN IF m.who = me THEN NoNicks ELSE Without(f, m.who)
  ELSE IF m.type = "MODE" /\ m.chan = c
  THEN IF m.who \in DOMAIN f
       THEN Put(f, [n \in {m.who} |-> IF m.set THEN f[m.who] \cup {m.mode}
                                      ELSE f[m.who] \ {m.mode}])
       ELSE f
  ELSE IF m.type = "NICK"
  THEN IF m.who \in DOMAIN f THEN Rename(f, m.who, m.new) ELSE f
  ELSE IF m.type \in {"QUIT", "KILL"}
  THEN IF m.type = "KILL" /\ m.who = me THEN NoNicks ELSE Without(f, m.who)
  ELSE f

\* The nicks the client will have, message after message.
NickTrail(w, N, nick) ==
  /\ N \in [1 .. Len(w) + 1 -> Nick]
  /\ N[1] = nick
  /\ \A i \in 1 .. Len(w) : N[i + 1] = NickAfter(N[i], w[i])

\* The client does not learn that it joins c from the messages before k.
Quiet(w, N, c, k) == \A j \in 1 .. Len(w) : j < k => ~Local(c, N[j], w[j])

\* The nicks of c the client will have, message after message.
Trail(w, N, c, nicks, open, V) ==
  /\ V \in [1 .. Len(w) + 1 -> Nicks]
  /\ V[1] = nicks
  /\ \A i \in 1 .. Len(w) :
       /\ V[i + 1] = NicksAfter(c, N[i], V[i], w[i])
       /\ Other(c, N[i], w[i]) /\ V[i] = NoNicks => ~open /\ Quiet(w, N, c, i)
       /\ w[i].type = "NICK" => w[i].new \notin DOMAIN V[i]

Follows(f, g) ==
  /\ DOMAIN f = DOMAIN g
  /\ \A n \in DOMAIN f : IF MULTI_PREFIX THEN f[n] = g[n] ELSE f[n] \subseteq g[n]

Parting(c, s) == \E k \in 1 .. Len(s) : s[k] = [cmd |-> "PART", chan |-> c]

Ends(w, N, c, open, V, members, s) ==
  \/ Follows(V[Len(w) + 1], members)
  \/ /\ V[Len(w) + 1] = NoNicks /\ ~open
     /\ Quiet(w, N, c, Len(w) + 1) /\ Parting(c, s)

Story(w, N, c, nicks, open, members, s) ==
  \E V \in [1 .. Len(w) + 1 -> Nicks] :
     Trail(w, N, c, nicks, open, V) /\ Ends(w, N, c, open, V, members, s)

-----------------------------------------------------------------------------
LEMMA WithoutAbsent ==
  ASSUME NEW f \in Nicks, NEW n, n \notin DOMAIN f
  PROVE  Without(f, n) = f
<1>1. f = [x \in DOMAIN f |-> f[x]] BY NicksFacts
<1>2. DOMAIN f \ {n} = DOMAIN f OBVIOUS
<1>3. QED BY <1>1, <1>2 DEF Without

LEMMA NickAfterType ==
  ASSUME NEW me \in Nick, NEW m \in Answer
  PROVE  NickAfter(me, m) \in Nick
BY AnswerFields DEF NickAfter, Nick

LEMMA NicksAfterType ==
  ASSUME NEW c \in Channel, NEW me \in Nick, NEW f \in Nicks, NEW m \in Answer
  PROVE  NicksAfter(c, me, f, m) \in Nicks
<1>1. NoNicks \in Nicks BY NoNicksFacts
<1>2. \A n \in Name : [x \in {n} |-> {}] \in Nicks BY ModesAreNicks, {} \in SUBSET Mode
<1>3. CASE m.type = "JOIN" /\ m.chan = c
  <2>1. m.who \in Name BY <1>3, AnswerFields
  <2>2. Put(f, [n \in {m.who} |-> {}]) \in Nicks BY <1>2, <2>1, PutIsNicks
  <2>3. m.who = me => [n \in {me} |-> {}] \in Nicks BY <1>2, <2>1
  <2>4. QED BY <1>3, <2>2, <2>3 DEF NicksAfter
<1>4. CASE m.type = "353" /\ m.chan = c
  <2>1. m.nicks \in Nicks BY <1>4, AnswerFields
  <2>2. Put(f, m.nicks) \in Nicks BY <2>1, PutIsNicks
  <2>3. QED BY <1>4, <2>2 DEF NicksAfter
<1>5. CASE m.type \in {"PART", "KICK"} /\ m.chan = c
  BY <1>1, <1>5, WithoutIsNicks DEF NicksAfter
<1>6. CASE m.type = "MODE" /\ m.chan = c
  <2> DEFINE modes == IF m.set THEN f[m.who] \cup {m.mode} ELSE f[m.who] \ {m.mode}
  <2>1. m.who \in Name /\ m.mode \in Mode BY <1>6, AnswerFields
  <2>2. CASE m.who \in DOMAIN f
    <3>1. f[m.who] \in SUBSET Mode BY <2>2, NicksFacts
    <3>2. modes \in SUBSET Mode BY <2>1, <3>1
    <3>3. NicksAfter(c, me, f, m) = Put(f, [n \in {m.who} |-> modes])
      BY <1>6, <2>2 DEF NicksAfter
    <3> HIDE DEF modes
    <3>4. [n \in {m.who} |-> modes] \in Nicks BY <2>1, <3>2, ModesAreNicks
    <3>5. QED BY <3>3, <3>4, PutIsNicks
  <2>3. CASE m.who \notin DOMAIN f BY <1>6, <2>3 DEF NicksAfter
  <2>4. QED BY <2>2, <2>3
<1>7. CASE m.type = "NICK"
  <2>1. m.new \in Name BY <1>7, AnswerFields
  <2>2. m.who \in DOMAIN f => Rename(f, m.who, m.new) \in Nicks BY <2>1, RenameIsNicks
  <2>3. QED BY <1>7, <2>2 DEF NicksAfter
<1>8. CASE m.type \in {"QUIT", "KILL"}
  BY <1>1, <1>8, WithoutIsNicks DEF NicksAfter
<1>9. QED BY <1>3, <1>4, <1>5, <1>6, <1>7, <1>8 DEF NicksAfter

LEMMA NoneStays ==
  ASSUME NEW c, NEW me, NEW m, ~Local(c, me, m)
  PROVE  NicksAfter(c, me, NoNicks, m) = NoNicks
<1>1. NoNicks \in Nicks /\ DOMAIN NoNicks = {} BY NoNicksFacts
<1>2. Without(NoNicks, m.who) = NoNicks BY <1>1, WithoutAbsent
<1>3. QED BY <1>1, <1>2 DEF NicksAfter, Local

LEMMA JoinSetsMe ==
  ASSUME NEW c, NEW me, NEW m, NEW f, Local(c, me, m)
  PROVE  NicksAfter(c, me, f, m) = [n \in {me} |-> {}]
BY DEF NicksAfter, Local

-----------------------------------------------------------------------------
(***************************************************************************)
(* One message of the network and what it leaves of the members of a       *)
(* channel: a client that followed the members still does.                 *)
(***************************************************************************)
\* The network tells m, and the members of c become members2: a client that
\* followed them still does, and the message finds what it changes.
Moves(c, me, members, m, members2) ==
  /\ \A f \in Nicks : Follows(f, members) =>
       /\ Follows(NicksAfter(c, me, f, m), members2)
       /\ Other(c, me, m) => f # NoNicks
       /\ m.type = "NICK" => m.new \notin DOMAIN f
  /\ Local(c, me, m) => Follows([n \in {me} |-> {}], members2)

-----------------------------------------------------------------------------
LEMMA FollowsItself ==
  ASSUME NEW f
  PROVE  Follows(f, f)
BY DEF Follows

LEMMA FollowsNone ==
  ASSUME NEW f \in Nicks, Follows(f, NoNicks)
  PROVE  f = NoNicks
<1>1. DOMAIN f = {} BY NoNicksFacts DEF Follows
<1>2. f = [x \in DOMAIN f |-> f[x]] BY NicksFacts
<1>3. QED BY <1>1, <1>2 DEF NoNicks

LEMMA NoneFollows ==
  ASSUME NEW f \in Nicks, Follows(NoNicks, f)
  PROVE  f = NoNicks
<1>1. DOMAIN f = {} BY NoNicksFacts DEF Follows
<1>2. f = [x \in DOMAIN f |-> f[x]] BY NicksFacts
<1>3. QED BY <1>1, <1>2 DEF NoNicks

LEMMA FollowsPut ==
  ASSUME NEW f, NEW g, NEW h, NEW k, Follows(f, g), Follows(h, k)
  PROVE  Follows(Put(f, h), Put(g, k))
<1>1. /\ DOMAIN Put(f, h) = DOMAIN f \cup DOMAIN h
      /\ DOMAIN Put(g, k) = DOMAIN g \cup DOMAIN k
  BY DEF Put
<1>2. DOMAIN f = DOMAIN g /\ DOMAIN h = DOMAIN k BY DEF Follows
<1>3. ASSUME NEW n \in DOMAIN Put(f, h)
      PROVE  IF MULTI_PREFIX THEN Put(f, h)[n] = Put(g, k)[n]
             ELSE Put(f, h)[n] \subseteq Put(g, k)[n]
  <2>1. CASE n \in DOMAIN h
    <3>1. Put(f, h)[n] = h[n] /\ Put(g, k)[n] = k[n] BY <1>1, <1>2, <2>1 DEF Put
    <3>2. QED BY <2>1, <3>1 DEF Follows
  <2>2. CASE n \notin DOMAIN h
    <3>1. n \in DOMAIN f BY <1>1, <2>2
    <3>2. Put(f, h)[n] = f[n] /\ Put(g, k)[n] = g[n] BY <1>1, <1>2, <2>2, <3>1 DEF Put
    <3>3. QED BY <3>1, <3>2 DEF Follows
  <2>3. QED BY <2>1, <2>2
<1>4. QED BY <1>1, <1>2, <1>3 DEF Follows

LEMMA FollowsWithout ==
  ASSUME NEW f, NEW g, NEW n, Follows(f, g)
  PROVE  Follows(Without(f, n), Without(g, n))
BY DEF Follows, Without

LEMMA FollowsRename ==
  ASSUME NEW f, NEW g, NEW n \in DOMAIN f, NEW m, Follows(f, g)
  PROVE  Follows(Rename(f, n, m), Rename(g, n, m))
BY DEF Follows, Rename

LEMMA FollowsShown ==
  ASSUME NEW f
  PROVE  Follows(Shown(f), f)
<1>1. DOMAIN Shown(f) = DOMAIN f BY DEF Shown
<1>2. ASSUME NEW n \in DOMAIN f
      PROVE  IF MULTI_PREFIX THEN Shown(f)[n] = f[n] ELSE Shown(f)[n] \subseteq f[n]
  BY <1>2 DEF Shown, irc_nick_get_nicklist_group
<1>3. QED BY <1>1, <1>2 DEF Follows
-----------------------------------------------------------------------------
LEMMA Inert ==
  ASSUME NEW c \in Channel, NEW me, NEW members, NEW m,
         \/ m.type = "001"
         \/ m.type \in {"JOIN", "PART", "KICK", "353", "MODE"} /\ m.chan # c
  PROVE  Moves(c, me, members, m, members)
BY DEF Moves, NicksAfter, Other, Local

LEMMA MovesJoinMe ==
  ASSUME NEW c \in Channel, NEW me, NEW members
  PROVE  Moves(c, me, members, Event("JOIN", me, c), [n \in {me} |-> {}])
<1> DEFINE m == Event("JOIN", me, c)
<1>1. Local(c, me, m) /\ ~Other(c, me, m) /\ m.type # "NICK"
  BY DEF Local, Other, Event
<1> HIDE DEF m
<1>2. \A f : NicksAfter(c, me, f, m) = [n \in {me} |-> {}] BY <1>1, JoinSetsMe
<1>3. Follows([n \in {me} |-> {}], [n \in {me} |-> {}]) BY FollowsItself
<1>4. Moves(c, me, members, m, [n \in {me} |-> {}]) BY <1>1, <1>2, <1>3 DEF Moves
<1>5. QED BY <1>4 DEF m

LEMMA MovesNames ==
  ASSUME NEW c \in Channel, NEW me \in Name, NEW members \in Nicks, me \in DOMAIN members
  PROVE  Moves(c, me, [n \in {me} |-> {}], NamesReply(c, members), members)
<1> DEFINE m == NamesReply(c, members)
           alone == [n \in {me} |-> {}]
<1>1. /\ ~Local(c, me, m) /\ ~Other(c, me, m)
      /\ m.type = "353" /\ m.chan = c /\ m.nicks = Shown(members)
  BY DEF Local, Other, NamesReply
<1> HIDE DEF m
<1>2. ASSUME NEW f \in Nicks, Follows(f, alone)
      PROVE  Follows(NicksAfter(c, me, f, m), members)
  <2>1. DOMAIN f = {me} BY <1>2 DEF Follows
  <2>2. f # NoNicks BY <2>1, NoNicksFacts
  <2>3. NicksAfter(c, me, f, m) = Put(f, Shown(members)) BY <1>1, <2>2 DEF NicksAfter
  <2>4. DOMAIN Shown(members) = DOMAIN members BY DEF Shown
  <2>5. /\ DOMAIN Put(f, Shown(members)) = DOMAIN members
        /\ \A n \in DOMAIN members : Put(f, Shown(members))[n] = Shown(members)[n]
    BY <2>1, <2>4 DEF Put
  <2>6. Follows(Shown(members), members) BY FollowsShown
  <2>7. QED BY <2>3, <2>4, <2>5, <2>6 DEF Follows
<1>3. Moves(c, me, alone, m, members) BY <1>1, <1>2 DEF Moves
<1>4. QED BY <1>3 DEF m

LEMMA MovesLeaveMe ==
  ASSUME NEW c \in Channel, NEW me, NEW members, NEW type \in {"PART", "KICK"}
  PROVE  Moves(c, me, members, Event(type, me, c), NoNicks)
<1> DEFINE m == Event(type, me, c)
<1>1. /\ ~Local(c, me, m) /\ ~Other(c, me, m)
      /\ m.type \in {"PART", "KICK"} /\ m.chan = c /\ m.who = me
  BY DEF Local, Other, Event
<1> HIDE DEF m
<1>2. \A f : NicksAfter(c, me, f, m) = NoNicks BY <1>1 DEF NicksAfter
<1>3. Moves(c, me, members, m, NoNicks) BY <1>1, <1>2, FollowsItself DEF Moves
<1>4. QED BY <1>3 DEF m

LEMMA MovesJoin ==
  ASSUME NEW c \in Channel, NEW me, NEW members \in Nicks, members # NoNicks,
         NEW n, n # me
  PROVE  Moves(c, me, members, Event("JOIN", n, c), Put(members, [x \in {n} |-> {}]))
<1> DEFINE m == Event("JOIN", n, c)
           joined == [x \in {n} |-> {}]
<1>1. /\ ~Local(c, me, m) /\ m.type = "JOIN" /\ m.chan = c /\ m.who = n
  BY DEF Local, Event
<1> HIDE DEF m
<1>2. ASSUME NEW f \in Nicks, Follows(f, members)
      PROVE  Follows(NicksAfter(c, me, f, m), Put(members, joined)) /\ f # NoNicks
  <2>1. f # NoNicks BY <1>2, NoneFollows
  <2>2. NicksAfter(c, me, f, m) = Put(f, joined) BY <1>1, <2>1 DEF NicksAfter
  <2> HIDE DEF joined
  <2>3. Follows(Put(f, joined), Put(members, joined)) BY <1>2, FollowsItself, FollowsPut
  <2>4. QED BY <2>1, <2>2, <2>3
<1> HIDE DEF joined
<1>3. Moves(c, me, members, m, Put(members, joined)) BY <1>1, <1>2 DEF Moves
<1>4. QED BY <1>3 DEF m, joined

LEMMA MovesLeave ==
  ASSUME NEW c \in Channel, NEW me, NEW members, NEW n, n # me,
         NEW type \in {"PART", "KICK"}
  PROVE  Moves(c, me, members, Event(type, n, c), Without(members, n))
<1> DEFINE m == Event(type, n, c)
<1>1. /\ ~Local(c, me, m) /\ ~Other(c, me, m)
      /\ m.type \in {"PART", "KICK"} /\ m.chan = c /\ m.who = n
  BY DEF Local, Other, Event
<1> HIDE DEF m
<1>2. \A f : NicksAfter(c, me, f, m) = Without(f, n) BY <1>1 DEF NicksAfter
<1>3. Moves(c, me, members, m, Without(members, n)) BY <1>1, <1>2, FollowsWithout DEF Moves
<1>4. QED BY <1>3 DEF m

\* The MODE that sets or unsets a mode of n, and the nicks it leaves.
ModeOf(n, c, set, mode) ==
  [type |-> "MODE", who |-> n, chan |-> c, set |-> set, mode |-> mode]
WithMode(f, n, set, mode) ==
  Put(f, [x \in {n} |-> IF set THEN f[n] \cup {mode} ELSE f[n] \ {mode}])

LEMMA MovesMode ==
  ASSUME NEW c \in Channel, NEW me, NEW members, NEW n \in DOMAIN members,
         NEW set \in BOOLEAN, NEW mode
  PROVE  Moves(c, me, members, ModeOf(n, c, set, mode), WithMode(members, n, set, mode))
<1> DEFINE m == ModeOf(n, c, set, mode)
           Has(f) == [x \in {n} |-> IF set THEN f[n] \cup {mode} ELSE f[n] \ {mode}]
<1>1. /\ ~Local(c, me, m) /\ ~Other(c, me, m)
      /\ m.type = "MODE" /\ m.chan = c /\ m.who = n /\ m.set = set /\ m.mode = mode
  BY DEF Local, Other, ModeOf
<1> HIDE DEF m
<1>2. ASSUME NEW f \in Nicks, Follows(f, members)
      PROVE  Follows(NicksAfter(c, me, f, m), Put(members, Has(members)))
  <2>1. n \in DOMAIN f BY <1>2 DEF Follows
  <2>2. NicksAfter(c, me, f, m) = Put(f, Has(f)) BY <1>1, <2>1 DEF NicksAfter
  <2>3. Follows(Has(f), Has(members)) BY <1>2, <2>1 DEF Follows
  <2> HIDE DEF Has
  <2>4. QED BY <1>2, <2>2, <2>3, FollowsPut
<1>3. Moves(c, me, members, m, Put(members, Has(members))) BY <1>1, <1>2 DEF Moves
<1>4. QED BY <1>3 DEF m, WithMode

\* The nicks of a channel once n is called new, if n is there.
Renamed(f, n, new) == IF n \in DOMAIN f THEN Rename(f, n, new) ELSE f

LEMMA MovesNick ==
  ASSUME NEW c \in Channel, NEW me, NEW members, NEW n, NEW new, new \notin DOMAIN members
  PROVE  Moves(c, me, members, [type |-> "NICK", who |-> n, new |-> new],
               Renamed(members, n, new))
<1> DEFINE m == [type |-> "NICK", who |-> n, new |-> new]
<1>1. /\ ~Local(c, me, m) /\ ~Other(c, me, m)
      /\ m.type = "NICK" /\ m.who = n /\ m.new = new
  BY DEF Local, Other
<1> HIDE DEF m
<1>2. ASSUME NEW f \in Nicks, Follows(f, members)
      PROVE  /\ Follows(NicksAfter(c, me, f, m), Renamed(members, n, new))
             /\ new \notin DOMAIN f
  <2>1. DOMAIN f = DOMAIN members BY <1>2 DEF Follows
  <2>2. NicksAfter(c, me, f, m) = IF n \in DOMAIN f THEN Rename(f, n, new) ELSE f
    BY <1>1 DEF NicksAfter
  <2>3. QED BY <1>2, <2>1, <2>2, FollowsRename DEF Renamed
<1>3. Moves(c, me, members, m, Renamed(members, n, new)) BY <1>1, <1>2 DEF Moves
<1>4. QED BY <1>3 DEF m

LEMMA MovesQuit ==
  ASSUME NEW c \in Channel, NEW me, NEW members, NEW n, n # me,
         NEW type \in {"QUIT", "KILL"}
  PROVE  Moves(c, me, members, [type |-> type, who |-> n], Without(members, n))
<1> DEFINE m == [type |-> type, who |-> n]
<1>1. /\ ~Local(c, me, m) /\ ~Other(c, me, m)
      /\ m.type \in {"QUIT", "KILL"} /\ m.who = n
  BY DEF Local, Other
<1> HIDE DEF m
<1>2. \A f : NicksAfter(c, me, f, m) = Without(f, n) BY <1>1 DEF NicksAfter
<1>3. Moves(c, me, members, m, Without(members, n)) BY <1>1, <1>2, FollowsWithout DEF Moves
<1>4. QED BY <1>3 DEF m

LEMMA MovesKillMe ==
  ASSUME NEW c \in Channel, NEW me, NEW members
  PROVE  Moves(c, me, members, [type |-> "KILL", who |-> me], NoNicks)
<1> DEFINE m == [type |-> "KILL", who |-> me]
<1>1. /\ ~Local(c, me, m) /\ ~Other(c, me, m) /\ m.type = "KILL" /\ m.who = me
  BY DEF Local, Other
<1> HIDE DEF m
<1>2. \A f : NicksAfter(c, me, f, m) = NoNicks BY <1>1 DEF NicksAfter
<1>3. Moves(c, me, members, m, NoNicks) BY <1>1, <1>2, FollowsItself DEF Moves
<1>4. QED BY <1>3 DEF m

-----------------------------------------------------------------------------
(***************************************************************************)
(* Trails shift when the client reads a message and extend when the network*)
(* tells one.                                                              *)
(***************************************************************************)
\* A trail along w, once its first message is read, and once x follows.
Shift(T, w)     == [i \in 1 .. Len(w) |-> T[i + 1]]
Extend(T, w, x) == [i \in 1 .. Len(w) + 2 |-> IF i <= Len(w) + 1 THEN T[i] ELSE x]

-----------------------------------------------------------------------------
LEMMA TailFacts ==
  ASSUME NEW w \in Seq(Answer), w # <<>>
  PROVE  /\ Len(w) \in Nat /\ Len(w) > 0
         /\ Head(w) = w[1] /\ w[1] \in Answer
         /\ Tail(w) \in Seq(Answer) /\ Len(Tail(w)) = Len(w) - 1
         /\ \A i \in 1 .. Len(w) - 1 : Tail(w)[i] = w[i + 1]
BY HeadTailProperties

LEMMA AppendFacts ==
  ASSUME NEW w \in Seq(Answer), NEW m \in Answer
  PROVE  /\ Len(w) \in Nat
         /\ Append(w, m) \in Seq(Answer) /\ Len(Append(w, m)) = Len(w) + 1
         /\ \A i \in 1 .. Len(w) : Append(w, m)[i] = w[i]
         /\ Append(w, m)[Len(w) + 1] = m
BY AppendProperties

LEMMA ShiftAt ==
  ASSUME NEW w \in Seq(Answer), w # <<>>, NEW T
  PROVE  \A i \in 1 .. Len(w) : Shift(T, w)[i] = T[i + 1]
BY DEF Shift

LEMMA ShiftType ==
  ASSUME NEW S, NEW w \in Seq(Answer), w # <<>>, NEW T \in [1 .. Len(w) + 1 -> S]
  PROVE  Shift(T, w) \in [1 .. Len(Tail(w)) + 1 -> S]
<1> DEFINE k == Len(w)
<1>1. k \in Nat /\ Len(Tail(w)) + 1 = k BY TailFacts
<1>2. Shift(T, w) = [i \in 1 .. k |-> T[i + 1]] BY DEF Shift
<1>3. T \in [1 .. k + 1 -> S] OBVIOUS
<1> HIDE DEF k
<1>4. \A i \in 1 .. k : i + 1 \in 1 .. k + 1 BY <1>1
<1>5. Shift(T, w) \in [1 .. k -> S] BY <1>2, <1>3, <1>4
<1>6. QED BY <1>1, <1>5

LEMMA ExtendAt ==
  ASSUME NEW w \in Seq(Answer), NEW T, NEW x
  PROVE  /\ \A i \in 1 .. Len(w) + 1 : Extend(T, w, x)[i] = T[i]
         /\ Extend(T, w, x)[Len(w) + 2] = x
<1> DEFINE k == Len(w)
<1>1. k \in Nat OBVIOUS
<1>2. Extend(T, w, x) = [i \in 1 .. k + 2 |-> IF i <= k + 1 THEN T[i] ELSE x]
  BY DEF Extend
<1> HIDE DEF k
<1>3. \A i \in 1 .. k + 1 : Extend(T, w, x)[i] = T[i] BY <1>1, <1>2
<1>4. Extend(T, w, x)[k + 2] = x BY <1>1, <1>2
<1>5. QED BY <1>3, <1>4 DEF k

LEMMA ExtendType ==
  ASSUME NEW S, NEW w \in Seq(Answer), NEW m \in Answer,
         NEW T \in [1 .. Len(w) + 1 -> S], NEW x \in S
  PROVE  Extend(T, w, x) \in [1 .. Len(Append(w, m)) + 1 -> S]
<1> DEFINE k == Len(w)
<1>1. k \in Nat /\ Len(Append(w, m)) + 1 = k + 2 BY AppendFacts
<1>2. Extend(T, w, x) = [i \in 1 .. k + 2 |-> IF i <= k + 1 THEN T[i] ELSE x]
  BY DEF Extend
<1>3. T \in [1 .. k + 1 -> S] OBVIOUS
<1> HIDE DEF k
<1>4. Extend(T, w, x) \in [1 .. k + 2 -> S] BY <1>1, <1>2, <1>3
<1>5. QED BY <1>1, <1>4
-----------------------------------------------------------------------------
LEMMA NickTrailTail ==
  ASSUME NEW w \in Seq(Answer), w # <<>>, NEW N, NEW nick, NickTrail(w, N, nick)
  PROVE  /\ NickTrail(Tail(w), Shift(N, w), NickAfter(nick, Head(w)))
         /\ Shift(N, w)[Len(Tail(w)) + 1] = N[Len(w) + 1]
<1> DEFINE N2 == Shift(N, w)
<1>1. /\ N \in [1 .. Len(w) + 1 -> Nick] /\ N[1] = nick
      /\ \A i \in 1 .. Len(w) : N[i + 1] = NickAfter(N[i], w[i])
  BY DEF NickTrail
<1>2. /\ Len(w) \in Nat /\ Len(w) > 0 /\ Head(w) = w[1]
      /\ Len(Tail(w)) = Len(w) - 1
      /\ \A i \in 1 .. Len(w) - 1 : Tail(w)[i] = w[i + 1]
  BY TailFacts
<1>3. /\ N2 \in [1 .. Len(Tail(w)) + 1 -> Nick]
      /\ \A i \in 1 .. Len(w) : N2[i] = N[i + 1]
  BY <1>1, ShiftAt, ShiftType
<1> HIDE DEF N2
<1>4. N2[1] = NickAfter(nick, Head(w)) BY <1>1, <1>2, <1>3
<1>5. ASSUME NEW i \in 1 .. Len(Tail(w))
      PROVE  N2[i + 1] = NickAfter(N2[i], Tail(w)[i])
  <2>1. i \in 1 .. Len(w) /\ i + 1 \in 1 .. Len(w) /\ Tail(w)[i] = w[i + 1] BY <1>2
  <2>2. N2[i] = N[i + 1] /\ N2[i + 1] = N[(i + 1) + 1] BY <1>3, <2>1
  <2>3. N[(i + 1) + 1] = NickAfter(N[i + 1], w[i + 1]) BY <1>1, <2>1
  <2>4. QED BY <2>1, <2>2, <2>3
<1>6. N2[Len(Tail(w)) + 1] = N[Len(w) + 1] BY <1>2, <1>3
<1>7. QED BY <1>3, <1>4, <1>5, <1>6 DEF NickTrail, N2

LEMMA NickTrailTell ==
  ASSUME NEW w \in Seq(Answer), NEW m \in Answer, NEW N, NEW nick, NickTrail(w, N, nick)
  PROVE  /\ NickTrail(Append(w, m), Extend(N, w, NickAfter(N[Len(w) + 1], m)), nick)
         /\ Extend(N, w, NickAfter(N[Len(w) + 1], m))[Len(Append(w, m)) + 1]
              = NickAfter(N[Len(w) + 1], m)
<1> DEFINE x == NickAfter(N[Len(w) + 1], m)
           N2 == Extend(N, w, x)
<1>1. /\ N \in [1 .. Len(w) + 1 -> Nick] /\ N[1] = nick
      /\ \A i \in 1 .. Len(w) : N[i + 1] = NickAfter(N[i], w[i])
  BY DEF NickTrail
<1>2. /\ Len(w) \in Nat /\ Len(Append(w, m)) = Len(w) + 1
      /\ \A i \in 1 .. Len(w) : Append(w, m)[i] = w[i]
      /\ Append(w, m)[Len(w) + 1] = m
  BY AppendFacts
<1>3. x \in Nick
  <2>1. N[Len(w) + 1] \in Nick BY <1>1, <1>2
  <2>2. QED BY <2>1, NickAfterType
<1>4. x = NickAfter(N[Len(w) + 1], m) OBVIOUS
<1> HIDE DEF x
<1>5. /\ N2 \in [1 .. Len(Append(w, m)) + 1 -> Nick]
      /\ \A i \in 1 .. Len(w) + 1 : N2[i] = N[i]
      /\ N2[Len(w) + 2] = x
  BY <1>1, <1>3, ExtendAt, ExtendType
<1> HIDE DEF N2
<1>6. N2[1] = nick BY <1>1, <1>2, <1>5
<1>7. ASSUME NEW i \in 1 .. Len(Append(w, m))
      PROVE  N2[i + 1] = NickAfter(N2[i], Append(w, m)[i])
  <2>1. CASE i = Len(w) + 1
    <3>1. i + 1 = Len(w) + 2 /\ i \in 1 .. Len(w) + 1 BY <1>2, <2>1
    <3>2. N2[i + 1] = x /\ N2[i] = N[Len(w) + 1] BY <1>5, <2>1, <3>1
    <3>3. QED BY <1>2, <1>4, <2>1, <3>2
  <2>2. CASE i # Len(w) + 1
    <3>1. i \in 1 .. Len(w) /\ i \in 1 .. Len(w) + 1 /\ i + 1 \in 1 .. Len(w) + 1
      BY <1>2, <2>2
    <3>2. N2[i + 1] = N[i + 1] /\ N2[i] = N[i] BY <1>5, <3>1
    <3>3. QED BY <1>1, <1>2, <3>1, <3>2
  <2>3. QED BY <2>1, <2>2
<1>8. N2[Len(Append(w, m)) + 1] = x
  <2>1. Len(Append(w, m)) + 1 = Len(w) + 2 BY <1>2
  <2>2. QED BY <1>5, <2>1
<1>9. NickTrail(Append(w, m), N2, nick) BY <1>5, <1>6, <1>7 DEF NickTrail
<1>10. QED BY <1>8, <1>9 DEF N2, x
-----------------------------------------------------------------------------
LEMMA QuietTail ==
  ASSUME NEW w \in Seq(Answer), w # <<>>, NEW N, NEW c, NEW k \in 1 .. Len(w), Quiet(w, N, c, k + 1)
  PROVE  /\ Quiet(Tail(w), Shift(N, w), c, k)
         /\ ~Local(c, N[1], Head(w))
<1>1. /\ Len(w) \in Nat /\ Len(w) > 0 /\ Head(w) = w[1]
      /\ Len(Tail(w)) = Len(w) - 1
      /\ \A i \in 1 .. Len(w) - 1 : Tail(w)[i] = w[i + 1]
  BY TailFacts
<1>2. \A i \in 1 .. Len(w) : Shift(N, w)[i] = N[i + 1] BY ShiftAt
<1>3. \A j \in 1 .. Len(w) : j < k + 1 => ~Local(c, N[j], w[j]) BY DEF Quiet
<1>4. ~Local(c, N[1], Head(w))
  <2>1. 1 \in 1 .. Len(w) /\ 1 < k + 1 BY <1>1
  <2>2. QED BY <1>1, <1>3, <2>1
<1>5. ASSUME NEW j \in 1 .. Len(Tail(w)), j < k
      PROVE  ~Local(c, Shift(N, w)[j], Tail(w)[j])
  <2>1. /\ j \in 1 .. Len(w) - 1 /\ j \in 1 .. Len(w)
        /\ j + 1 \in 1 .. Len(w) /\ j + 1 < k + 1
    BY <1>1, <1>5
  <2>2. Shift(N, w)[j] = N[j + 1] /\ Tail(w)[j] = w[j + 1] BY <1>1, <1>2, <2>1
  <2>3. ~Local(c, N[j + 1], w[j + 1]) BY <1>3, <2>1
  <2>4. QED BY <2>2, <2>3
<1>6. QED BY <1>4, <1>5 DEF Quiet

LEMMA QuietTell ==
  ASSUME NEW w \in Seq(Answer), NEW m \in Answer, NEW N, NEW c, NEW x, NEW k \in 1 .. Len(w) + 1
  PROVE  /\ Quiet(Append(w, m), Extend(N, w, x), c, k) <=> Quiet(w, N, c, k)
         /\ Quiet(w, N, c, k) /\ k = Len(w) + 1 /\ ~Local(c, N[Len(w) + 1], m) =>
              Quiet(Append(w, m), Extend(N, w, x), c, Len(Append(w, m)) + 1)
<1>1. /\ Len(w) \in Nat /\ Len(Append(w, m)) = Len(w) + 1
      /\ \A i \in 1 .. Len(w) : Append(w, m)[i] = w[i]
      /\ Append(w, m)[Len(w) + 1] = m
  BY AppendFacts
<1>2. \A i \in 1 .. Len(w) + 1 : Extend(N, w, x)[i] = N[i] BY ExtendAt
<1> DEFINE L2(j) == Local(c, Extend(N, w, x)[j], Append(w, m)[j])
           L1(j) == Local(c, N[j], w[j])
<1>3. ASSUME NEW j \in 1 .. Len(w) PROVE L2(j) <=> L1(j)
  <2>1. j \in 1 .. Len(w) + 1 BY <1>1
  <2>2. QED BY <1>1, <1>2, <2>1
<1>4. L2(Len(w) + 1) <=> Local(c, N[Len(w) + 1], m)
  <2>1. Len(w) + 1 \in 1 .. Len(w) + 1 BY <1>1
  <2>2. QED BY <1>1, <1>2, <2>1
<1>5. /\ \A p : Quiet(Append(w, m), Extend(N, w, x), c, p)
                  <=> \A j \in 1 .. Len(Append(w, m)) : j < p => ~L2(j)
      /\ Quiet(w, N, c, k) <=> \A j \in 1 .. Len(w) : j < k => ~L1(j)
  BY DEF Quiet
<1> HIDE DEF L1, L2
<1>6. (\A j \in 1 .. Len(w) + 1 : j < k => ~L2(j)) <=> \A j \in 1 .. Len(w) : j < k => ~L1(j)
  BY <1>1, <1>3
<1>7. ASSUME \A j \in 1 .. Len(w) : j < k => ~L1(j), k = Len(w) + 1,
             ~Local(c, N[Len(w) + 1], m)
      PROVE  \A j \in 1 .. Len(w) + 1 : j < (Len(w) + 1) + 1 => ~L2(j)
  BY <1>1, <1>3, <1>4, <1>7
<1>8. QED BY <1>1, <1>5, <1>6, <1>7

-----------------------------------------------------------------------------
(***************************************************************************)
(* The story of one channel: none yet, the client reads, the network tells,*)
(* a PART is read, the channel is closed.                                  *)
(***************************************************************************)
LEMMA StoryNothing ==
  ASSUME NEW N, NEW c, NEW open, NEW s
  PROVE  Story(<<>>, N, c, NoNicks, open, NoNicks, s)
<1> DEFINE V == [i \in 1 .. Len(<<>>) + 1 |-> NoNicks]
<1>1. Len(<<>>) = 0 OBVIOUS
<1>2. V \in [1 .. Len(<<>>) + 1 -> Nicks] /\ V[1] = NoNicks /\ V[Len(<<>>) + 1] = NoNicks
  BY <1>1, NoNicksFacts
<1> HIDE DEF V
<1>3. \A i \in 1 .. Len(<<>>) : FALSE BY <1>1
<1>4. Trail(<<>>, N, c, NoNicks, open, V) BY <1>2, <1>3 DEF Trail
<1>5. Ends(<<>>, N, c, open, V, NoNicks, s) BY <1>2, FollowsItself DEF Ends
<1>6. QED BY <1>2, <1>4, <1>5 DEF Story

\* The client reads the first message.
LEMMA StoryTail ==
  ASSUME NEW w \in Seq(Answer), w # <<>>, NEW N, NEW nick, NickTrail(w, N, nick),
         NEW c, NEW nicks, NEW open, NEW members, NEW s,
         Story(w, N, c, nicks, open, members, s),
         NEW open2, open2 => open \/ Local(c, nick, Head(w))
  PROVE  Story(Tail(w), Shift(N, w), c, NicksAfter(c, nick, nicks, Head(w)), open2, members, s)
<1>1. PICK V \in [1 .. Len(w) + 1 -> Nicks] :
             Trail(w, N, c, nicks, open, V) /\ Ends(w, N, c, open, V, members, s)
  BY DEF Story
<1>2. /\ V[1] = nicks
      /\ \A i \in 1 .. Len(w) :
           /\ V[i + 1] = NicksAfter(c, N[i], V[i], w[i])
           /\ Other(c, N[i], w[i]) /\ V[i] = NoNicks => ~open /\ Quiet(w, N, c, i)
           /\ w[i].type = "NICK" => w[i].new \notin DOMAIN V[i]
  BY <1>1 DEF Trail
<1>3. /\ Len(w) \in Nat /\ Len(w) > 0 /\ Head(w) = w[1]
      /\ Len(Tail(w)) = Len(w) - 1
      /\ \A i \in 1 .. Len(w) - 1 : Tail(w)[i] = w[i + 1]
  BY TailFacts
<1>4. N[1] = nick BY DEF NickTrail
<1> DEFINE V2 == Shift(V, w)
           N2 == Shift(N, w)
<1>5. V2 \in [1 .. Len(Tail(w)) + 1 -> Nicks] BY ShiftType
<1>6. \A i \in 1 .. Len(w) : V2[i] = V[i + 1] /\ N2[i] = N[i + 1] BY ShiftAt
<1>7. ASSUME NEW k \in 1 .. Len(w), ~open, Quiet(w, N, c, k + 1)
      PROVE  ~open2 /\ Quiet(Tail(w), N2, c, k)
  BY <1>4, <1>7, QuietTail
<1> HIDE DEF V2, N2
<1>8. V2[1] = NicksAfter(c, nick, nicks, Head(w))
  <2>1. 1 \in 1 .. Len(w) BY <1>3
  <2>2. QED BY <1>2, <1>3, <1>4, <1>6, <2>1
<1>9. ASSUME NEW i \in 1 .. Len(Tail(w))
      PROVE  /\ V2[i + 1] = NicksAfter(c, N2[i], V2[i], Tail(w)[i])
             /\ Other(c, N2[i], Tail(w)[i]) /\ V2[i] = NoNicks =>
                  ~open2 /\ Quiet(Tail(w), N2, c, i)
             /\ Tail(w)[i].type = "NICK" => Tail(w)[i].new \notin DOMAIN V2[i]
  <2>1. i \in 1 .. Len(w) - 1 /\ i \in 1 .. Len(w) /\ i + 1 \in 1 .. Len(w) BY <1>3
  <2>2. /\ Tail(w)[i] = w[i + 1] /\ N2[i] = N[i + 1]
        /\ V2[i] = V[i + 1] /\ V2[i + 1] = V[(i + 1) + 1]
    BY <1>3, <1>6, <2>1
  <2>3. /\ V[(i + 1) + 1] = NicksAfter(c, N[i + 1], V[i + 1], w[i + 1])
        /\ Other(c, N[i + 1], w[i + 1]) /\ V[i + 1] = NoNicks =>
             ~open /\ Quiet(w, N, c, i + 1)
        /\ w[i + 1].type = "NICK" => w[i + 1].new \notin DOMAIN V[i + 1]
    BY <1>2, <2>1
  <2>4. ~open /\ Quiet(w, N, c, i + 1) => ~open2 /\ Quiet(Tail(w), N2, c, i)
    BY <1>7, <2>1
  <2>5. QED BY <2>2, <2>3, <2>4
<1>10. Trail(Tail(w), N2, c, NicksAfter(c, nick, nicks, Head(w)), open2, V2)
  BY <1>5, <1>8, <1>9 DEF Trail
<1>11. Ends(Tail(w), N2, c, open2, V2, members, s)
  <2>1. Len(Tail(w)) + 1 = Len(w) /\ Len(w) \in 1 .. Len(w) BY <1>3
  <2>2. V2[Len(Tail(w)) + 1] = V[Len(w) + 1] BY <1>6, <2>1
  <2>3. ~open /\ Quiet(w, N, c, Len(w) + 1) =>
          ~open2 /\ Quiet(Tail(w), N2, c, Len(Tail(w)) + 1)
    BY <1>7, <2>1
  <2>4. QED BY <1>1, <2>2, <2>3 DEF Ends
<1>12. QED BY <1>5, <1>10, <1>11 DEF Story, N2

\* The network tells m.
LEMMA StoryTell ==
  ASSUME NEW w \in Seq(Answer), NEW m \in Answer, NEW N, NEW nick, NickTrail(w, N, nick),
         NEW c \in Channel, NEW nicks, NEW open, NEW members, NEW s,
         Story(w, N, c, nicks, open, members, s),
         NEW members2, Moves(c, N[Len(w) + 1], members, m, members2)
  PROVE  Story(Append(w, m), Extend(N, w, NickAfter(N[Len(w) + 1], m)), c,
               nicks, open, members2, s)
<1>1. PICK V \in [1 .. Len(w) + 1 -> Nicks] :
             Trail(w, N, c, nicks, open, V) /\ Ends(w, N, c, open, V, members, s)
  BY DEF Story
<1>2. /\ V[1] = nicks
      /\ \A i \in 1 .. Len(w) :
           /\ V[i + 1] = NicksAfter(c, N[i], V[i], w[i])
           /\ Other(c, N[i], w[i]) /\ V[i] = NoNicks => ~open /\ Quiet(w, N, c, i)
           /\ w[i].type = "NICK" => w[i].new \notin DOMAIN V[i]
  BY <1>1 DEF Trail
<1> DEFINE w2 == Append(w, m)
           me == N[Len(w) + 1]
           last == V[Len(w) + 1]
           N2 == Extend(N, w, NickAfter(me, m))
           V2 == Extend(V, w, NicksAfter(c, me, last, m))
<1>3. /\ Len(w) \in Nat /\ Len(w2) = Len(w) + 1
      /\ \A i \in 1 .. Len(w) : w2[i] = w[i]
      /\ w2[Len(w) + 1] = m
  BY AppendFacts
<1>4. me \in Nick /\ last \in Nicks
  <2>1. Len(w) + 1 \in 1 .. Len(w) + 1 BY <1>3
  <2>2. QED BY <2>1 DEF NickTrail
<1>5. NicksAfter(c, me, last, m) \in Nicks BY <1>4, NicksAfterType
<1>6. V2 \in [1 .. Len(w2) + 1 -> Nicks]
  <2> DEFINE x == NicksAfter(c, me, last, m)
  <2> HIDE DEF x
  <2>1. x \in Nicks BY <1>5 DEF x
  <2>2. Extend(V, w, x) \in [1 .. Len(w2) + 1 -> Nicks] BY <2>1, ExtendType
  <2>3. QED BY <2>2 DEF x
<1>7. /\ \A i \in 1 .. Len(w) + 1 : V2[i] = V[i] /\ N2[i] = N[i]
      /\ V2[Len(w) + 2] = NicksAfter(c, me, last, m)
  BY ExtendAt
<1>8. ASSUME NEW k \in 1 .. Len(w) + 1
      PROVE  Quiet(w, N, c, k) => Quiet(w2, N2, c, k)
  BY QuietTell
<1>9. Quiet(w, N, c, Len(w) + 1) /\ ~Local(c, me, m) => Quiet(w2, N2, c, Len(w2) + 1)
  <2>1. Len(w) + 1 \in 1 .. Len(w) + 1 BY <1>3
  <2>2. QED BY <2>1, QuietTell
<1>10. \/ Follows(last, members)
       \/ last = NoNicks /\ ~open /\ Quiet(w, N, c, Len(w) + 1) /\ Parting(c, s)
  BY <1>1 DEF Ends
<1>11. /\ Follows(last, members) =>
            /\ Follows(NicksAfter(c, me, last, m), members2)
            /\ Other(c, me, m) => last # NoNicks
            /\ m.type = "NICK" => m.new \notin DOMAIN last
       /\ Local(c, me, m) => Follows([n \in {me} |-> {}], members2)
  BY <1>4 DEF Moves
<1> HIDE DEF w2, N2, V2
<1>12. V2[1] = nicks
  <2>1. 1 \in 1 .. Len(w) + 1 BY <1>3
  <2>2. QED BY <1>2, <1>7, <2>1
<1>13. ASSUME NEW i \in 1 .. Len(w2)
       PROVE  /\ V2[i + 1] = NicksAfter(c, N2[i], V2[i], w2[i])
              /\ Other(c, N2[i], w2[i]) /\ V2[i] = NoNicks => ~open /\ Quiet(w2, N2, c, i)
              /\ w2[i].type = "NICK" => w2[i].new \notin DOMAIN V2[i]
  <2>1. CASE i \in 1 .. Len(w)
    <3>1. i \in 1 .. Len(w) + 1 /\ i + 1 \in 1 .. Len(w) + 1 BY <1>3, <2>1
    <3>2. V2[i] = V[i] /\ V2[i + 1] = V[i + 1] /\ N2[i] = N[i] /\ w2[i] = w[i]
      BY <1>3, <1>7, <2>1, <3>1
    <3>3. Quiet(w, N, c, i) => Quiet(w2, N2, c, i) BY <1>8, <3>1
    <3>4. QED BY <1>2, <2>1, <3>2, <3>3
  <2>2. CASE i = Len(w) + 1
    <3>1. i \in 1 .. Len(w) + 1 /\ i + 1 = Len(w) + 2 BY <1>3, <2>2
    <3>2. /\ V2[i] = last /\ N2[i] = me /\ w2[i] = m
          /\ V2[i + 1] = NicksAfter(c, me, last, m)
      BY <1>3, <1>7, <2>2, <3>1
    <3>3. Quiet(w, N, c, i) => Quiet(w2, N2, c, i) BY <1>8, <3>1
    <3>4. Other(c, me, m) /\ last = NoNicks => ~open /\ Quiet(w, N, c, i)
      BY <1>10, <1>11, <2>2
    <3>5. m.type = "NICK" => m.new \notin DOMAIN last BY <1>10, <1>11, NoNicksFacts
    <3>6. QED BY <3>2, <3>3, <3>4, <3>5
  <2>3. QED BY <1>3, <2>1, <2>2
<1>14. Trail(w2, N2, c, nicks, open, V2) BY <1>6, <1>12, <1>13 DEF Trail
<1>15. Ends(w2, N2, c, open, V2, members2, s)
  <2>1. V2[Len(w2) + 1] = NicksAfter(c, me, last, m)
    <3>1. Len(w2) + 1 = Len(w) + 2 BY <1>3
    <3>2. QED BY <1>7, <3>1
  <2>2. CASE Follows(last, members) BY <1>11, <2>1, <2>2 DEF Ends
  <2>3. CASE last = NoNicks /\ ~open /\ Quiet(w, N, c, Len(w) + 1) /\ Parting(c, s)
    <3>1. CASE Local(c, me, m)
      <4>1. NicksAfter(c, me, last, m) = [n \in {me} |-> {}] BY <3>1, JoinSetsMe
      <4>2. Follows([n \in {me} |-> {}], members2) BY <1>11, <3>1
      <4>3. Follows(V2[Len(w2) + 1], members2) BY <2>1, <4>1, <4>2
      <4>4. QED BY <4>3 DEF Ends
    <3>2. CASE ~Local(c, me, m)
      <4>1. NicksAfter(c, me, last, m) = NoNicks BY <2>3, <3>2, NoneStays
      <4>2. Quiet(w2, N2, c, Len(w2) + 1) BY <1>9, <2>3, <3>2
      <4>3. QED BY <2>1, <2>3, <4>1, <4>2 DEF Ends
    <3>3. QED BY <3>1, <3>2
  <2>4. QED BY <1>10, <2>2, <2>3
<1>16. QED BY <1>6, <1>14, <1>15 DEF Story, w2, N2

\* The channel is closed where the client is not, or stays; what is sent keeps PART.
LEMMA StoryKept ==
  ASSUME NEW w, NEW N, NEW c, NEW nicks, NEW open, NEW members, NEW s,
         Story(w, N, c, nicks, open, members, s),
         NEW open2, open2 => open, NEW s2, Parting(c, s) => Parting(c, s2)
  PROVE  Story(w, N, c, nicks, open2, members, s2)
<1>1. PICK V \in [1 .. Len(w) + 1 -> Nicks] :
             Trail(w, N, c, nicks, open, V) /\ Ends(w, N, c, open, V, members, s)
  BY DEF Story
<1>2. Trail(w, N, c, nicks, open2, V) BY <1>1 DEF Trail
<1>3. Ends(w, N, c, open2, V, members, s2) BY <1>1 DEF Ends
<1>4. QED BY <1>2, <1>3 DEF Story

\* Nobody is in the channel: no PART is needed.
LEMMA StoryOver ==
  ASSUME NEW w, NEW N, NEW c, NEW nicks, NEW open, NEW s, NEW s2,
         Story(w, N, c, nicks, open, NoNicks, s)
  PROVE  Story(w, N, c, nicks, open, NoNicks, s2)
<1>1. PICK V \in [1 .. Len(w) + 1 -> Nicks] :
             Trail(w, N, c, nicks, open, V) /\ Ends(w, N, c, open, V, NoNicks, s)
  BY DEF Story
<1>2. Ends(w, N, c, open, V, NoNicks, s2) BY <1>1, FollowsItself DEF Ends
<1>3. QED BY <1>1, <1>2 DEF Story

\* The channel is closed where the client is, and PART sent.
LEMMA StoryClose ==
  ASSUME NEW w \in Seq(Answer), NEW N, NEW c, NEW nicks, NEW open, NEW members, NEW s,
         Story(w, N, c, nicks, open, members, s),
         NEW s2, Parting(c, s2)
  PROVE  Story(w, N, c, NoNicks, FALSE, members, s2)
<1>1. PICK V \in [1 .. Len(w) + 1 -> Nicks] :
             Trail(w, N, c, nicks, open, V) /\ Ends(w, N, c, open, V, members, s)
  BY DEF Story
<1>2. \A i \in 1 .. Len(w) :
           /\ V[i + 1] = NicksAfter(c, N[i], V[i], w[i])
           /\ Other(c, N[i], w[i]) /\ V[i] = NoNicks => ~open /\ Quiet(w, N, c, i)
           /\ w[i].type = "NICK" => w[i].new \notin DOMAIN V[i]
  BY <1>1 DEF Trail
<1>3. Len(w) \in Nat OBVIOUS
<1> DEFINE q(k) == Quiet(w, N, c, k)
           V2 == [i \in 1 .. Len(w) + 1 |-> IF q(i) THEN NoNicks ELSE V[i]]
<1>4. q(1) BY <1>3 DEF Quiet
<1>5. ASSUME NEW i \in 1 .. Len(w)
      PROVE  q(i + 1) <=> q(i) /\ ~Local(c, N[i], w[i])
  <2>1. \A j \in 1 .. Len(w) : j < i + 1 <=> j < i \/ j = i BY <1>3
  <2>2. QED BY <2>1 DEF Quiet
<1> HIDE DEF q
<1>6. V2 \in [1 .. Len(w) + 1 -> Nicks] BY NoNicksFacts
<1>7. \A i \in 1 .. Len(w) + 1 : V2[i] = IF q(i) THEN NoNicks ELSE V[i] OBVIOUS
<1> HIDE DEF V2
<1>8. V2[1] = NoNicks BY <1>3, <1>4, <1>7
<1>9. ASSUME NEW i \in 1 .. Len(w)
      PROVE  /\ V2[i + 1] = NicksAfter(c, N[i], V2[i], w[i])
             /\ Other(c, N[i], w[i]) /\ V2[i] = NoNicks => q(i)
             /\ w[i].type = "NICK" => w[i].new \notin DOMAIN V2[i]
  <2>1. i \in 1 .. Len(w) + 1 /\ i + 1 \in 1 .. Len(w) + 1 BY <1>3
  <2>2. /\ V2[i] = IF q(i) THEN NoNicks ELSE V[i]
        /\ V2[i + 1] = IF q(i + 1) THEN NoNicks ELSE V[i + 1]
    BY <1>7, <2>1
  <2>3. CASE ~q(i)
    <3>1. ~q(i + 1) BY <1>5, <2>3
    <3>2. Other(c, N[i], w[i]) /\ V[i] = NoNicks => q(i) BY <1>2 DEF q
    <3>3. QED BY <1>2, <2>2, <2>3, <3>1, <3>2
  <2>4. CASE q(i) /\ Local(c, N[i], w[i])
    <3>1. ~q(i + 1) BY <1>5, <2>4
    <3>2. V2[i] = NoNicks /\ V2[i + 1] = V[i + 1] BY <2>2, <2>4, <3>1
    <3>3. V[i + 1] = NicksAfter(c, N[i], V[i], w[i]) BY <1>2
    <3>4. NicksAfter(c, N[i], V[i], w[i]) = NicksAfter(c, N[i], V2[i], w[i])
      BY <2>4, JoinSetsMe
    <3>5. QED BY <2>4, <3>2, <3>3, <3>4, NoNicksFacts
  <2>5. CASE q(i) /\ ~Local(c, N[i], w[i])
    <3>1. q(i + 1) BY <1>5, <2>5
    <3>2. V2[i] = NoNicks /\ V2[i + 1] = NoNicks BY <2>2, <2>5, <3>1
    <3>3. QED BY <2>5, <3>2, NoneStays, NoNicksFacts
  <2>6. QED BY <2>3, <2>4, <2>5
<1>10. Trail(w, N, c, NoNicks, FALSE, V2) BY <1>6, <1>8, <1>9 DEF Trail, q
<1>11. Ends(w, N, c, FALSE, V2, members, s2)
  <2>1. V2[Len(w) + 1] = IF q(Len(w) + 1) THEN NoNicks ELSE V[Len(w) + 1]
    BY <1>3, <1>7
  <2>2. CASE q(Len(w) + 1) BY <2>1, <2>2 DEF Ends, q
  <2>3. CASE ~q(Len(w) + 1)
    <3>1. Follows(V[Len(w) + 1], members) BY <1>1, <2>3 DEF Ends, q
    <3>2. QED BY <2>1, <2>3, <3>1 DEF Ends
  <2>4. QED BY <2>2, <2>3
<1>12. QED BY <1>6, <1>10, <1>11 DEF Story

-----------------------------------------------------------------------------
(***************************************************************************)
(* The nicklist of a channel holds its nicks, each in its group, through   *)
(* every function of irc-nick.c.                                           *)
(***************************************************************************)
\* The nicklist of each channel holds its nicks, each in its group.
ListsNicks(ch) == ch.nicklist = Entries(ch.nicks)

IsEntry(f, e) ==
  /\ e = <<e[1], e[2]>>
  /\ e[1] \in DOMAIN f /\ e[2] \in irc_nick_get_nicklist_group(f[e[1]])

LEMMA EntriesAre ==
  ASSUME NEW f
  PROVE  \A e : e \in Entries(f) <=> IsEntry(f, e)
<1>1. ASSUME NEW e PROVE e \in Entries(f) <=> \E n \in DOMAIN f : e \in Listed(n, f[n])
  BY DEF Entries
<1>2. ASSUME NEW e, NEW n
      PROVE  e \in Listed(n, f[n])
               <=> e = <<e[1], e[2]>> /\ e[1] = n /\ e[2] \in irc_nick_get_nicklist_group(f[n])
  <2> DEFINE G == irc_nick_get_nicklist_group(f[n])
  <2>1. Listed(n, f[n]) = {<<n, g>> : g \in G} BY DEF Listed
  <2> HIDE DEF G
  <2>2. e \in Listed(n, f[n]) <=> e = <<e[1], e[2]>> /\ e[1] = n /\ e[2] \in G BY <2>1
  <2>3. QED BY <2>2 DEF G
<1>3. QED BY <1>1, <1>2 DEF IsEntry

LEMMA RelistPut ==
  ASSUME NEW f, NEW g
  PROVE  Relist(Entries(f), Entries(Only(f, DOMAIN g)), Entries(g)) = Entries(Put(f, g))
<1> DEFINE left == Entries(f) \ Entries(Only(f, DOMAIN g))
<1>1. \A e : /\ e \in Entries(f) <=> IsEntry(f, e)
             /\ e \in Entries(g) <=> IsEntry(g, e)
             /\ e \in Entries(Only(f, DOMAIN g)) <=> IsEntry(Only(f, DOMAIN g), e)
             /\ e \in Entries(Put(f, g)) <=> IsEntry(Put(f, g), e)
  BY EntriesAre
<1>2. ASSUME NEW e PROVE IsEntry(Only(f, DOMAIN g), e) <=> IsEntry(f, e) /\ e[1] \in DOMAIN g
  BY DEF IsEntry, Only
<1>3. ASSUME NEW e
      PROVE  IsEntry(Put(f, g), e)
               <=> IsEntry(g, e) \/ (IsEntry(f, e) /\ e[1] \notin DOMAIN g)
  BY DEF IsEntry, Put
<1>4. \A e : e \in left <=> IsEntry(f, e) /\ e[1] \notin DOMAIN g BY <1>1, <1>2
<1>5. \A e \in Entries(g) : e[1] \in DOMAIN g BY <1>1 DEF IsEntry
<1>6. Relist(Entries(f), Entries(Only(f, DOMAIN g)), Entries(g))
        = left \cup {e \in Entries(g) : \A l \in left : l[1] # e[1]}
  BY DEF Relist
<1> HIDE DEF left
<1>7. {e \in Entries(g) : \A l \in left : l[1] # e[1]} = Entries(g) BY <1>4, <1>5
<1>8. \A e : e \in Entries(Put(f, g)) <=> e \in left \/ e \in Entries(g) BY <1>1, <1>3, <1>4
<1>9. QED BY <1>6, <1>7, <1>8

LEMMA RelistWithout ==
  ASSUME NEW f, NEW n
  PROVE  Relist(Entries(f), Entries(Only(f, {n})), {}) = Entries(Without(f, n))
<1>1. \A e : /\ e \in Entries(f) <=> IsEntry(f, e)
             /\ e \in Entries(Only(f, {n})) <=> IsEntry(Only(f, {n}), e)
             /\ e \in Entries(Without(f, n)) <=> IsEntry(Without(f, n), e)
  BY EntriesAre
<1>2. ASSUME NEW e PROVE IsEntry(Only(f, {n}), e) <=> IsEntry(f, e) /\ e[1] = n
  BY DEF IsEntry, Only
<1>3. ASSUME NEW e PROVE IsEntry(Without(f, n), e) <=> IsEntry(f, e) /\ e[1] # n
  BY DEF IsEntry, Without
<1>4. Relist(Entries(f), Entries(Only(f, {n})), {}) = Entries(f) \ Entries(Only(f, {n}))
  BY DEF Relist
<1>5. QED BY <1>1, <1>2, <1>3, <1>4

LEMMA RelistRename ==
  ASSUME NEW f, NEW n \in DOMAIN f, NEW m, m \notin DOMAIN f
  PROVE  Relist(Entries(f), Entries(Only(f, {n})), Listed(m, f[n])) = Entries(Rename(f, n, m))
<1> DEFINE left == Entries(f) \ Entries(Only(f, {n}))
           one == [x \in {m} |-> f[n]]
<1>1. \A e : /\ e \in Entries(f) <=> IsEntry(f, e)
             /\ e \in Entries(Only(f, {n})) <=> IsEntry(Only(f, {n}), e)
             /\ e \in Entries(Rename(f, n, m)) <=> IsEntry(Rename(f, n, m), e)
             /\ e \in Entries(one) <=> IsEntry(one, e)
  BY EntriesAre
<1>2. ASSUME NEW e PROVE IsEntry(Only(f, {n}), e) <=> IsEntry(f, e) /\ e[1] = n
  BY DEF IsEntry, Only
<1>3. ASSUME NEW e
      PROVE  IsEntry(Rename(f, n, m), e)
               <=> IsEntry(one, e) \/ (IsEntry(f, e) /\ e[1] # n)
  BY DEF IsEntry, Rename
<1>4. \A e : e \in left <=> IsEntry(f, e) /\ e[1] # n BY <1>1, <1>2
<1>5. Entries(one) = Listed(m, f[n]) BY DEF Entries
<1>6. \A e \in Entries(one) : e[1] = m BY <1>1 DEF IsEntry
<1>7. \A l \in left : l[1] # m BY <1>4 DEF IsEntry
<1>8. Relist(Entries(f), Entries(Only(f, {n})), Listed(m, f[n]))
        = left \cup {e \in Entries(one) : \A l \in left : l[1] # e[1]}
  BY <1>5 DEF Relist
<1> HIDE DEF left, one
<1>9. {e \in Entries(one) : \A l \in left : l[1] # e[1]} = Entries(one) BY <1>6, <1>7
<1>10. \A e : e \in Entries(Rename(f, n, m)) <=> e \in left \/ e \in Entries(one)
  BY <1>1, <1>3, <1>4
<1>11. QED BY <1>8, <1>9, <1>10
-----------------------------------------------------------------------------
LEMMA EntriesNone == Entries(NoNicks) = {}
BY NoNicksFacts DEF Entries

LEMMA NickNewLists ==
  ASSUME NEW ch \in ChannelData, ListsNicks(ch), NEW f \in Nicks
  PROVE  /\ irc_nick_new(ch, f).nicks = Put(ch.nicks, f)
         /\ irc_nick_new(ch, f).open = ch.open
         /\ ListsNicks(irc_nick_new(ch, f))
<1> DEFINE list == Relist(ch.nicklist, Entries(Only(ch.nicks, DOMAIN f)), Entries(f))
           nicks == Put(ch.nicks, f)
<1>1. list = Entries(nicks) BY RelistPut DEF ListsNicks
<1>2. irc_nick_new(ch, f) = [ch EXCEPT !.nicks = nicks, !.nicklist = list]
  BY DEF irc_nick_new
<1> HIDE DEF list, nicks
<1>3. /\ irc_nick_new(ch, f).nicks = nicks /\ irc_nick_new(ch, f).open = ch.open
      /\ irc_nick_new(ch, f).nicklist = list
  BY <1>2 DEF ChannelData
<1>4. QED BY <1>1, <1>3 DEF ListsNicks, nicks

LEMMA NickChangeLists ==
  ASSUME NEW ch \in ChannelData, ListsNicks(ch), NEW n \in DOMAIN ch.nicks,
         NEW m, m \notin DOMAIN ch.nicks
  PROVE  /\ irc_nick_change(ch, n, m).nicks = Rename(ch.nicks, n, m)
         /\ irc_nick_change(ch, n, m).open = ch.open
         /\ ListsNicks(irc_nick_change(ch, n, m))
<1> DEFINE list == Relist(ch.nicklist, Entries(Only(ch.nicks, {n})), Listed(m, ch.nicks[n]))
           nicks == Rename(ch.nicks, n, m)
<1>1. list = Entries(nicks) BY RelistRename DEF ListsNicks
<1>2. irc_nick_change(ch, n, m) = [ch EXCEPT !.nicks = nicks, !.nicklist = list]
  BY DEF irc_nick_change
<1> HIDE DEF list, nicks
<1>3. /\ irc_nick_change(ch, n, m).nicks = nicks
      /\ irc_nick_change(ch, n, m).open = ch.open
      /\ irc_nick_change(ch, n, m).nicklist = list
  BY <1>2 DEF ChannelData
<1>4. QED BY <1>1, <1>3 DEF ListsNicks, nicks

LEMMA NickSetModeLists ==
  ASSUME NEW ch \in ChannelData, ListsNicks(ch), NEW n, NEW set, NEW mode
  PROVE  /\ irc_nick_set_mode(ch, n, set, mode).nicks
              = Put(ch.nicks, [x \in {n} |-> IF set THEN ch.nicks[n] \cup {mode}
                                             ELSE ch.nicks[n] \ {mode}])
         /\ irc_nick_set_mode(ch, n, set, mode).open = ch.open
         /\ ListsNicks(irc_nick_set_mode(ch, n, set, mode))
<1> DEFINE new == [x \in {n} |-> IF set THEN ch.nicks[n] \cup {mode} ELSE ch.nicks[n] \ {mode}]
           list == Relist(ch.nicklist, Entries(Only(ch.nicks, {n})), Entries(new))
           nicks == Put(ch.nicks, new)
<1>1. list = Entries(nicks)
  <2>1. DOMAIN new = {n} OBVIOUS
  <2> HIDE DEF new
  <2>2. Relist(Entries(ch.nicks), Entries(Only(ch.nicks, DOMAIN new)), Entries(new))
          = Entries(Put(ch.nicks, new))
    BY RelistPut
  <2>3. QED BY <2>1, <2>2 DEF ListsNicks
<1>2. irc_nick_set_mode(ch, n, set, mode) = [ch EXCEPT !.nicks = nicks, !.nicklist = list]
  BY DEF irc_nick_set_mode
<1> HIDE DEF list, nicks
<1>3. /\ irc_nick_set_mode(ch, n, set, mode).nicks = nicks
      /\ irc_nick_set_mode(ch, n, set, mode).open = ch.open
      /\ irc_nick_set_mode(ch, n, set, mode).nicklist = list
  BY <1>2 DEF ChannelData
<1>4. QED BY <1>1, <1>3 DEF ListsNicks, nicks

LEMMA NickFreeLists ==
  ASSUME NEW ch \in ChannelData, ListsNicks(ch), NEW n
  PROVE  /\ irc_nick_free(ch, n).nicks = Without(ch.nicks, n)
         /\ irc_nick_free(ch, n).open = ch.open
         /\ ListsNicks(irc_nick_free(ch, n))
<1> DEFINE list == Relist(ch.nicklist, Entries(Only(ch.nicks, {n})), {})
           nicks == Without(ch.nicks, n)
<1>1. list = Entries(nicks) BY RelistWithout DEF ListsNicks
<1>2. irc_nick_free(ch, n) = [ch EXCEPT !.nicks = nicks, !.nicklist = list]
  BY DEF irc_nick_free
<1> HIDE DEF list, nicks
<1>3. /\ irc_nick_free(ch, n).nicks = nicks /\ irc_nick_free(ch, n).open = ch.open
      /\ irc_nick_free(ch, n).nicklist = list
  BY <1>2 DEF ChannelData
<1>4. QED BY <1>1, <1>3 DEF ListsNicks, nicks

LEMMA NickFreeAllLists ==
  ASSUME NEW ch \in ChannelData
  PROVE  /\ irc_nick_free_all(ch).nicks = NoNicks
         /\ irc_nick_free_all(ch).open = ch.open
         /\ ListsNicks(irc_nick_free_all(ch))
<1>1. /\ irc_nick_free_all(ch).nicks = NoNicks /\ irc_nick_free_all(ch).open = ch.open
      /\ irc_nick_free_all(ch).nicklist = {}
  BY DEF irc_nick_free_all, ChannelData
<1>2. QED BY <1>1, EntriesNone DEF ListsNicks

LEMMA ClosedLists ==
  /\ Closed.nicks = NoNicks /\ ~Closed.open /\ ListsNicks(Closed)
  /\ irc_channel_new.nicks = NoNicks /\ ListsNicks(irc_channel_new)
BY EntriesNone DEF Closed, irc_channel_new, ListsNicks

-----------------------------------------------------------------------------
(***************************************************************************)
(* Each handler of irc-protocol.c makes of a message that it can take what *)
(* NickAfter and NicksAfter say, in every channel.                         *)
(***************************************************************************)
\* The first message is one the client can take: a JOIN of another is for a
\* channel it knows or ignores, a new nick is new to it.
Ready(m) ==
  \A c \in Channel :
    /\ ListsNicks(channel[c])
    /\ Other(c, server.nick, m) /\ channel[c].nicks = NoNicks => ~channel[c].open
    /\ m.type = "NICK" => m.new \notin DOMAIN channel[c].nicks

\* The client reads m: its nick, and of each channel the nicks and nicklist.
Reads(m) ==
  /\ server'.nick = NickAfter(server.nick, m)
  /\ \A c \in Channel :
       /\ channel'[c].nicks = NicksAfter(c, server.nick, channel[c].nicks, m)
       /\ channel'[c].open => channel[c].open \/ Local(c, server.nick, m)
       /\ ListsNicks(channel'[c])

LEMMA ReadsOne ==
  ASSUME Client, NEW m, Ready(m), m.type \in {"JOIN", "PART", "KICK", "353", "MODE"},
         NEW c \in Channel, c = m.chan, NEW ch,
         channel' = [channel EXCEPT ![c] = ch], server' = server,
         ch.nicks = NicksAfter(c, server.nick, channel[c].nicks, m),
         ch.open => channel[c].open \/ Local(c, server.nick, m), ListsNicks(ch)
  PROVE  Reads(m)
<1>1. server'.nick = NickAfter(server.nick, m) BY DEF NickAfter
<1>2. \A d \in Channel : channel'[d] = IF d = c THEN ch ELSE channel[d] BY DEF Client
<1>3. ASSUME NEW d \in Channel, d # c
      PROVE  NicksAfter(d, server.nick, channel[d].nicks, m) = channel[d].nicks
  BY <1>3 DEF NicksAfter
<1>4. QED BY <1>1, <1>2, <1>3 DEF Reads, Ready

LEMMA Reads001 ==
  ASSUME Client, NEW m \in Answer, Ready(m), Recv001(m)
  PROVE  Reads(m) /\ server'.link = "up"
<1>1. m.type = "001" /\ UNCHANGED channel BY DEF Recv001
<1>2. server'.nick = m.who /\ server'.link = "up"
  <2> DEFINE s == [server EXCEPT !.link = "up", !.nick = m.who]
  <2>1. s.nick = m.who /\ s.link = "up" BY DEF Client, ServerData
  <2>2. /\ DOMAIN s = DOMAIN server
        /\ {"nick", "link"} \subseteq DOMAIN server
    BY DEF Client, ServerData
  <2>3. \/ server' = [s EXCEPT !.command_time = TRUE]
        \/ irc_server_autojoin_channels(s)
    BY DEF Recv001
  <2> HIDE DEF s
  <2>4. CASE irc_server_autojoin_channels(s)
    <3> DEFINE again == s.reconnect_join /\ ~(~s.disable_autojoin /\ s.reconnect_join /\ Opened # {})
    <3>1. server' = [s EXCEPT !.disable_autojoin = FALSE, !.reconnect_join = again]
      BY <2>4 DEF irc_server_autojoin_channels
    <3> HIDE DEF again
    <3>2. QED BY <2>1, <2>2, <3>1
  <2>5. QED BY <2>1, <2>2, <2>3, <2>4
<1>3. ASSUME NEW c \in Channel
      PROVE  channel[c].nicks = NicksAfter(c, server.nick, channel[c].nicks, m)
  BY <1>1 DEF NicksAfter
<1>4. NickAfter(server.nick, m) = m.who BY <1>1 DEF NickAfter
<1>5. QED BY <1>1, <1>2, <1>3, <1>4 DEF Reads, Ready

LEMMA ReadsJoin ==
  ASSUME Client, NEW m \in Answer, Ready(m), RecvJoin(m)
  PROVE  Reads(m)
<1> DEFINE c == m.chan
           local == m.who = server.nick
           old == IF channel[c].open THEN channel[c] ELSE irc_channel_new
           ch == [old EXCEPT !.part = FALSE]
           emptied == IF local THEN irc_nick_free_all(ch) ELSE ch
           joined == [n \in {m.who} |-> {}]
           new == irc_nick_new(emptied, joined)
<1>1. c \in Channel /\ m.who \in Name /\ m.type = "JOIN" BY AnswerFields DEF RecvJoin
<1>2. joined \in Nicks BY <1>1, ModesAreNicks, {} \in SUBSET Mode
<1>3. /\ IF channel[c].open \/ local
         THEN channel' = [channel EXCEPT ![c] = new]
         ELSE UNCHANGED channel
      /\ UNCHANGED <<server, sent>>
  BY DEF RecvJoin
<1>4. /\ Local(c, server.nick, m) <=> local
      /\ Other(c, server.nick, m) <=> ~local
  BY <1>1 DEF Local, Other
<1>5. old \in ChannelData /\ ListsNicks(old)
  BY <1>1, ChannelNewSound, ClosedLists DEF Client, Sound, Ready
<1>6. /\ Sound(channel[c]) /\ ListsNicks(channel[c])
      /\ channel[c].nicks = NoNicks \/ channel[c].open
  BY <1>1 DEF Client, Sound, Ready
<1>7. ~local /\ channel[c].nicks = NoNicks => ~channel[c].open BY <1>1, <1>4 DEF Ready
<1>8. ch \in ChannelData /\ ch.nicks = old.nicks /\ ch.open = old.open /\ ListsNicks(ch)
  <2> HIDE DEF old
  <2>1. QED BY <1>5 DEF ChannelData, ListsNicks
<1>9. CASE local
  <2>1. channel' = [channel EXCEPT ![c] = new] BY <1>3, <1>9
  <2>2. emptied = irc_nick_free_all(ch) BY <1>9
  <2> HIDE DEF ch
  <2>3. emptied \in ChannelData /\ emptied.nicks = NoNicks /\ ListsNicks(emptied)
    BY <1>8, <2>2, NickFreeAllSound, NickFreeAllLists DEF Sound
  <2>4. new.nicks = Put(NoNicks, joined) /\ ListsNicks(new)
    <3> HIDE DEF emptied, joined
    <3>1. QED BY <1>2, <2>3, NickNewLists
  <2>5. Put(NoNicks, joined) = [n \in {server.nick} |-> {}]
    BY <1>9, NoNicksFacts DEF Put
  <2>6. NicksAfter(c, server.nick, channel[c].nicks, m) = [n \in {server.nick} |-> {}]
    BY <1>4, <1>9, JoinSetsMe
  <2>7. c = m.chan /\ server' = server BY <1>3
  <2> HIDE DEF new, c
  <2>8. QED BY <1>1, <1>4, <1>9, <2>1, <2>4, <2>5, <2>6, <2>7, ReadsOne
<1>10. CASE ~local /\ channel[c].open
  <2>1. channel' = [channel EXCEPT ![c] = new] BY <1>3, <1>10
  <2>2. emptied = ch /\ channel[c].nicks # NoNicks BY <1>7, <1>10
  <2>3. ch.nicks = channel[c].nicks BY <1>8, <1>10
  <2> HIDE DEF ch
  <2>4. new.nicks = Put(channel[c].nicks, joined) /\ ListsNicks(new)
    <3> HIDE DEF emptied, joined
    <3>1. QED BY <1>2, <1>8, <2>2, <2>3, NickNewLists
  <2>5. NicksAfter(c, server.nick, channel[c].nicks, m) = Put(channel[c].nicks, joined)
    BY <1>1, <1>10, <2>2 DEF NicksAfter
  <2>6. c = m.chan /\ server' = server BY <1>3
  <2> HIDE DEF new, c, joined
  <2>7. QED BY <1>1, <1>10, <2>1, <2>4, <2>5, <2>6, ReadsOne
<1>11. CASE ~local /\ ~channel[c].open
  <2>1. UNCHANGED channel BY <1>3, <1>11
  <2>2. channel[c].nicks = NoNicks BY <1>6, <1>11
  <2>3. NicksAfter(c, server.nick, channel[c].nicks, m) = NoNicks
    BY <1>1, <1>11, <2>2 DEF NicksAfter
  <2>4. channel' = [channel EXCEPT ![c] = channel[c]] BY <2>1 DEF Client
  <2>5. c = m.chan /\ server' = server BY <1>3
  <2> HIDE DEF c
  <2>6. QED BY <1>1, <1>6, <2>2, <2>3, <2>4, <2>5, ReadsOne
<1>12. QED BY <1>9, <1>10, <1>11

LEMMA Reads353 ==
  ASSUME Client, NEW m \in Answer, Ready(m), Recv353(m)
  PROVE  Reads(m)
<1> DEFINE c == m.chan
           ch == channel[c]
           new == IF ch.nicks # NoNicks THEN irc_nick_new(ch, m.nicks) ELSE ch
<1>1. c \in Channel /\ m.nicks \in Nicks /\ m.type = "353" BY AnswerFields DEF Recv353
<1>2. channel' = [channel EXCEPT ![c] = new] /\ server' = server BY DEF Recv353
<1>3. ch \in ChannelData /\ ListsNicks(ch) BY <1>1 DEF Client, Ready
<1>4. NicksAfter(c, server.nick, ch.nicks, m)
        = IF ch.nicks = NoNicks THEN ch.nicks ELSE Put(ch.nicks, m.nicks)
  BY <1>1 DEF NicksAfter
<1> HIDE DEF c
<1>5. /\ new.nicks = NicksAfter(c, server.nick, ch.nicks, m)
      /\ new.open = ch.open /\ ListsNicks(new)
  <2>1. CASE ch.nicks = NoNicks BY <1>3, <1>4, <2>1
  <2>2. CASE ch.nicks # NoNicks BY <1>1, <1>3, <1>4, <2>2, NickNewLists
  <2>3. QED BY <2>1, <2>2
<1> HIDE DEF new
<1>6. c = m.chan BY DEF c
<1>7. QED BY <1>1, <1>2, <1>5, <1>6, ReadsOne

LEMMA ReadsLeft ==
  ASSUME Client, NEW m \in Answer, Ready(m), RecvLeft(m)
  PROVE  Reads(m)
<1> DEFINE c == m.chan
           ch == channel[c]
           new == IF m.who \in DOMAIN ch.nicks THEN irc_nick_free(ch, m.who) ELSE ch
<1>1. c \in Channel /\ m.type \in {"PART", "KICK"} BY AnswerFields DEF RecvLeft
<1>2. /\ channel' = [channel EXCEPT ![c] = new] /\ server' = server
      /\ ~(ch.open /\ m.who = server.nick)
  BY DEF RecvLeft
<1>3. ch \in ChannelData /\ ListsNicks(ch) /\ ch.nicks \in Nicks
      /\ (ch.nicks # NoNicks => ch.open)
  BY <1>1 DEF Client, Ready, Sound, ChannelData
<1>4. NicksAfter(c, server.nick, ch.nicks, m)
        = IF m.who = server.nick THEN NoNicks ELSE Without(ch.nicks, m.who)
  BY <1>1 DEF NicksAfter
<1>5. m.who = server.nick => ch.nicks = NoNicks BY <1>2, <1>3
<1> HIDE DEF c
<1>6. /\ new.nicks = NicksAfter(c, server.nick, ch.nicks, m)
      /\ new.open = ch.open /\ ListsNicks(new)
  <2>1. CASE m.who \in DOMAIN ch.nicks
    <3>1. m.who # server.nick BY <1>5, <2>1, NoNicksFacts
    <3>2. new = irc_nick_free(ch, m.who) BY <2>1
    <3>3. QED BY <1>3, <1>4, <3>1, <3>2, NickFreeLists
  <2>2. CASE m.who \notin DOMAIN ch.nicks
    <3>1. Without(ch.nicks, m.who) = ch.nicks BY <1>3, <2>2, WithoutAbsent
    <3>2. QED BY <1>3, <1>4, <1>5, <2>2, <3>1
  <2>3. QED BY <2>1, <2>2
<1> HIDE DEF new
<1>7. c = m.chan BY DEF c
<1>8. QED BY <1>1, <1>2, <1>6, <1>7, ReadsOne

LEMMA ReadsMode ==
  ASSUME Client, NEW m \in Answer, Ready(m), RecvMode(m)
  PROVE  Reads(m)
<1> DEFINE c == m.chan
           ch == channel[c]
           new == IF m.who \in DOMAIN ch.nicks
                  THEN irc_nick_set_mode(ch, m.who, m.set, m.mode) ELSE ch
<1>1. c \in Channel /\ m.type = "MODE" BY AnswerFields DEF RecvMode
<1>2. channel' = [channel EXCEPT ![c] = new] /\ server' = server BY DEF RecvMode
<1>3. ch \in ChannelData /\ ListsNicks(ch) BY <1>1 DEF Client, Ready
<1>4. NicksAfter(c, server.nick, ch.nicks, m)
        = IF m.who \in DOMAIN ch.nicks
          THEN Put(ch.nicks, [n \in {m.who} |-> IF m.set THEN ch.nicks[m.who] \cup {m.mode}
                                                ELSE ch.nicks[m.who] \ {m.mode}])
          ELSE ch.nicks
  BY <1>1 DEF NicksAfter
<1> HIDE DEF c
<1>5. /\ new.nicks = NicksAfter(c, server.nick, ch.nicks, m)
      /\ new.open = ch.open /\ ListsNicks(new)
  <2>1. CASE m.who \in DOMAIN ch.nicks
    <3> DEFINE set == irc_nick_set_mode(ch, m.who, m.set, m.mode)
    <3>1. new = set BY <2>1
    <3>2. /\ set.nicks = Put(ch.nicks, [n \in {m.who} |->
                                         IF m.set THEN ch.nicks[m.who] \cup {m.mode}
                                         ELSE ch.nicks[m.who] \ {m.mode}])
          /\ set.open = ch.open /\ ListsNicks(set)
      <4> HIDE DEF ch, new
      <4>1. QED BY <1>3, NickSetModeLists
    <3> HIDE DEF set, new, ch
    <3>3. QED BY <1>4, <2>1, <3>1, <3>2
  <2>2. CASE m.who \notin DOMAIN ch.nicks BY <1>3, <1>4, <2>2
  <2>3. QED BY <2>1, <2>2
<1> HIDE DEF new
<1>6. c = m.chan BY DEF c
<1>7. QED BY <1>1, <1>2, <1>5, <1>6, ReadsOne

LEMMA ReadsKickMe ==
  ASSUME Client, NEW m \in Answer, Ready(m), RecvKickMe(m)
  PROVE  Reads(m)
<1> DEFINE c == m.chan
           ch == irc_nick_free_all(channel[c])
           waits == [ch EXCEPT !.hook_autorejoin = NewTimer]
<1>1. c \in Channel /\ m.type = "KICK" /\ m.who = server.nick
  BY AnswerFields DEF RecvKickMe
<1>2. channel[c] \in ChannelData BY <1>1 DEF Client
<1>3. /\ ch \in ChannelData /\ ch.nicks = NoNicks /\ ch.open = channel[c].open
      /\ ListsNicks(ch)
  BY <1>2, NickFreeAllSound, NickFreeAllLists DEF Sound
<1>4. NicksAfter(c, server.nick, channel[c].nicks, m) = NoNicks BY <1>1 DEF NicksAfter
<1>5. server' = server BY DEF RecvKickMe
<1>6. channel' = [channel EXCEPT ![c] = ch] \/ channel' = [channel EXCEPT ![c] = waits]
  BY DEF RecvKickMe
<1> HIDE DEF c, ch
<1>7. waits.nicks = NoNicks /\ waits.open = channel[c].open /\ ListsNicks(waits)
  BY <1>3 DEF ChannelData, ListsNicks
<1> HIDE DEF waits
<1>8. c = m.chan BY DEF c
<1>9. CASE channel' = [channel EXCEPT ![c] = ch]
  BY <1>1, <1>3, <1>4, <1>5, <1>8, <1>9, ReadsOne
<1>10. CASE channel' = [channel EXCEPT ![c] = waits]
  BY <1>1, <1>4, <1>5, <1>7, <1>8, <1>10, ReadsOne
<1>11. QED BY <1>6, <1>9, <1>10

LEMMA ReadsPartMe ==
  ASSUME Client, NEW m \in Answer, Ready(m), RecvPartMe(m)
  PROVE  Reads(m)
<1> DEFINE c == m.chan
           ch == irc_nick_free_all(channel[c])
           cycled == [ch EXCEPT !.cycle = FALSE]
           parted == [ch EXCEPT !.part = TRUE]
<1>1. c \in Channel /\ m.type = "PART" /\ m.who = server.nick
  BY AnswerFields DEF RecvPartMe
<1>2. channel[c] \in ChannelData BY <1>1 DEF Client
<1>3. /\ ch \in ChannelData /\ ch.nicks = NoNicks /\ ch.open = channel[c].open
      /\ ListsNicks(ch)
  BY <1>2, NickFreeAllSound, NickFreeAllLists DEF Sound
<1>4. NicksAfter(c, server.nick, channel[c].nicks, m) = NoNicks BY <1>1 DEF NicksAfter
<1>5. server' = server BY DEF RecvPartMe
<1>6. PICK new \in {cycled, parted, Closed} : channel' = [channel EXCEPT ![c] = new]
  BY DEF RecvPartMe
<1> HIDE DEF c, ch
<1>7. new.nicks = NoNicks /\ (new.open => channel[c].open) /\ ListsNicks(new)
  <2>1. cycled.nicks = NoNicks /\ cycled.open = channel[c].open /\ ListsNicks(cycled)
    BY <1>3 DEF ChannelData, ListsNicks
  <2>2. parted.nicks = NoNicks /\ parted.open = channel[c].open /\ ListsNicks(parted)
    BY <1>3 DEF ChannelData, ListsNicks
  <2>3. QED BY <1>6, <2>1, <2>2, ClosedLists
<1>8. c = m.chan BY DEF c
<1>9. QED BY <1>1, <1>4, <1>5, <1>6, <1>7, <1>8, ReadsOne

LEMMA ReadsNick ==
  ASSUME Client, NEW m \in Answer, Ready(m), RecvNick(m)
  PROVE  Reads(m)
<1>1. m.type = "NICK" /\ m.new \in Name BY AnswerFields DEF RecvNick
<1>2. server'.nick = NickAfter(server.nick, m)
  BY <1>1 DEF RecvNick, Client, ServerData, NickAfter
<1>3. ASSUME NEW c \in Channel
      PROVE  /\ channel'[c].nicks = NicksAfter(c, server.nick, channel[c].nicks, m)
             /\ channel'[c].open = channel[c].open
             /\ ListsNicks(channel'[c])
  <2>1. channel'[c] = IF m.who \in DOMAIN channel[c].nicks
                      THEN irc_nick_change(channel[c], m.who, m.new) ELSE channel[c]
    BY DEF RecvNick
  <2>2. NicksAfter(c, server.nick, channel[c].nicks, m)
          = IF m.who \in DOMAIN channel[c].nicks THEN Rename(channel[c].nicks, m.who, m.new)
            ELSE channel[c].nicks
    BY <1>1 DEF NicksAfter
  <2>3. channel[c] \in ChannelData /\ ListsNicks(channel[c])
        /\ m.new \notin DOMAIN channel[c].nicks
    BY <1>1 DEF Client, Ready
  <2>4. CASE m.who \in DOMAIN channel[c].nicks
    BY <2>1, <2>2, <2>3, <2>4, NickChangeLists
  <2>5. CASE m.who \notin DOMAIN channel[c].nicks BY <2>1, <2>2, <2>3, <2>5
  <2>6. QED BY <2>4, <2>5
<1>4. QED BY <1>2, <1>3 DEF Reads

LEMMA ReadsQuit ==
  ASSUME Client, NEW m \in Answer, Ready(m), RecvQuit(m)
  PROVE  Reads(m)
<1>1. m.type \in {"QUIT", "KILL"} BY DEF RecvQuit
<1>2. server'.nick = NickAfter(server.nick, m) BY <1>1 DEF RecvQuit, NickAfter
<1> DEFINE mine == m.type = "KILL" /\ m.who = server.nick
<1>3. ASSUME NEW c \in Channel
      PROVE  /\ channel'[c].nicks = NicksAfter(c, server.nick, channel[c].nicks, m)
             /\ channel'[c].open = channel[c].open
             /\ ListsNicks(channel'[c])
  <2>1. channel'[c] = IF mine THEN irc_nick_free_all(channel[c])
                      ELSE IF m.who \in DOMAIN channel[c].nicks
                           THEN irc_nick_free(channel[c], m.who) ELSE channel[c]
    BY DEF RecvQuit
  <2>2. NicksAfter(c, server.nick, channel[c].nicks, m)
          = IF mine THEN NoNicks ELSE Without(channel[c].nicks, m.who)
    BY <1>1 DEF NicksAfter
  <2>3. channel[c] \in ChannelData /\ ListsNicks(channel[c]) /\ channel[c].nicks \in Nicks
    BY DEF Client, Ready, ChannelData
  <2> HIDE DEF mine
  <2>4. CASE mine BY <2>1, <2>2, <2>3, <2>4, NickFreeAllLists
  <2>5. CASE ~mine /\ m.who \in DOMAIN channel[c].nicks
    BY <2>1, <2>2, <2>3, <2>5, NickFreeLists
  <2>6. CASE ~mine /\ m.who \notin DOMAIN channel[c].nicks
    BY <2>1, <2>2, <2>3, <2>6, WithoutAbsent
  <2>7. QED BY <2>4, <2>5, <2>6
<1>4. QED BY <1>2, <1>3 DEF Reads

-----------------------------------------------------------------------------
(***************************************************************************)
(* The stories of all the channels, with the nick of the client.           *)
(***************************************************************************)
\* What the client will know of its nick and of each channel, once it has read
\* everything under way, is what the network has.
Stories(w, nick, ch, me, members, s) ==
  \E N \in [1 .. Len(w) + 1 -> Nick] :
    /\ NickTrail(w, N, nick)
    /\ me # NoNick => N[Len(w) + 1] = me
    /\ \A c \in Channel : Story(w, N, c, ch[c].nicks, ch[c].open, members[c], s)

LEMMA StoriesNothing ==
  ASSUME NEW nick \in Nick, NEW ch, \A c \in Channel : ch[c].nicks = NoNicks,
         NEW members, \A c \in Channel : members[c] = NoNicks, NEW s
  PROVE  Stories(<<>>, nick, ch, NoNick, members, s)
<1> DEFINE N == [i \in 1 .. Len(<<>>) + 1 |-> nick]
<1>1. Len(<<>>) = 0 OBVIOUS
<1>2. N \in [1 .. Len(<<>>) + 1 -> Nick] /\ N[1] = nick BY <1>1
<1> HIDE DEF N
<1>3. \A i \in 1 .. Len(<<>>) : FALSE BY <1>1
<1>4. NickTrail(<<>>, N, nick) BY <1>2, <1>3 DEF NickTrail
<1>5. \A c \in Channel : Story(<<>>, N, c, ch[c].nicks, ch[c].open, members[c], s)
  BY StoryNothing
<1>6. QED BY <1>2, <1>4, <1>5 DEF Stories

LEMMA StoriesKept ==
  ASSUME NEW w, NEW nick, NEW ch, NEW me, NEW members, NEW s,
         Stories(w, nick, ch, me, members, s), NEW ch2, NEW s2,
         \A c \in Channel : /\ ch2[c].nicks = ch[c].nicks
                            /\ ch2[c].open => ch[c].open
                            /\ Parting(c, s) => Parting(c, s2) \/ members[c] = NoNicks
  PROVE  Stories(w, nick, ch2, me, members, s2)
<1>1. PICK N \in [1 .. Len(w) + 1 -> Nick] :
             /\ NickTrail(w, N, nick)
             /\ me # NoNick => N[Len(w) + 1] = me
             /\ \A c \in Channel : Story(w, N, c, ch[c].nicks, ch[c].open, members[c], s)
  BY DEF Stories
<1>2. ASSUME NEW c \in Channel
      PROVE  Story(w, N, c, ch2[c].nicks, ch2[c].open, members[c], s2)
  <2>1. Story(w, N, c, ch[c].nicks, ch[c].open, members[c], s) BY <1>1
  <2>2. ch2[c].nicks = ch[c].nicks OBVIOUS
  <2>3. Story(w, N, c, ch2[c].nicks, ch[c].open, members[c], s) BY <2>1, <2>2, Zenon
  <2>4. ch2[c].open => ch[c].open OBVIOUS
  <2>5. CASE members[c] = NoNicks
    <3>1. Story(w, N, c, ch2[c].nicks, ch[c].open, NoNicks, s) BY <2>3, <2>5, Zenon
    <3>2. Story(w, N, c, ch2[c].nicks, ch[c].open, NoNicks, s2) BY <3>1, StoryOver
    <3>3. Story(w, N, c, ch2[c].nicks, ch2[c].open, NoNicks, s2) BY <2>4, <3>2, StoryKept
    <3>4. QED BY <2>5, <3>3, Zenon
  <2>6. CASE Parting(c, s) => Parting(c, s2) BY <2>3, <2>4, <2>6, StoryKept
  <2>7. QED BY <2>5, <2>6
<1>3. QED BY <1>1, <1>2 DEF Stories

LEMMA StoriesClose ==
  ASSUME NEW w \in Seq(Answer), NEW nick, NEW ch, NEW me, NEW members, NEW s,
         Stories(w, nick, ch, me, members, s), NEW ch2, NEW s2, NEW c \in Channel,
         ch2[c].nicks = NoNicks, ch2[c].open = FALSE, Parting(c, s2),
         \A d \in Channel \ {c} : ch2[d] = ch[d] /\ (Parting(d, s) => Parting(d, s2))
  PROVE  Stories(w, nick, ch2, me, members, s2)
<1>1. PICK N \in [1 .. Len(w) + 1 -> Nick] :
             /\ NickTrail(w, N, nick)
             /\ me # NoNick => N[Len(w) + 1] = me
             /\ \A d \in Channel : Story(w, N, d, ch[d].nicks, ch[d].open, members[d], s)
  BY DEF Stories
<1>2. Story(w, N, c, ch2[c].nicks, ch2[c].open, members[c], s2)
  <2>1. Story(w, N, c, ch[c].nicks, ch[c].open, members[c], s) BY <1>1
  <2>2. Story(w, N, c, NoNicks, FALSE, members[c], s2) BY <2>1, StoryClose
  <2>3. QED BY <2>2
<1>3. ASSUME NEW d \in Channel \ {c}
      PROVE  Story(w, N, d, ch2[d].nicks, ch2[d].open, members[d], s2)
  <2>1. Story(w, N, d, ch[d].nicks, ch[d].open, members[d], s) BY <1>1
  <2>2. Story(w, N, d, ch[d].nicks, ch[d].open, members[d], s2) BY <2>1, StoryKept
  <2>3. QED BY <2>2
<1>4. QED BY <1>1, <1>2, <1>3 DEF Stories

LEMMA StoriesTell ==
  ASSUME NEW w \in Seq(Answer), NEW m \in Answer,
         NEW nick, NEW ch, NEW me, NEW members, NEW s,
         Stories(w, nick, ch, me, members, s), NEW me2, NEW members2,
         \A x \in Nick : (me # NoNick => x = me) =>
           /\ me2 # NoNick => me2 = NickAfter(x, m)
           /\ \A c \in Channel : Moves(c, x, members[c], m, members2[c])
  PROVE  Stories(Append(w, m), nick, ch, me2, members2, s)
<1>1. PICK N \in [1 .. Len(w) + 1 -> Nick] :
             /\ NickTrail(w, N, nick)
             /\ me # NoNick => N[Len(w) + 1] = me
             /\ \A c \in Channel : Story(w, N, c, ch[c].nicks, ch[c].open, members[c], s)
  BY DEF Stories
<1> DEFINE x == N[Len(w) + 1]
           N2 == Extend(N, w, NickAfter(x, m))
<1>2. x \in Nick
  <2>1. Len(w) + 1 \in 1 .. Len(w) + 1 OBVIOUS
  <2>2. QED BY <1>1, <2>1
<1>3. /\ me2 # NoNick => me2 = NickAfter(x, m)
      /\ \A c \in Channel : Moves(c, x, members[c], m, members2[c])
  BY <1>1, <1>2
<1>4. /\ NickTrail(Append(w, m), N2, nick)
      /\ N2[Len(Append(w, m)) + 1] = NickAfter(x, m)
  BY <1>1, NickTrailTell
<1>5. N2 \in [1 .. Len(Append(w, m)) + 1 -> Nick] BY <1>4 DEF NickTrail
<1>6. ASSUME NEW c \in Channel
      PROVE  Story(Append(w, m), N2, c, ch[c].nicks, ch[c].open, members2[c], s)
  <2>1. Story(w, N, c, ch[c].nicks, ch[c].open, members[c], s) BY <1>1
  <2>2. Moves(c, N[Len(w) + 1], members[c], m, members2[c]) BY <1>3
  <2>3. NickTrail(w, N, nick) BY <1>1
  <2>4. QED BY <2>1, <2>2, <2>3, StoryTell
<1> HIDE DEF N2, x
<1>7. QED BY <1>3, <1>4, <1>5, <1>6 DEF Stories

LEMMA StoriesTail ==
  ASSUME NEW w \in Seq(Answer), w # <<>>, NEW nick, NEW ch, NEW me, NEW members, NEW s,
         Stories(w, nick, ch, me, members, s), NEW ch2,
         \A c \in Channel :
           /\ ch2[c].nicks = NicksAfter(c, nick, ch[c].nicks, Head(w))
           /\ ch2[c].open => ch[c].open \/ Local(c, nick, Head(w))
  PROVE  Stories(Tail(w), NickAfter(nick, Head(w)), ch2, me, members, s)
<1>1. PICK N \in [1 .. Len(w) + 1 -> Nick] :
             /\ NickTrail(w, N, nick)
             /\ me # NoNick => N[Len(w) + 1] = me
             /\ \A c \in Channel : Story(w, N, c, ch[c].nicks, ch[c].open, members[c], s)
  BY DEF Stories
<1> DEFINE N2 == Shift(N, w)
<1>2. /\ NickTrail(Tail(w), N2, NickAfter(nick, Head(w)))
      /\ N2[Len(Tail(w)) + 1] = N[Len(w) + 1]
  BY <1>1, NickTrailTail
<1>3. N2 \in [1 .. Len(Tail(w)) + 1 -> Nick] BY <1>2 DEF NickTrail
<1>4. ASSUME NEW c \in Channel
      PROVE  Story(Tail(w), N2, c, ch2[c].nicks, ch2[c].open, members[c], s)
  <2>1. Story(w, N, c, ch[c].nicks, ch[c].open, members[c], s) BY <1>1
  <2>2. NickTrail(w, N, nick) BY <1>1
  <2>3. ch2[c].open => ch[c].open \/ Local(c, nick, Head(w)) OBVIOUS
  <2>4. Story(Tail(w), N2, c, NicksAfter(c, nick, ch[c].nicks, Head(w)), ch2[c].open,
              members[c], s)
    BY <2>1, <2>2, <2>3, StoryTail
  <2>5. QED BY <2>4
<1> HIDE DEF N2
<1>5. QED BY <1>1, <1>2, <1>3, <1>4 DEF Stories

\* The first message under way is ready to be read.
LEMMA StoriesFirst ==
  ASSUME NEW w \in Seq(Answer), w # <<>>, NEW nick, NEW ch, NEW me, NEW members, NEW s,
         Stories(w, nick, ch, me, members, s), NEW c \in Channel
  PROVE  /\ Other(c, nick, Head(w)) /\ ch[c].nicks = NoNicks => ~ch[c].open
         /\ Head(w).type = "NICK" => Head(w).new \notin DOMAIN ch[c].nicks
<1>1. PICK N \in [1 .. Len(w) + 1 -> Nick] :
             /\ NickTrail(w, N, nick)
             /\ Story(w, N, c, ch[c].nicks, ch[c].open, members[c], s)
  BY DEF Stories
<1>2. PICK V \in [1 .. Len(w) + 1 -> Nicks] : Trail(w, N, c, ch[c].nicks, ch[c].open, V)
  BY <1>1 DEF Story
<1>3. 1 \in 1 .. Len(w) /\ Head(w) = w[1] BY TailFacts
<1>4. N[1] = nick BY <1>1 DEF NickTrail
<1>5. /\ V[1] = ch[c].nicks
      /\ Other(c, N[1], w[1]) /\ V[1] = NoNicks => ~ch[c].open
      /\ w[1].type = "NICK" => w[1].new \notin DOMAIN V[1]
  BY <1>2, <1>3 DEF Trail
<1>6. QED BY <1>3, <1>4, <1>5

\* Nothing is under way: the client has what the network has.
LEMMA StoriesEnd ==
  ASSUME NEW nick, NEW ch, NEW me, me # NoNick, NEW members,
         Stories(<<>>, nick, ch, me, members, <<>>)
  PROVE  nick = me /\ \A c \in Channel : Follows(ch[c].nicks, members[c])
<1>1. PICK N \in [1 .. Len(<<>>) + 1 -> Nick] :
             /\ NickTrail(<<>>, N, nick)
             /\ me # NoNick => N[Len(<<>>) + 1] = me
             /\ \A c \in Channel : Story(<<>>, N, c, ch[c].nicks, ch[c].open, members[c], <<>>)
  BY DEF Stories
<1>2. Len(<<>>) = 0 /\ Len(<<>>) + 1 = 1 OBVIOUS
<1>3. nick = me BY <1>1, <1>2 DEF NickTrail
<1>4. ASSUME NEW c \in Channel PROVE Follows(ch[c].nicks, members[c])
  <2>1. PICK V \in [1 .. Len(<<>>) + 1 -> Nicks] :
               /\ Trail(<<>>, N, c, ch[c].nicks, ch[c].open, V)
               /\ Ends(<<>>, N, c, ch[c].open, V, members[c], <<>>)
    BY <1>1 DEF Story
  <2>2. V[1] = ch[c].nicks BY <2>1 DEF Trail
  <2>3. ~Parting(c, <<>>) BY <1>2 DEF Parting
  <2>4. QED BY <1>2, <2>1, <2>2, <2>3 DEF Ends
<1>5. QED BY <1>3, <1>4

-----------------------------------------------------------------------------
(***************************************************************************)
(* What the client shows, step by step: it reads.                          *)
(***************************************************************************)
ListsSound == \A c \in Channel : ListsNicks(channel[c])

\* The network has members only where the client is.
NetSound == \A c \in Channel : net.members[c] # NoNicks => In(c)

\* Without a link nobody is shown; the network accepts the client with the
\* first message.
LinkSound ==
  ~Connected =>
    /\ \A c \in Channel : channel[c].nicks = NoNicks
    /\ wire = <<>> => net.me = NoNick
    /\ wire # <<>> => server.link = "login" /\ Head(wire).type = "001"

StoriesSound == Stories(wire, server.nick, channel, net.me, net.members, sent)

Shows == ListsSound /\ NetSound /\ LinkSound /\ StoriesSound

-----------------------------------------------------------------------------
LEMMA PartsFacts ==
  ASSUME Parts
  PROVE  /\ Client /\ net \in NetData /\ wire \in Seq(Answer) /\ sent \in Seq(Request)
         /\ server.nick \in Nick /\ net.me \in Nick
         /\ \A c \in Channel : /\ channel[c] \in ChannelData /\ channel[c].nicks \in Nicks
                               /\ net.members[c] \in Nicks
<1>1. Client /\ net \in NetData /\ wire \in Seq(Answer) BY PartsAreClient
<1>2. QED BY <1>1 DEF Client, ServerData, NetData, ChannelData, Nick

\* Without a nick on the network the client is nowhere.
LEMMA NobodyIn ==
  ASSUME net \in NetData, NetSound, net.me = NoNick
  PROVE  \A c \in Channel : net.members[c] = NoNicks
<1>1. SUFFICES ASSUME NEW c \in Channel, In(c) PROVE FALSE BY DEF NetSound
<1>2. net.members[c] \in Nicks BY DEF NetData
<1>3. DOMAIN net.members[c] \in SUBSET Name BY <1>2, NicksFacts
<1>4. QED BY <1>1, <1>3 DEF In

LEMMA PartingAppend ==
  ASSUME sent \in Seq(Request), NEW c, Parting(c, sent), NEW msgs \in Seq(Request)
  PROVE  Parting(c, sent \o msgs)
<1>1. PICK k \in 1 .. Len(sent) : sent[k] = [cmd |-> "PART", chan |-> c] BY DEF Parting
<1>2. /\ Len(sent \o msgs) = Len(sent) + Len(msgs)
      /\ Len(sent) \in Nat /\ Len(msgs) \in Nat
      /\ (sent \o msgs)[k] = sent[k]
  BY ConcatProperties
<1>3. k \in 1 .. Len(sent \o msgs) BY <1>2
<1>4. QED BY <1>1, <1>2, <1>3 DEF Parting

LEMMA PartingSend ==
  ASSUME sent \in Seq(Request), NEW msgs \in Seq(Request), Send(msgs), NEW c, Parting(c, sent)
  PROVE  Parting(c, sent')
BY PartingAppend DEF Send

LEMMA PartingTail ==
  ASSUME NEW s \in Seq(Request), s # <<>>, NEW c, Parting(c, s),
         Head(s) # [cmd |-> "PART", chan |-> c]
  PROVE  Parting(c, Tail(s))
<1>1. PICK k \in 1 .. Len(s) : s[k] = [cmd |-> "PART", chan |-> c] BY DEF Parting
<1>2. /\ Len(s) \in Nat /\ Head(s) = s[1] /\ Len(Tail(s)) = Len(s) - 1
      /\ \A i \in 1 .. Len(s) - 1 : Tail(s)[i] = s[i + 1]
  BY HeadTailProperties
<1>3. k # 1 BY <1>1, <1>2
<1>4. k - 1 \in 1 .. Len(s) - 1 /\ (k - 1) + 1 = k BY <1>2, <1>3
<1>5. Tail(s)[k - 1] = s[k] BY <1>2, <1>4
<1>6. QED BY <1>1, <1>2, <1>4, <1>5 DEF Parting

\* No PART is taken back.
KeepsParting == \A c \in Channel : Parting(c, sent) => Parting(c, sent')

LEMMA CommandKeepsParting ==
  ASSUME sent \in Seq(Request), NEW c \in Channel,
         irc_command_join_server(c) \/ irc_command_part_channel(c)
  PROVE  KeepsParting
BY OneMessage, PartingSend
   DEF irc_command_join_server, irc_command_part_channel, KeepsParting

LEMMA AutojoinKeepsParting ==
  ASSUME sent \in Seq(Request), NEW s, irc_server_autojoin_channels(s)
  PROVE  KeepsParting
<1> DEFINE again == ~s.disable_autojoin /\ s.reconnect_join /\ Opened # {}
           which == IF again THEN {c \in Opened : ~channel[c].part}
                    ELSE IF s.disable_autojoin THEN {} ELSE Autojoin
<1>1. \E q \in Orders(which) : sent' = sent \o Joins(q)
  BY DEF irc_server_autojoin_channels
<1>2. which \in SUBSET Channel BY DEF Opened
<1> HIDE DEF which
<1>3. PICK q \in Orders(which) : sent' = sent \o Joins(q) BY <1>1
<1>4. Joins(q) \in Seq(Request) BY <1>2, JoinsTypes
<1>5. QED BY <1>3, <1>4, PartingAppend DEF KeepsParting

LEMMA ReadsKeepParting ==
  ASSUME Parts, NEW m \in Answer,
         \/ Recv001(m) \/ RecvJoin(m) \/ Recv353(m) \/ RecvKickMe(m) \/ RecvPartMe(m)
         \/ RecvLeft(m) \/ RecvMode(m) \/ RecvNick(m) \/ RecvQuit(m)
  PROVE  KeepsParting
<1>1. sent \in Seq(Request) BY PartsFacts
<1>2. ASSUME UNCHANGED sent PROVE KeepsParting BY <1>2 DEF KeepsParting
<1>3. CASE Recv001(m) BY <1>1, <1>2, <1>3, AutojoinKeepsParting DEF Recv001
<1>4. CASE RecvKickMe(m) \/ RecvPartMe(m)
  <2>1. m.chan \in Channel BY <1>4, AnswerFields DEF RecvKickMe, RecvPartMe
  <2>2. UNCHANGED sent \/ irc_command_join_server(m.chan)
    BY <1>4 DEF RecvKickMe, RecvPartMe
  <2>3. QED BY <1>1, <1>2, <2>1, <2>2, CommandKeepsParting
<1>5. CASE RecvJoin(m) \/ Recv353(m) \/ RecvLeft(m) \/ RecvMode(m) \/ RecvNick(m) \/ RecvQuit(m)
  BY <1>2, <1>5 DEF RecvJoin, Recv353, RecvLeft, RecvMode, RecvNick, RecvQuit
<1>6. QED BY <1>3, <1>4, <1>5

\* The client changes nothing that it shows, except to close channels where
\* it is not; nothing is read.
LEMMA ShowsKept ==
  ASSUME Shows, UNCHANGED <<wire, net>>, server'.nick = server.nick,
         ~Connected' => ~Connected /\ (wire = <<>> \/ server'.link = server.link),
         \A c \in Channel :
           /\ channel'[c].nicks = channel[c].nicks
           /\ channel'[c].open => channel[c].open
           /\ ListsNicks(channel'[c])
           /\ Parting(c, sent) => Parting(c, sent')
  PROVE  Shows'
<1>1. ListsSound' BY DEF ListsSound
<1>2. NetSound' BY DEF Shows, NetSound, In
<1>3. LinkSound' BY DEF Shows, LinkSound
<1>4. StoriesSound'
  <2>1. Stories(wire, server.nick, channel, net.me, net.members, sent)
    BY DEF Shows, StoriesSound
  <2>2. \A c \in Channel : /\ channel'[c].nicks = channel[c].nicks
                           /\ channel'[c].open => channel[c].open
                           /\ Parting(c, sent) => Parting(c, sent') \/ net.members[c] = NoNicks
    OBVIOUS
  <2>3. Stories(wire, server.nick, channel', net.me, net.members, sent')
    BY <2>1, <2>2, StoriesKept
  <2>4. QED BY <2>3 DEF StoriesSound
<1>5. QED BY <1>1, <1>2, <1>3, <1>4 DEF Shows
-----------------------------------------------------------------------------
LEMMA ClientReadsShows == Parts /\ Shows /\ ClientReads => Shows'
<1> SUFFICES ASSUME Parts, Shows, ClientReads PROVE Shows' OBVIOUS
<1> DEFINE m == Head(wire)
<1>1. Client /\ wire \in Seq(Answer) BY PartsFacts
<1>2. wire # <<>> /\ wire' = Tail(wire) /\ net' = net BY DEF ClientReads
<1>3. m \in Answer BY <1>1, <1>2, TailFacts
<1>4. StoriesSound BY DEF Shows
<1>5. Ready(m)
  <2>1. ASSUME NEW c \in Channel
        PROVE  /\ Other(c, server.nick, m) /\ channel[c].nicks = NoNicks => ~channel[c].open
               /\ m.type = "NICK" => m.new \notin DOMAIN channel[c].nicks
    BY <1>1, <1>2, <1>4, StoriesFirst DEF StoriesSound
  <2>2. QED BY <2>1 DEF Shows, ListsSound, Ready
<1>6. \/ Recv001(m) \/ RecvJoin(m) \/ Recv353(m) \/ RecvKickMe(m) \/ RecvPartMe(m)
      \/ RecvLeft(m) \/ RecvMode(m) \/ RecvNick(m) \/ RecvQuit(m)
  BY DEF ClientReads
<1>7. m.type # "001" => server.link = "up"
  BY <1>2 DEF ClientReads, Shows, LinkSound, Connected
<1> HIDE DEF m
<1>8. Reads(m) /\ Connected'
  <2>1. CASE Recv001(m) BY <1>1, <1>3, <1>5, <2>1, Reads001 DEF Connected
  <2>2. ASSUME \/ RecvJoin(m) \/ Recv353(m) \/ RecvKickMe(m) \/ RecvPartMe(m)
               \/ RecvLeft(m) \/ RecvMode(m) \/ RecvNick(m) \/ RecvQuit(m)
        PROVE  Reads(m)
    BY <1>1, <1>3, <1>5, <2>2, ReadsJoin, Reads353, ReadsKickMe, ReadsPartMe, ReadsLeft,
       ReadsMode, ReadsNick, ReadsQuit
  <2>3. ASSUME \/ RecvJoin(m) \/ Recv353(m) \/ RecvKickMe(m) \/ RecvPartMe(m)
               \/ RecvLeft(m) \/ RecvMode(m) \/ RecvNick(m) \/ RecvQuit(m)
        PROVE  m.type # "001" /\ server'.link = server.link
    <3>1. m.type # "001"
      BY <2>3 DEF RecvJoin, Recv353, RecvKickMe, RecvPartMe, RecvLeft, RecvMode, RecvNick,
                  RecvQuit
    <3>2. \/ server' = server
          \/ server' = [server EXCEPT !.nick = IF m.who = server.nick THEN m.new ELSE server.nick]
      BY <2>3 DEF RecvJoin, Recv353, RecvKickMe, RecvPartMe, RecvLeft, RecvMode, RecvNick,
                  RecvQuit
    <3>3. QED BY <1>1, <3>1, <3>2 DEF Client, ServerData
  <2>4. QED BY <1>6, <1>7, <2>1, <2>2, <2>3 DEF Connected
<1>9. ListsSound' BY <1>8 DEF Reads, ListsSound
<1>10. NetSound' BY <1>2 DEF Shows, NetSound, In
<1>11. LinkSound' BY <1>8 DEF LinkSound
<1>12. StoriesSound'
  <2>1. \A c \in Channel :
           /\ channel'[c].nicks = NicksAfter(c, server.nick, channel[c].nicks, Head(wire))
           /\ channel'[c].open => channel[c].open \/ Local(c, server.nick, Head(wire))
    BY <1>8 DEF Reads, m
  <2>2. Stories(Tail(wire), NickAfter(server.nick, Head(wire)), channel', net.me,
                net.members, sent)
    BY <1>1, <1>2, <1>4, <2>1, StoriesTail DEF StoriesSound
  <2>3. server'.nick = NickAfter(server.nick, Head(wire)) BY <1>8 DEF Reads, m
  <2>4. Stories(wire', server'.nick, channel', net'.me, net'.members, sent)
    BY <1>2, <2>2, <2>3
  <2>5. KeepsParting BY <1>3, <1>6, ReadsKeepParting
  <2>6. \A c \in Channel : /\ channel'[c].nicks = channel'[c].nicks
                           /\ channel'[c].open => channel'[c].open
                           /\ Parting(c, sent) => Parting(c, sent') \/ net'.members[c] = NoNicks
    BY <2>5 DEF KeepsParting
  <2>7. Stories(wire', server'.nick, channel', net'.me, net'.members, sent')
    BY <2>4, <2>6, StoriesKept
  <2>8. QED BY <2>7 DEF StoriesSound
<1>13. QED BY <1>9, <1>10, <1>11, <1>12 DEF Shows

-----------------------------------------------------------------------------
(***************************************************************************)
(* Timers, the link and the user.                                          *)
(***************************************************************************)
LEMMA TimersShows == Parts /\ Shows /\ Timers => Shows'
<1> SUFFICES ASSUME Parts, Shows, Timers PROVE Shows' OBVIOUS
<1>1. Client /\ sent \in Seq(Request) BY PartsFacts
<1>2. UNCHANGED <<wire, net>> BY DEF Timers, AutojoinDue, AutorejoinFires
<1>3. ASSUME AutojoinDue PROVE Shows'
  <2> DEFINE s == [server EXCEPT !.command_time = FALSE]
  <2>1. irc_server_autojoin_channels(s) /\ UNCHANGED channel BY <1>3 DEF AutojoinDue
  <2>2. s.nick = server.nick /\ s.link = server.link /\ s \in ServerData
    BY <1>1 DEF Client, ServerData
  <2>3. server'.nick = s.nick /\ server'.link = s.link
    <3> DEFINE again == ~s.disable_autojoin /\ s.reconnect_join /\ Opened # {}
    <3>1. server' = [s EXCEPT !.disable_autojoin = FALSE,
                              !.reconnect_join   = s.reconnect_join /\ ~again]
      BY <2>1 DEF irc_server_autojoin_channels
    <3> HIDE DEF again, s
    <3>2. QED BY <2>2, <3>1 DEF ServerData
  <2>4. KeepsParting BY <1>1, <2>1, AutojoinKeepsParting
  <2> HIDE DEF s
  <2>5. ~Connected' => ~Connected /\ server'.link = server.link
    BY <2>2, <2>3 DEF Connected
  <2>6. \A c \in Channel : ListsNicks(channel[c]) BY DEF Shows, ListsSound
  <2>7. QED BY <1>2, <2>1, <2>2, <2>3, <2>4, <2>5, <2>6, ShowsKept DEF KeepsParting
<1>4. ASSUME NEW t \in Timer, AutorejoinFires(t) PROVE Shows'
  <2> DEFINE c == timer[t]
             ch == [channel[c] EXCEPT !.hook_autorejoin = 0]
  <2>1. /\ server' = server
        /\ \/ /\ c \in Channel /\ irc_command_join_server(c)
              /\ channel' = [channel EXCEPT ![c] = ch]
           \/ UNCHANGED <<sent, channel>>
    BY <1>4 DEF AutorejoinFires
  <2>2. KeepsParting BY <1>1, <2>1, CommandKeepsParting DEF KeepsParting
  <2>3. ASSUME NEW d \in Channel
        PROVE  /\ channel'[d].nicks = channel[d].nicks
               /\ channel'[d].open = channel[d].open
               /\ ListsNicks(channel'[d])
    <3>1. channel[d] \in ChannelData /\ ListsNicks(channel[d])
      BY <1>1 DEF Client, Shows, ListsSound
    <3>2. channel'[d] = channel[d] \/ channel'[d] = [channel[d] EXCEPT !.hook_autorejoin = 0]
      BY <1>1, <2>1 DEF Client
    <3>3. QED BY <3>1, <3>2 DEF ChannelData, ListsNicks
  <2>4. ~Connected' => ~Connected /\ server'.link = server.link BY <2>1 DEF Connected
  <2>5. QED BY <1>2, <2>1, <2>2, <2>3, <2>4, ShowsKept DEF KeepsParting
<1>5. QED BY <1>3, <1>4 DEF Timers

\* The link ends: nothing is under way, nobody is shown, the client is nowhere.
LEMMA DisconnectShows ==
  ASSUME Parts, Shows, NEW reconnect \in BOOLEAN, irc_server_disconnect(reconnect),
         net'.me = NoNick, \A c \in Channel : net'.members[c] = NoNicks
  PROVE  Shows'
<1>1. Client /\ server.nick \in Nick BY PartsFacts
<1>2. /\ server' = [server EXCEPT !.link = IF reconnect THEN "waiting" ELSE "off",
                                  !.nick = IF reconnect THEN server.nick ELSE NoNick]
      /\ sent' = <<>> /\ wire' = <<>>
  BY DEF irc_server_disconnect
<1>3. server'.nick \in Nick BY <1>1, <1>2 DEF Client, ServerData, Nick
<1>4. ASSUME NEW c \in Channel
      PROVE  channel'[c].nicks = NoNicks /\ ListsNicks(channel'[c])
  <2> DEFINE ch == irc_nick_free_all(channel[c])
  <2>1. channel[c] \in ChannelData /\ ListsNicks(channel[c])
    BY <1>1 DEF Client, Shows, ListsSound
  <2>2. CASE Connected
    <3>1. channel'[c] = [ch EXCEPT !.hook_autorejoin = 0]
      BY <2>2 DEF irc_server_disconnect
    <3>2. ch \in ChannelData /\ ch.nicks = NoNicks /\ ListsNicks(ch)
      BY <2>1, NickFreeAllSound, NickFreeAllLists DEF Sound
    <3> HIDE DEF ch
    <3>3. QED BY <3>1, <3>2 DEF ChannelData, ListsNicks
  <2>3. CASE ~Connected
    <3>1. channel' = channel BY <2>3 DEF irc_server_disconnect
    <3>2. QED BY <2>1, <2>3, <3>1 DEF Shows, LinkSound
  <2>4. QED BY <2>2, <2>3
<1>5. ListsSound' BY <1>4 DEF ListsSound
<1>6. NetSound' BY DEF NetSound
<1>7. LinkSound' BY <1>2, <1>4 DEF LinkSound
<1>8. Stories(<<>>, server'.nick, channel', NoNick, net'.members, sent')
  <2>1. \A c \in Channel : channel'[c].nicks = NoNicks BY <1>4
  <2>2. QED BY <1>3, <2>1, StoriesNothing
<1>9. StoriesSound' BY <1>2, <1>8 DEF StoriesSound
<1>10. QED BY <1>5, <1>6, <1>7, <1>9 DEF Shows

LEMMA AwayIsNowhere ==
  ASSUME net \in NetData
  PROVE  /\ Away.me = NoNick /\ \A c \in Channel : Away.members[c] = NoNicks
         /\ \A k : LET a == [Away EXCEPT !.links = k]
                   IN  a.me = NoNick /\ \A c \in Channel : a.members[c] = NoNicks
BY DEF Away, NetData

LEMMA RegistersShows ==
  ASSUME Parts, Shows, NEW n \in MyNames, Registers(n)
  PROVE  Shows'
<1> DEFINE m == [type |-> "001", who |-> n]
<1>1. /\ server.link = "login" /\ net.me = NoNick /\ wire = <<>>
      /\ net' = [net EXCEPT !.me = n] /\ wire' = <<m>>
      /\ UNCHANGED <<server, channel, timer, sent>>
  BY DEF Registers
<1>2. net \in NetData /\ wire \in Seq(Answer) BY PartsFacts
<1>3. n \in Name /\ m \in Answer BY DEF Answer
<1>4. net'.me = n /\ net'.members = net.members BY <1>1, <1>2 DEF NetData
<1>5. \A c \in Channel : net.members[c] = NoNicks BY <1>1, <1>2, NobodyIn DEF Shows
<1>6. m.type = "001" /\ m.who = n OBVIOUS
<1>7. Append(wire, m) = <<m>> /\ Head(<<m>>) = m /\ <<m>> # <<>> BY <1>1
<1> HIDE DEF m
<1>8. ListsSound' BY <1>1 DEF Shows, ListsSound
<1>9. NetSound' BY <1>4, <1>5 DEF NetSound
<1>10. LinkSound' BY <1>1, <1>6, <1>7 DEF Shows, LinkSound, Connected
<1>11. ASSUME NEW x \in Nick
       PROVE  /\ n # NoNick => n = NickAfter(x, m)
              /\ \A c \in Channel : Moves(c, x, net.members[c], m, net.members[c])
  <2>1. NickAfter(x, m) = n BY <1>6 DEF NickAfter
  <2>2. QED BY <1>6, <2>1, Inert
<1>12. Stories(Append(wire, m), server.nick, channel, n, net.members, sent)
  <2>1. Stories(wire, server.nick, channel, net.me, net.members, sent)
    BY DEF Shows, StoriesSound
  <2>2. QED BY <1>2, <1>3, <1>11, <2>1, StoriesTell
<1>13. StoriesSound' BY <1>1, <1>4, <1>7, <1>12 DEF StoriesSound
<1>14. QED BY <1>8, <1>9, <1>10, <1>13 DEF Shows

LEMMA LinkShows == Parts /\ Shows /\ Link => Shows'
<1> SUFFICES ASSUME Parts, Shows, Link PROVE Shows' OBVIOUS
<1>1. Client /\ net \in NetData BY PartsFacts
<1>2. ASSUME LinkLost \/ Disconnect PROVE Shows'
  <2>1. PICK b \in BOOLEAN : irc_server_disconnect(b) BY <1>2 DEF LinkLost, Disconnect
  <2>2. net' = [Away EXCEPT !.links = Away.links + 1] BY <1>2 DEF LinkLost, Disconnect
  <2>3. QED BY <1>1, <2>1, <2>2, AwayIsNowhere, DisconnectShows
<1>3. ASSUME KilledEnd PROVE Shows'
  BY <1>1, <1>3, AwayIsNowhere, DisconnectShows DEF KilledEnd
<1>4. ASSUME irc_server_reconnect \/ \E b \in BOOLEAN : Connect(b) PROVE Shows'
  <2>1. /\ UNCHANGED <<channel, timer, sent, wire, net>>
        /\ server.link \in {"off", "waiting"} /\ server'.nick = server.nick
    BY <1>1, <1>4 DEF irc_server_reconnect, Connect, Client, ServerData
  <2>2. ~Connected /\ wire = <<>>
    <3>1. ~Connected BY <2>1 DEF Connected
    <3>2. wire # <<>> => server.link = "login" BY <3>1 DEF Shows, LinkSound
    <3>3. QED BY <2>1, <3>1, <3>2
  <2>3. \A c \in Channel : ListsNicks(channel[c]) BY DEF Shows, ListsSound
  <2>4. QED BY <2>1, <2>2, <2>3, ShowsKept
<1>5. ASSUME NEW n \in MyNames, Registers(n) PROVE Shows' BY <1>5, RegistersShows
<1>6. QED BY <1>2, <1>3, <1>4, <1>5 DEF Link

LEMMA UserShows == Parts /\ Shows /\ User => Shows'
<1> SUFFICES ASSUME Parts, Shows, User PROVE Shows' OBVIOUS
<1>1. Client /\ sent \in Seq(Request) /\ wire \in Seq(Answer) BY PartsFacts
<1>2. PICK c \in Channel : Join(c) \/ Part(c) \/ Cycle(c) \/ CloseBuffer(c) BY DEF User
<1>3. UNCHANGED <<server, wire, net>> BY <1>2 DEF Join, Part, Cycle, CloseBuffer
<1>4. ~Connected' => ~Connected /\ server'.link = server.link BY <1>3 DEF Connected
<1>5. \A d \in Channel : channel[d] \in ChannelData /\ ListsNicks(channel[d])
  BY <1>1 DEF Client, Shows, ListsSound
\* A channel where the client is not is closed, or none is.
<1>6. ASSUME KeepsParting,
             \/ UNCHANGED channel
             \/ channel' = [channel EXCEPT ![c] = Closed] /\ channel[c].nicks = NoNicks
             \/ channel' = [channel EXCEPT ![c] = [channel[c] EXCEPT !.cycle = channel[c].open]]
      PROVE  Shows'
  <2>1. ASSUME NEW d \in Channel
        PROVE  /\ channel'[d].nicks = channel[d].nicks
               /\ channel'[d].open => channel[d].open
               /\ ListsNicks(channel'[d])
    <3>1. \/ channel'[d] = channel[d]
          \/ channel'[d] = Closed /\ channel[d].nicks = NoNicks
          \/ channel'[d] = [channel[d] EXCEPT !.cycle = channel[d].open]
      BY <1>1, <1>6 DEF Client
    <3>2. QED BY <1>5, <3>1, ClosedLists DEF ChannelData, ListsNicks
  <2>2. QED BY <1>3, <1>4, <1>6, <2>1, ShowsKept DEF KeepsParting
<1>7. ASSUME CloseBuffer(c), channel[c].nicks # NoNicks PROVE Shows'
  <2>1. irc_command_part_channel(c) /\ channel' = [channel EXCEPT ![c] = Closed]
    BY <1>7 DEF CloseBuffer
  <2>2. Connected BY <1>7 DEF Shows, LinkSound
  <2>3. sent' = sent \o Message("PART", c)
    BY <2>1, <2>2 DEF irc_command_part_channel, Send, Connected
  <2>4. Parting(c, sent')
    <3> DEFINE q == [cmd |-> "PART", chan |-> c]
    <3>1. q \in Request /\ sent' = Append(sent, q) BY <1>1, <2>3 DEF Request, Message
    <3> HIDE DEF q
    <3>2. Len(sent') \in 1 .. Len(sent') /\ sent'[Len(sent')] = q
      BY <1>1, <3>1, AppendProperties
    <3>3. QED BY <3>2 DEF Parting, q
  <2>5. KeepsParting BY <1>1, <2>1, CommandKeepsParting
  <2>6. \A d \in Channel : channel'[d] = IF d = c THEN Closed ELSE channel[d]
    BY <1>1, <2>1 DEF Client
  <2>7. ListsSound' BY <1>5, <2>6, ClosedLists DEF ListsSound
  <2>8. NetSound' BY <1>3 DEF Shows, NetSound, In
  <2>9. LinkSound' BY <1>3, <2>2 DEF LinkSound, Connected
  <2>10. Stories(wire, server.nick, channel', net.me, net.members, sent')
    <3>1. Stories(wire, server.nick, channel, net.me, net.members, sent)
      BY DEF Shows, StoriesSound
    <3>2. channel'[c].nicks = NoNicks /\ channel'[c].open = FALSE
      BY <2>6 DEF Closed
    <3>3. \A d \in Channel \ {c} : /\ channel'[d] = channel[d]
                                   /\ Parting(d, sent) => Parting(d, sent')
      BY <2>5, <2>6 DEF KeepsParting
    <3>4. QED BY <1>1, <2>4, <3>1, <3>2, <3>3, StoriesClose
  <2>11. StoriesSound' BY <1>3, <2>10 DEF StoriesSound
  <2>12. QED BY <2>7, <2>8, <2>9, <2>11 DEF Shows
<1>8. UNCHANGED sent => KeepsParting BY DEF KeepsParting
<1>9. CASE Join(c)
  BY <1>1, <1>6, <1>9, CommandKeepsParting DEF Join
<1>10. CASE Part(c)
  BY <1>1, <1>6, <1>8, <1>10, CommandKeepsParting DEF Part
<1>11. CASE Cycle(c)
  BY <1>1, <1>6, <1>11, CommandKeepsParting DEF Cycle
<1>12. CASE CloseBuffer(c) /\ channel[c].nicks = NoNicks
  BY <1>6, <1>8, <1>12 DEF CloseBuffer
<1>13. QED BY <1>2, <1>7, <1>9, <1>10, <1>11, <1>12

-----------------------------------------------------------------------------
(***************************************************************************)
(* The network reads, and others act in a channel.                         *)
(***************************************************************************)
\* A JOIN of the client and the names of the channel.
LEMMA StoriesJoin ==
  ASSUME NEW w \in Seq(Answer), NEW nick, NEW ch, NEW me \in Name, NEW members, NEW s,
         Stories(w, nick, ch, me, members, s), NEW c \in Channel,
         NEW f \in Nicks, me \in DOMAIN f, NEW members2, members2[c] = f,
         \A d \in Channel \ {c} : members2[d] = members[d]
  PROVE  Stories(w \o <<Event("JOIN", me, c), NamesReply(c, f)>>, nick, ch, me, members2, s)
<1> DEFINE m == Event("JOIN", me, c)
           n == NamesReply(c, f)
           alone == [d \in Channel |-> IF d = c THEN [x \in {me} |-> {}] ELSE members[d]]
<1>1. m \in Answer /\ n \in Answer BY EventIsAnswer, NamesReplyIsAnswer
<1>2. w \o <<m, n>> = Append(Append(w, m), n) BY <1>1
<1>3. me # NoNick OBVIOUS
<1>4. m.type = "JOIN" /\ m.chan = c /\ n.type = "353" /\ n.chan = c
  BY DEF Event, NamesReply
<1>5. NickAfter(me, m) = me /\ NickAfter(me, n) = me BY <1>4 DEF NickAfter
<1>6. ASSUME NEW d \in Channel
      PROVE  /\ Moves(d, me, members[d], m, alone[d])
             /\ Moves(d, me, alone[d], n, members2[d])
  <2>1. CASE d = c
    <3>1. alone[d] = [x \in {me} |-> {}] /\ members2[d] = f BY <2>1
    <3>2. Moves(c, me, members[d], m, [x \in {me} |-> {}]) BY MovesJoinMe
    <3>3. Moves(c, me, [x \in {me} |-> {}], n, f) BY MovesNames
    <3>4. QED BY <2>1, <3>1, <3>2, <3>3
  <2>2. CASE d # c
    <3>1. alone[d] = members[d] /\ members2[d] = members[d] BY <2>2
    <3> HIDE DEF m, n, alone
    <3>2. QED BY <1>4, <2>2, <3>1, Inert
  <2>3. QED BY <2>1, <2>2
<1> HIDE DEF m, n, alone
<1>7. Append(w, m) \in Seq(Answer) BY <1>1
<1>8. Stories(Append(w, m), nick, ch, me, alone, s)
  <2>1. \A x \in Nick : (me # NoNick => x = me) =>
          /\ me # NoNick => me = NickAfter(x, m)
          /\ \A d \in Channel : Moves(d, x, members[d], m, alone[d])
    BY <1>3, <1>5, <1>6
  <2>2. QED BY <1>1, <2>1, StoriesTell
<1>9. Stories(Append(Append(w, m), n), nick, ch, me, members2, s)
  <2>1. \A x \in Nick : (me # NoNick => x = me) =>
          /\ me # NoNick => me = NickAfter(x, n)
          /\ \A d \in Channel : Moves(d, x, alone[d], n, members2[d])
    BY <1>3, <1>5, <1>6
  <2> DEFINE w2 == Append(w, m)
  <2>2. w2 \in Seq(Answer) /\ Stories(w2, nick, ch, me, alone, s) BY <1>7, <1>8
  <2> HIDE DEF w2
  <2>3. Stories(Append(w2, n), nick, ch, me, members2, s) BY <1>1, <2>1, <2>2, StoriesTell
  <2>4. QED BY <2>3 DEF w2
<1>10. QED BY <1>2, <1>9 DEF m, n

\* The network tells more to a client it has accepted: the first message stays.
LEMMA TellLink ==
  ASSUME wire \in Seq(Answer), LinkSound, net.me # NoNick, UNCHANGED <<server, channel>>,
         NEW msgs \in Seq(Answer), wire' = wire \o msgs
  PROVE  LinkSound'
<1>1. SUFFICES ASSUME ~Connected' PROVE LinkSound' BY DEF LinkSound
<1>2. ~Connected BY <1>1 DEF Connected
<1>3. wire # <<>> BY <1>2 DEF LinkSound
<1>4. wire' # <<>> /\ Head(wire') = Head(wire)
  <2>1. Len(wire) \in Nat /\ Len(wire) > 0 /\ Head(wire) = wire[1] BY <1>3, TailFacts
  <2>2. /\ wire' \in Seq(Answer) /\ Len(wire') = Len(wire) + Len(msgs) /\ Len(msgs) \in Nat
        /\ wire'[1] = wire[1]
    BY <2>1, ConcatProperties
  <2>3. wire' # <<>> BY <2>1, <2>2
  <2>4. QED BY <2>1, <2>2, <2>3, TailFacts
<1>5. QED BY <1>2, <1>3, <1>4 DEF LinkSound

\* The network tells one message: what is known at the end moves with its members.
LEMMA TellStories ==
  ASSUME Parts, Shows, net.me # NoNick, NEW m \in Answer, Tell(<<m>>),
         UNCHANGED <<server, channel>>, net'.me # NoNick => net'.me = NickAfter(net.me, m),
         \A c \in Channel : Moves(c, net.me, net.members[c], m, net'.members[c])
  PROVE  /\ ListsSound' /\ LinkSound'
         /\ Stories(wire', server'.nick, channel', net'.me, net'.members, sent)
<1>1. wire \in Seq(Answer) BY PartsFacts
<1>2. wire' = wire \o <<m>> /\ <<m>> \in Seq(Answer) BY DEF Tell
<1>3. wire' = Append(wire, m) BY <1>1, <1>2
<1>4. ListsSound' BY DEF Shows, ListsSound
<1>5. LinkSound' BY <1>1, <1>2, TellLink DEF Shows
<1>6. Stories(wire, server.nick, channel, net.me, net.members, sent)
  BY DEF Shows, StoriesSound
<1>7. Stories(Append(wire, m), server.nick, channel, net'.me, net'.members, sent)
  BY <1>1, <1>6, StoriesTell
<1>8. QED BY <1>3, <1>4, <1>5, <1>7

\* One channel, where the client is: a message that names it, and its members.
LEMMA TellOneShows ==
  ASSUME Parts, Shows, NEW c \in Channel, In(c), NEW m \in Answer, Tell(<<m>>),
         UNCHANGED <<server, channel>>, net'.me = net.me,
         m.type \in {"JOIN", "PART", "KICK", "353", "MODE"}, m.chan = c,
         NEW f, net'.members = [net.members EXCEPT ![c] = f],
         Moves(c, net.me, net.members[c], m, f), f = NoNicks \/ net.me \in DOMAIN f
  PROVE  /\ ListsSound' /\ NetSound' /\ LinkSound'
         /\ Stories(wire', server'.nick, channel', net'.me, net'.members, sent)
<1>1. net \in NetData BY PartsFacts
<1>2. net.me \in Name BY <1>1, InIsName
<1>3. net.me # NoNick BY <1>2
<1>4. \A d \in Channel : net'.members[d] = IF d = c THEN f ELSE net.members[d]
  BY <1>1 DEF NetData
<1>5. ASSUME NEW d \in Channel PROVE Moves(d, net.me, net.members[d], m, net'.members[d])
  <2>1. CASE d = c BY <1>4, <2>1
  <2>2. CASE d # c BY <1>4, <2>2, Inert
  <2>3. QED BY <2>1, <2>2
<1>6. NickAfter(net.me, m) = net.me BY DEF NickAfter
<1>7. NetSound' BY <1>4 DEF Shows, NetSound, In
<1>8. QED BY <1>3, <1>5, <1>6, <1>7, TellStories
-----------------------------------------------------------------------------
LEMMA NetReadsShows == Parts /\ Shows /\ NetReads => Shows'
<1> SUFFICES ASSUME Parts, Shows, NetReads PROVE Shows' OBVIOUS
<1> DEFINE m == Head(sent)
           c == m.chan
           cmd == m.cmd
<1>1. /\ net \in NetData /\ wire \in Seq(Answer) /\ sent \in Seq(Request)
      /\ net.members \in [Channel -> Nicks]
  BY PartsFacts DEF NetData
<1>2. sent # <<>> /\ sent' = Tail(sent) /\ UNCHANGED <<server, channel, timer>>
  BY DEF NetReads
<1>3. m \in Request BY <1>1, <1>2, HeadTailProperties
<1>4. c \in Channel BY <1>3 DEF Request
<1>5. \/ /\ cmd = "JOIN" /\ net.me # NoNick /\ ~In(c)
         /\ \E f \in UNION {[S \cup {net.me} -> Granted] : S \in SUBSET (Name \ {net.me})} :
              /\ net' = [net EXCEPT !.members = [net.members EXCEPT ![c] = f]]
              /\ Tell(<<Event("JOIN", net.me, c), NamesReply(c, f)>>)
      \/ /\ cmd = "PART" /\ In(c)
         /\ net' = [net EXCEPT !.members = [net.members EXCEPT ![c] = NoNicks]]
         /\ Tell(<<Event("PART", net.me, c)>>)
      \/ (cmd = "JOIN" \/ ~In(c)) /\ UNCHANGED <<net, wire>>
  BY DEF NetReads
<1>6. ASSUME NEW d \in Channel, d # c \/ cmd = "JOIN", Parting(d, sent)
      PROVE  Parting(d, sent')
  <2>1. m # [cmd |-> "PART", chan |-> d] BY <1>6
  <2>2. QED BY <1>1, <1>2, <1>6, <2>1, PartingTail
\* What is known at the end does not need a PART for where the client is not.
<1>7. ASSUME Stories(wire', server'.nick, channel', net'.me, net'.members, sent),
             cmd = "JOIN" \/ net'.members[c] = NoNicks,
             ListsSound', NetSound', LinkSound'
      PROVE  Shows'
  <2>1. ASSUME NEW d \in Channel
        PROVE  Parting(d, sent) => Parting(d, sent') \/ net'.members[d] = NoNicks
    BY <1>6, <1>7
  <2>2. Stories(wire', server'.nick, channel', net'.me, net'.members, sent')
    BY <1>7, <2>1, StoriesKept
  <2>3. StoriesSound' BY <2>2 DEF StoriesSound
  <2>4. QED BY <1>7, <2>3 DEF Shows
<1> HIDE DEF m, c, cmd
<1>8. ASSUME cmd = "JOIN", net.me # NoNick, ~In(c),
             NEW f \in UNION {[S \cup {net.me} -> Granted] : S \in SUBSET (Name \ {net.me})},
             net' = [net EXCEPT !.members = [net.members EXCEPT ![c] = f]],
             Tell(<<Event("JOIN", net.me, c), NamesReply(c, f)>>)
      PROVE  Shows'
  <2>1. net.me \in Name BY <1>1, <1>8 DEF NetData
  <2>2. PICK S \in SUBSET (Name \ {net.me}) : f \in [S \cup {net.me} -> Granted] OBVIOUS
  <2>3. S \cup {net.me} \in SUBSET Name BY <2>1
  <2>4. f \in [S \cup {net.me} -> SUBSET Mode] BY <2>2
  <2>5. f \in Nicks /\ net.me \in DOMAIN f BY <2>3, <2>4, FunctionIsNicks
  <2>6. net'.me = net.me /\ net'.members = [net.members EXCEPT ![c] = f]
    BY <1>1, <1>8 DEF NetData
  <2>7. \A d \in Channel : net'.members[d] = IF d = c THEN f ELSE net.members[d]
    BY <1>1, <2>6
  <2> DEFINE msgs == <<Event("JOIN", net.me, c), NamesReply(c, f)>>
  <2>8. wire' = wire \o msgs BY <1>8 DEF Tell
  <2>9. Stories(wire, server.nick, channel, net.me, net.members, sent)
    BY DEF Shows, StoriesSound
  <2>10. Stories(wire \o msgs, server.nick, channel, net.me, net'.members, sent)
    <3>1. net'.members[c] = f /\ \A d \in Channel \ {c} : net'.members[d] = net.members[d]
      BY <1>4, <2>7
    <3>2. QED BY <1>1, <1>4, <2>1, <2>5, <2>9, <3>1, StoriesJoin
  <2>11. msgs \in Seq(Answer)
    <3>1. Event("JOIN", net.me, c) \in Answer /\ NamesReply(c, f) \in Answer
      BY <1>4, <2>1, <2>5, EventIsAnswer, NamesReplyIsAnswer
    <3>2. QED BY <3>1
  <2> HIDE DEF msgs
  <2>12. LinkSound' BY <1>1, <1>2, <1>8, <2>8, <2>11, TellLink DEF Shows
  <2>13. ListsSound' BY <1>2 DEF Shows, ListsSound
  <2>14. NetSound' BY <2>5, <2>6, <2>7 DEF Shows, NetSound, In
  <2>15. Stories(wire', server'.nick, channel', net'.me, net'.members, sent)
    BY <1>2, <2>6, <2>8, <2>10
  <2>16. QED BY <1>7, <1>8, <2>12, <2>13, <2>14, <2>15
<1>9. ASSUME In(c), net' = [net EXCEPT !.members = [net.members EXCEPT ![c] = NoNicks]],
             Tell(<<Event("PART", net.me, c)>>)
      PROVE  Shows'
  <2> DEFINE n == Event("PART", net.me, c)
  <2>1. net.me \in Name BY <1>1, <1>4, <1>9, InIsName
  <2>2. n \in Answer BY <1>4, <2>1, EventIsAnswer
  <2>3. net'.me = net.me /\ net'.members = [net.members EXCEPT ![c] = NoNicks]
    BY <1>1, <1>9 DEF NetData
  <2>4. Moves(c, net.me, net.members[c], n, NoNicks) BY <1>4, MovesLeaveMe
  <2>5. n.type = "PART" /\ n.chan = c BY DEF Event
  <2>6. Tell(<<n>>) BY <1>9
  <2> HIDE DEF n
  <2>7. /\ ListsSound' /\ NetSound' /\ LinkSound'
        /\ Stories(wire', server'.nick, channel', net'.me, net'.members, sent)
    BY <1>2, <1>4, <1>9, <2>2, <2>3, <2>4, <2>5, <2>6, TellOneShows
  <2>8. net'.members[c] = NoNicks BY <1>1, <1>4, <2>3
  <2>9. QED BY <1>7, <2>7, <2>8
<1>10. ASSUME cmd = "JOIN" \/ ~In(c), UNCHANGED <<net, wire>>
       PROVE  Shows'
  <2>1. ListsSound' /\ NetSound' /\ LinkSound'
    BY <1>2, <1>10 DEF Shows, ListsSound, NetSound, In, LinkSound, Connected
  <2>2. Stories(wire', server'.nick, channel', net'.me, net'.members, sent)
    BY <1>2, <1>10 DEF Shows, StoriesSound
  <2>3. cmd = "JOIN" \/ net'.members[c] = NoNicks
    BY <1>4, <1>10 DEF Shows, NetSound
  <2>4. QED BY <1>7, <2>1, <2>2, <2>3
<1>11. QED BY <1>5, <1>8, <1>9, <1>10
-----------------------------------------------------------------------------
LEMMA ChannelEventsShow ==
  ASSUME Parts, Shows, NEW c \in Channel, UNCHANGED <<server, channel, sent>>
  PROVE  /\ BouncerJoins(c) => Shows'
         /\ \A b \in BOOLEAN : NetKicksMe(c, b) => Shows'
         /\ \A n \in Name : NetJoin(n, c) => Shows'
         /\ \A n \in Name, type \in {"PART", "KICK"} : NetLeave(n, c, type) => Shows'
         /\ \A n \in Name, set \in BOOLEAN, mode \in Mode : NetMode(n, c, set, mode) => Shows'
<1>1. /\ net \in NetData /\ wire \in Seq(Answer) /\ net.members[c] \in Nicks
      /\ net.members \in [Channel -> Nicks]
  BY PartsFacts DEF NetData
<1>2. ASSUME NEW m \in Answer, Tell(<<m>>), In(c), net'.me = net.me,
             m.type \in {"JOIN", "PART", "KICK", "353", "MODE"}, m.chan = c,
             NEW f, net'.members = [net.members EXCEPT ![c] = f],
             Moves(c, net.me, net.members[c], m, f), f = NoNicks \/ net.me \in DOMAIN f
      PROVE  Shows'
  <2>1. /\ ListsSound' /\ NetSound' /\ LinkSound'
        /\ Stories(wire', server'.nick, channel', net'.me, net'.members, sent)
    BY <1>2, TellOneShows
  <2>2. QED BY <2>1 DEF Shows, StoriesSound
<1>3. In(c) => net.me \in Name /\ net.me \in DOMAIN net.members[c]
  BY <1>1, InIsName
<1>4. ASSUME BouncerJoins(c) PROVE Shows'
  <2> DEFINE f == net.members[c]
             msgs == <<Event("JOIN", net.me, c), NamesReply(c, f)>>
  <2>1. In(c) /\ wire' = wire \o msgs /\ net' = net BY <1>4 DEF BouncerJoins, Tell
  <2>2. net.me \in Name /\ net.me \in DOMAIN f BY <1>3, <2>1
  <2>3. msgs \in Seq(Answer)
    <3>1. Event("JOIN", net.me, c) \in Answer /\ NamesReply(c, f) \in Answer
      BY <1>1, <2>2, EventIsAnswer, NamesReplyIsAnswer
    <3>2. QED BY <3>1
  <2>4. Stories(wire, server.nick, channel, net.me, net.members, sent)
    BY DEF Shows, StoriesSound
  <2>5. Stories(wire \o msgs, server.nick, channel, net.me, net.members, sent)
    BY <1>1, <2>2, <2>4, StoriesJoin
  <2> HIDE DEF msgs
  <2>6. net.me # NoNick BY <2>2
  <2>7. LinkSound' BY <1>1, <2>1, <2>3, <2>6, TellLink DEF Shows
  <2>8. ListsSound' /\ NetSound' BY <2>1 DEF Shows, ListsSound, NetSound, In
  <2>9. StoriesSound' BY <2>1, <2>5 DEF StoriesSound
  <2>10. QED BY <2>7, <2>8, <2>9 DEF Shows
<1>5. ASSUME NEW b \in BOOLEAN, NetKicksMe(c, b) PROVE Shows'
  <2> DEFINE m == Event("KICK", net.me, c)
  <2>1. In(c) /\ Tell(<<m>>) BY <1>5 DEF NetKicksMe
  <2>2. net'.me = net.me /\ net'.members = [net.members EXCEPT ![c] = NoNicks]
    BY <1>1, <1>5 DEF NetKicksMe, NetData
  <2>3. m \in Answer /\ m.type = "KICK" /\ m.chan = c
    BY <1>3, <2>1, EventIsAnswer DEF Event
  <2>4. Moves(c, net.me, net.members[c], m, NoNicks) BY MovesLeaveMe
  <2> HIDE DEF m
  <2>5. QED BY <1>2, <2>1, <2>2, <2>3, <2>4
<1>6. ASSUME NEW n \in Name, NetJoin(n, c) PROVE Shows'
  <2> DEFINE m == Event("JOIN", n, c)
             f == Put(net.members[c], [x \in {n} |-> {}])
  <2>1. In(c) /\ n \notin DOMAIN net.members[c] /\ Tell(<<m>>)
        /\ net' = [net EXCEPT !.members = [net.members EXCEPT ![c] = f]]
    BY <1>6 DEF NetJoin
  <2>2. net'.me = net.me /\ net'.members = [net.members EXCEPT ![c] = f]
    BY <1>1, <2>1 DEF NetData
  <2>3. m \in Answer /\ m.type = "JOIN" /\ m.chan = c BY EventIsAnswer DEF Event
  <2>4. n # net.me /\ net.members[c] # NoNicks BY <1>3, <2>1, NoNicksFacts
  <2>5. Moves(c, net.me, net.members[c], m, f) BY <1>1, <2>4, MovesJoin
  <2>6. net.me \in DOMAIN f BY <1>3, <2>1 DEF Put
  <2> HIDE DEF m, f
  <2>7. QED BY <1>2, <2>1, <2>2, <2>3, <2>5, <2>6
<1>7. ASSUME NEW n \in Name, NEW type \in {"PART", "KICK"}, NetLeave(n, c, type)
      PROVE  Shows'
  <2> DEFINE m == Event(type, n, c)
             f == Without(net.members[c], n)
  <2>1. In(c) /\ n # net.me /\ Tell(<<m>>)
        /\ net' = [net EXCEPT !.members = [net.members EXCEPT ![c] = f]]
    BY <1>7 DEF NetLeave
  <2>2. net'.me = net.me /\ net'.members = [net.members EXCEPT ![c] = f]
    BY <1>1, <2>1 DEF NetData
  <2>3. m \in Answer /\ m.type \in {"PART", "KICK"} /\ m.chan = c
    BY EventIsAnswer DEF Event
  <2>4. Moves(c, net.me, net.members[c], m, f) BY <2>1, MovesLeave
  <2>5. net.me \in DOMAIN f BY <1>3, <2>1 DEF Without
  <2> HIDE DEF m, f
  <2>6. QED BY <1>2, <2>1, <2>2, <2>3, <2>4, <2>5
<1>8. ASSUME NEW n \in Name, NEW set \in BOOLEAN, NEW mode \in Mode, NetMode(n, c, set, mode)
      PROVE  Shows'
  <2> DEFINE m == [type |-> "MODE", who |-> n, chan |-> c, set |-> set, mode |-> mode]
             f == Put(net.members[c],
                      [x \in {n} |-> IF set THEN net.members[c][n] \cup {mode}
                                     ELSE net.members[c][n] \ {mode}])
  <2>1. In(c) /\ n \in DOMAIN net.members[c] /\ Tell(<<m>>)
        /\ net' = [net EXCEPT !.members = [net.members EXCEPT ![c] = f]]
    BY <1>8 DEF NetMode
  <2>2. net'.me = net.me /\ net'.members = [net.members EXCEPT ![c] = f]
    BY <1>1, <2>1 DEF NetData
  <2>3. m \in Answer /\ m.type = "MODE" /\ m.chan = c BY DEF Answer
  <2>4. Moves(c, net.me, net.members[c], m, f)
    <3>1. Moves(c, net.me, net.members[c], ModeOf(n, c, set, mode),
                WithMode(net.members[c], n, set, mode))
      BY <2>1, MovesMode
    <3>2. m = ModeOf(n, c, set, mode) BY DEF ModeOf
    <3>3. f = WithMode(net.members[c], n, set, mode) BY DEF WithMode
    <3> HIDE DEF m, f
    <3>4. QED BY <3>1, <3>2, <3>3
  <2>5. net.me \in DOMAIN f BY <1>3, <2>1 DEF Put
  <2> HIDE DEF m, f
  <2>6. QED BY <1>2, <2>1, <2>2, <2>3, <2>4, <2>5
<1>9. QED BY <1>4, <1>5, <1>6, <1>7, <1>8

-----------------------------------------------------------------------------
(***************************************************************************)
(* Nicks of the network, and the invariant.                                *)
(***************************************************************************)
LEMMA NickEventsShow ==
  ASSUME Parts, Shows, net.me # NoNick, UNCHANGED <<server, channel, sent>>
  PROVE  /\ NetKillsMe => Shows'
         /\ \A n, m \in Name : NetNick(n, m) => Shows'
         /\ \A n \in Name, type \in {"QUIT", "KILL"} : NetQuit(n, type) => Shows'
<1>1. net \in NetData /\ net.me \in Name BY PartsFacts DEF NetData
<1>2. ASSUME NEW m \in Answer, Tell(<<m>>),
             net'.me # NoNick => net'.me = NickAfter(net.me, m),
             \A c \in Channel : Moves(c, net.me, net.members[c], m, net'.members[c]),
             NetSound'
      PROVE  Shows'
  <2>1. /\ ListsSound' /\ LinkSound'
        /\ Stories(wire', server'.nick, channel', net'.me, net'.members, sent)
    BY <1>2, TellStories
  <2>2. StoriesSound' BY <2>1 DEF StoriesSound
  <2>3. QED BY <1>2, <2>1, <2>2 DEF Shows
<1>3. ASSUME NetKillsMe PROVE Shows'
  <2> DEFINE k == [type |-> "KILL", who |-> net.me]
  <2>1. net' = [Away EXCEPT !.links = Away.links + 1] /\ Tell(<<k>>)
    BY <1>3 DEF NetKillsMe
  <2>2. net'.me = NoNick /\ \A c \in Channel : net'.members[c] = NoNicks
    BY <1>1, <2>1, AwayIsNowhere
  <2>3. k \in Answer BY <1>1 DEF Answer
  <2>4. \A c \in Channel : Moves(c, net.me, net.members[c], k, NoNicks) BY MovesKillMe
  <2> HIDE DEF k
  <2>5. NetSound' BY <2>2 DEF NetSound
  <2>6. \A c \in Channel : Moves(c, net.me, net.members[c], k, net'.members[c])
    BY <2>2, <2>4
  <2>7. QED BY <1>2, <2>1, <2>2, <2>3, <2>5, <2>6
<1>4. ASSUME NEW n \in Name, NEW m \in Name, NetNick(n, m) PROVE Shows'
  <2> DEFINE k == [type |-> "NICK", who |-> n, new |-> m]
             members == [c \in Channel |->
                           IF n \in DOMAIN net.members[c] THEN Rename(net.members[c], n, m)
                           ELSE net.members[c]]
             me == IF n = net.me THEN m ELSE net.me
  <2>1. /\ net' = [net EXCEPT !.me = me, !.members = members]
        /\ m \notin Visible /\ Tell(<<k>>)
    BY <1>4 DEF NetNick
  <2>2. \A c \in Channel : m \notin DOMAIN net.members[c] BY <2>1 DEF Visible
  <2>3. \A c \in Channel : members[c] = Renamed(net.members[c], n, m) BY DEF Renamed
  <2>4. k \in Answer BY DEF Answer
  <2>5. me = NickAfter(net.me, k) BY DEF NickAfter
  <2>6. \A c \in Channel : Moves(c, net.me, net.members[c], k, Renamed(net.members[c], n, m))
    BY <2>2, MovesNick
  <2>7. me = IF n = net.me THEN m ELSE net.me OBVIOUS
  <2> HIDE DEF k, members, me
  <2>8. net'.me = me /\ net'.members = members BY <1>1, <2>1 DEF NetData
  <2>9. NetSound'
    <3>1. SUFFICES ASSUME NEW c \in Channel, net'.members[c] # NoNicks
                   PROVE  net'.me \in DOMAIN net'.members[c]
      BY DEF NetSound, In
    <3>2. net'.members[c] = Renamed(net.members[c], n, m) BY <2>3, <2>8
    <3>3. net.members[c] # NoNicks BY <3>1, <3>2, NoNicksFacts DEF Renamed
    <3>4. net.me \in DOMAIN net.members[c] BY <3>3 DEF Shows, NetSound, In
    <3>5. QED BY <2>7, <2>8, <3>2, <3>4 DEF Renamed, Rename
  <2>10. QED BY <1>2, <2>1, <2>3, <2>4, <2>5, <2>6, <2>8, <2>9
<1>5. ASSUME NEW n \in Name, NEW type \in {"QUIT", "KILL"}, NetQuit(n, type) PROVE Shows'
  <2> DEFINE k == [type |-> type, who |-> n]
             members == [c \in Channel |-> Without(net.members[c], n)]
  <2>1. net' = [net EXCEPT !.members = members] /\ Tell(<<k>>) /\ n # net.me
    BY <1>5 DEF NetQuit
  <2>2. \A c \in Channel : members[c] = Without(net.members[c], n) OBVIOUS
  <2>3. k \in Answer BY DEF Answer
  <2>4. net.me = NickAfter(net.me, k) BY DEF NickAfter
  <2>5. \A c \in Channel : Moves(c, net.me, net.members[c], k, Without(net.members[c], n))
    BY <2>1, MovesQuit
  <2> HIDE DEF k, members
  <2>6. net'.me = net.me /\ net'.members = members BY <1>1, <2>1 DEF NetData
  <2>7. NetSound'
    <3>1. SUFFICES ASSUME NEW c \in Channel, net'.members[c] # NoNicks
                   PROVE  net'.me \in DOMAIN net'.members[c]
      BY DEF NetSound, In
    <3>2. net'.members[c] = Without(net.members[c], n) BY <2>2, <2>6
    <3>3. net.members[c] # NoNicks
      <4>1. NoNicks \in Nicks /\ n \notin DOMAIN NoNicks BY NoNicksFacts
      <4>2. Without(NoNicks, n) = NoNicks BY <4>1, WithoutAbsent
      <4>3. QED BY <3>1, <3>2, <4>2
    <3>4. net.me \in DOMAIN net.members[c] BY <3>3 DEF Shows, NetSound, In
    <3>5. QED BY <2>1, <2>6, <3>2, <3>4 DEF Without
  <2>8. QED BY <1>2, <2>1, <2>2, <2>3, <2>4, <2>5, <2>6, <2>7
<1>6. QED BY <1>3, <1>4, <1>5

LEMMA OthersShows == Parts /\ Shows /\ Others => Shows'
<1> SUFFICES ASSUME Parts, Shows, Others PROVE Shows' OBVIOUS
<1>1. UNCHANGED <<server, channel, timer, sent>> /\ net.me # NoNick
  BY DEF Others, NetMayAct
<1>2. CASE NetKillsMe BY <1>1, <1>2, NickEventsShow
<1>3. CASE \E c \in Channel : BouncerJoins(c) \/ \E b \in BOOLEAN : NetKicksMe(c, b)
  BY <1>1, <1>3, ChannelEventsShow
<1>4. ASSUME NEW n \in Name, NEW c \in Channel,
             \/ NetJoin(n, c)
             \/ \E type \in {"PART", "KICK"} : NetLeave(n, c, type)
             \/ \E set \in BOOLEAN, mode \in Mode : NetMode(n, c, set, mode)
      PROVE  Shows'
  BY <1>1, <1>4, ChannelEventsShow
<1>5. CASE \E n, m \in Name : NetNick(n, m) BY <1>1, <1>5, NickEventsShow
<1>6. CASE \E n \in Name, type \in {"QUIT", "KILL"} : NetQuit(n, type)
  BY <1>1, <1>6, NickEventsShow
<1>7. QED BY <1>2, <1>3, <1>4, <1>5, <1>6 DEF Others
-----------------------------------------------------------------------------
LEMMA InitShows == Init => Shows
<1> SUFFICES ASSUME Init PROVE Shows OBVIOUS
<1>1. \A c \in Channel : channel[c] = Closed BY DEF Init
<1>2. \A c \in Channel : net.members[c] = NoNicks BY DEF Init
<1>3. /\ server.nick = NoNick /\ server.link = "off" /\ net.me = NoNick
      /\ wire = <<>> /\ sent = <<>>
  BY DEF Init
<1>4. \A c \in Channel : channel[c].nicks = NoNicks /\ ListsNicks(channel[c])
  BY <1>1, ClosedLists
<1>5. ListsSound BY <1>4 DEF ListsSound
<1>6. NetSound BY <1>2 DEF NetSound
<1>7. LinkSound BY <1>3, <1>4 DEF LinkSound
<1>8. Stories(<<>>, NoNick, channel, NoNick, net.members, <<>>)
  BY <1>2, <1>4, StoriesNothing DEF Nick
<1>9. StoriesSound BY <1>3, <1>8 DEF StoriesSound
<1>10. QED BY <1>5, <1>6, <1>7, <1>9 DEF Shows

LEMMA NextShows == Parts /\ Shows /\ [Next]_vars => Shows'
<1>1. ASSUME Shows, UNCHANGED vars PROVE Shows'
  BY <1>1 DEF Shows, ListsSound, NetSound, In, LinkSound, Connected, StoriesSound, vars
<1>2. QED BY <1>1, ClientReadsShows, TimersShows, LinkShows, UserShows, NetReadsShows,
             OthersShows
          DEF Next

LEMMA ShowsIsShown == Shows => ShowsNetwork
<1> SUFFICES ASSUME Shows PROVE ShowsNetwork OBVIOUS
<1>1. \A c \in Channel : channel[c].nicklist = Entries(channel[c].nicks)
  BY DEF Shows, ListsSound, ListsNicks
<1>2. ASSUME wire = <<>>, sent = <<>>, net.me # NoNick
      PROVE  server.nick = net.me /\ \A c \in Channel : Follows(channel[c].nicks, net.members[c])
  <2>1. Stories(<<>>, server.nick, channel, net.me, net.members, <<>>)
    BY <1>2 DEF Shows, StoriesSound
  <2>2. QED BY <1>2, <2>1, StoriesEnd
<1>3. ASSUME ~Connected, NEW c \in Channel
      PROVE  channel[c].nicks = NoNicks /\ channel[c].nicklist = {}
  BY <1>1, <1>3, EntriesNone DEF Shows, LinkSound
<1>4. QED BY <1>1, <1>2, <1>3 DEF ShowsNetwork, Follows
-----------------------------------------------------------------------------
(***************************************************************************)
(* The inductive invariant of irc-channel.c, irc-nick.c and the handlers   *)
(* that change channels.                                                   *)
(***************************************************************************)
THEOREM ChannelInvariant == Spec => []IInv
<1>1. Spec => []Parts BY InitParts, NextParts, PTL DEF Spec
<1>2. Parts => IInv BY IInvIsParts
<1>3. QED BY <1>1, <1>2, PTL

(***************************************************************************)
(* Nicks are names with modes, the groups of a nicklist are those that     *)
(* irc_nick_get_nicklist_group() may find, messages name channels.         *)
(***************************************************************************)
THEOREM TypeCorrect == Spec => []TypeOK
<1>1. IInv => TypeOK BY DEF IInv
<1>2. QED BY <1>1, ChannelInvariant, PTL

(***************************************************************************)
(* hook_autorejoin never points to a timer that fired or that is another   *)
(* channel's, though irc_protocol_cb_kick() overwrites it while one is     *)
(* pending, and memory of freed channels is given again.                   *)
(***************************************************************************)
THEOREM TimersArePending == Spec => []TimerPending
<1>1. IInv => TimerPending BY DEF IInv
<1>2. QED BY <1>1, ChannelInvariant, PTL

(***************************************************************************)
(* A channel in which the client knows itself to be is one that            *)
(* irc_server_autojoin_channels() joins again after the link is lost.      *)
(***************************************************************************)
THEOREM JoinedChannelsRejoin == Spec => []JoinedIsRejoined
<1>1. IInv => JoinedIsRejoined BY DEF IInv
<1>2. QED BY <1>1, ChannelInvariant, PTL

(***************************************************************************)
(* The inductive invariant of what the client shows: its nick and the nicks*)
(* of each channel, once the handlers of irc-protocol.c have read what is  *)
(* under way, are those of the network; nicklists hold their nicks; without*)
(* a link nobody is shown.                                                 *)
(***************************************************************************)
THEOREM StoriesHold == Spec => [](IInv /\ Shows)
<1>1. Init => Parts /\ Shows BY InitParts, InitShows
<1>2. Parts /\ Shows /\ [Next]_vars => (Parts /\ Shows)' BY NextParts, NextShows
<1>3. Spec => [](Parts /\ Shows) BY <1>1, <1>2, PTL DEF Spec
<1>4. Parts => IInv BY IInvIsParts
<1>5. QED BY <1>3, <1>4, PTL

(***************************************************************************)
(* With nothing under way the client shows what the network has: its nick, *)
(* who is in each channel, their modes, the groups of the nicklist, through*)
(* joins, kicks, PARTs of a closed buffer, new nicks and KILLs that cross  *)
(* its own messages; irc_server_disconnect() leaves nobody shown.          *)
(***************************************************************************)
THEOREM ChannelsShowNetwork == Spec => []ShowsNetwork
<1>1. Shows => ShowsNetwork BY ShowsIsShown
<1>2. QED BY <1>1, StoriesHold, PTL
=============================================================================
