# A verification project for WhoreIRC

WhoreIRC is an extensible IRC client written in C (a fork of WeeChat): a core
that keeps lists of hooks and runs them from one event loop, a GUI of buffers
and windows, and plugins (irc, relay, xfer, logger, exec, trigger, scripts...)
that do everything else through hooks.

This directory holds TLA+ models of parts of it, the TLC configurations that
check them, and proofs checked by TLAPS. Source paths below are relative to the
root of the repository; `irc-server.c` stands for
`src/plugins/irc/irc-server.c`, `wee-hook.c` for `src/core/wee-hook.c`, and so
on. `PROJECT.json` maps each definition to the lines it models.

| module | what it is |
|---|---|
| `HookList` | the sorted linked list of one type of hooks, as operators on sequences |
| `Hooks` | registration, removal and nested walks of the hooks |
| `Hooks_proofs` | theorems about `Hooks` |
| `MCHooks` | instances for TLC |
| `IrcServer` | the life of the connection to one IRC server |
| `IrcServer_proofs` | theorems about `IrcServer`: the link; the rounds of addresses |
| `MCIrcServer` | instances for TLC |
| `MessageFifo` | what the sending of messages promises (abstract) |
| `IrcOutqueue` | the sending of messages, anti-flood queues and their timer |
| `IrcOutqueue_proofs` | theorems about `IrcOutqueue`, and that it implements `MessageFifo` |
| `MCIrcOutqueue` | instances for TLC |
| `IrcRedirect` | the redirections: which message received answers which command |
| `IrcRedirect_proofs`, `MCIrcRedirect` | theorems, instances |
| `ProcessOutput` | what `hook_process()` promises to the callback (abstract) |
| `HookProcess` | the commands run in the background, their pipes, timers and ends |
| `HookProcess_proofs`, `MCHookProcess` | theorems, and that it implements `ProcessOutput`; instances |
| `HookConnect` | the connection to a peer by a child, the socket passed, the TLS handshake |
| `HookConnect_proofs`, `MCHookConnect` | theorems, instances |
| `GuiBuffers` | the list of buffers, their numbers and merges |
| `GuiBuffers_proofs`, `MCGuiBuffers` | theorems, instances |
| `IrcChannel` | the channels of a server, their nicks and modes, and the network they come from |
| `IrcChannel_proofs`, `MCIrcChannel` | theorems, instances |

## 1. The system

### 1.1 How it runs

There is one thread. `gui_main_loop()` (`src/gui/curses/gui-curses-main.c:448`)
turns for ever: `hook_timer_exec()`, the refreshes of the screen,
`hook_fd_exec()` (which is where it waits, in `poll()`), `hook_process_exec()`.
Everything the client does happens in a callback called from there. So there
are no data races; what makes the program hard is:

- **re-entrance**: a callback can add and remove hooks (its own included), send
  signals and run commands, which walk the same lists again, from the inside;
- **order**: timers, descriptors and commands of the user interleave between
  callbacks in any order, and one chunk of data may carry several messages, the
  first of which ends the connection the others belong to;
- **failure**: name resolution, connection, TLS, login and SASL fail at each
  step, at once or after a timeout, with or without another address to try;
- **forked children** (`hook_process`, `hook_connect`, DCC) that answer by a
  pipe, or never;
- **replacement of the process** by `/upgrade`, which keeps the sockets and
  loses what is not saved.

### 1.2 The components

State, operations, interactions and what would make each correct. The list is
that of `PROJECT.json`; the last column is where it stands.

| component | state | operations | talks to | correct when | status |
|---|---|---|---|---|---|
| hooks (`wee-hook.c`, `core/hook/`) | one sorted list for each type; `hook_exec_recursion`, `real_delete_pending`; `deleted` and `running` of each hook | `hook_*()`, `unhook()`, `hook_*_exec()/send()`, `hook_exec_start/end()`, `hook_remove_deleted()` | called by everything, calls everything | no walk touches a freed hook; each walk sees each hook once; timers keep their limits; what is unhooked is freed | modelled, in part |
| IRC server connection (`irc-server.c`) | `struct t_irc_server`: socket, connection hook, timers, retries, capabilities | `irc_server_connect/connect_cb/login/disconnect/switch_address/...`, timers | hook connect, hook fd, timers, `irc-protocol.c`, commands | one attempt at a time; never silent for ever; nothing of one connection leaks in the next | modelled, in part |
| IRC anti-flood queues (`irc-server.c`) | `outqueue[]`, `last_user_message` | `irc_server_send_one_msg`, `irc_server_outqueue_*`, the timer | signals `irc_out`, `irc_outtags` | order within a priority; delay between messages; no starvation for ever | modelled, in part |
| other hooks (completion, config, focus, hdata, modifier...) | as the hooks | as the hooks | | as the hooks | walks as in `Hooks` |
| hook process | child, pipes, buffers, two timers | fork, read, timeout, kill | timers, fd | exactly one final callback, after all the output; child waited for once | modelled, in part |
| hook connect, network | child, pipe, passed descriptor, TLS handshake, timer | connect, answer, handshake | fd, timers, IRC server, relay, xfer | exactly one answer, and every socket has an owner | modelled, in part |
| lists, hash tables, strings, UTF-8, URL, eval | data | pure operations | | covered by unit tests | not modelled |
| configuration, secured data | files, sections, options | read, write, set | all | a crash never loses the old file | planned (writing) |
| upgrade | a file of infolists | save, load | core, gui, irc, relay, xfer | what survives is coherent | /upgrade of the server in `IrcServer`; rest planned |
| commands, input, completion, infolist, hdata, log | text | parsing, views | | | not modelled |
| buffers, hotlist, lines, filters | linked lists, numbers, shared lines | open, close, merge, move, hide, zoom, layout | windows, plugins | numbers in order; one active buffer of a number; no pointer to freed lines; hotlist points to live buffers | buffers modelled, in part; hotlist, filters planned |
| windows, bars, layout | tree of windows | split, merge, zoom | buffers | the tree is well formed | planned |
| keys, mouse, cursor, chat, nicklist, colors, curses | | input decoding, drawing | terminal | | not modelled: I/O |
| plugin loader, script API | list of plugins | load, unload | hooks, gui, config | unload leaves nothing behind | planned |
| IRC protocol | none of its own | some 80 handlers of messages | server, channels | | the handlers that move a connection are in `IrcServer`, those that change channels in `IrcChannel`; the rest displays |
| IRC channels, nicks, modes | lists for each server | JOIN, PART, KICK, NICK, QUIT, MODE, NAMES; autojoin, autorejoin | protocol, gui | what is shown follows the network; what was not left is joined again | modelled, in part |
| IRC notify | a list for each server | ISON, MONITOR, WHOIS | redirect, protocol | | planned |
| IRC redirect | list of redirections | create, match, timeout | queues, protocol | each answer goes to its question; every question ends | modelled, in part |
| CTCP, ignore, SASL, messages, colors, commands, config, bar items | text | parsing | | | not modelled |
| relay | clients, servers, out queues | accept, auth, receive, send | fd, irc | bytes in order; clients counted | planned |
| xfer | transfers, children | accept, resume, ack, abort | fd, fork, timers | file complete or failed | planned |
| exec | commands over hook process | run, signal, end | hook process | | planned with it |
| logger, trigger, buflist, fset, fifo, alias, spell, charset, script, language bindings | | | core | | not modelled: views, text, generated-like wrappers |

Why the ones that stay out stay out: they are pure functions on text that unit
tests reach well (`tests/unit`), drawing, wrappers repeated for each language, or
cryptography of a library. They hold no protocol whose interleavings a model
checker would explore.

### 1.3 What is hard to test

`PROJECT.json` lists the hazards at their lines, with the properties that would
catch them going wrong. In short:

- hooks: a hook or the next one freed under a walk; hooks added before, after and
  between; walks within walks; timers called more often than asked;
- connection: every order of failures, timeouts, commands and due timers; a
  refusal in the middle of a round of addresses; an answer before
  `hook_connect()` returns; `/connect` during a login; messages after `ERROR` in
  one chunk; state of the previous connection; `/upgrade` during a login;
- queues: handlers that send while a message is between its decision and its
  write, over the static buffer that holds it; the head of a queue read again after
  callbacks; a clock set back;
- redirections: two queues that overtake each other, answers later than the
  timeout, commands that vanish between the announcement and the server;
- background commands: their end seen before their last output, output of two
  streams that share a callback, a callback that hooks again under the walk, forks
  that fail half-way, two timers and a descriptor that answer for the same hook;
- channels: messages of the network that cross those of the client; a nick found in
  its nicklist by modes that change; timers of autorejoin that lose their pointer;
- buffers: long sequences of moves, merges, zooms and layouts, whose linked list,
  numbers, active flags, shared lines and counts are changed by different functions.

Known to be hard and not modelled, each with the reason:

| where | what | why not |
|---|---|---|
| `wee-hook-process.c:386` | a callback removes the hook of its own process, whose data is then used | no state follows a use after free |
| `wee-hook-process.c:839` | the pid of a child already waited for is killed again when its hook is freed | needs the reuse of process numbers by the system |
| `wee-hook-process.c:736` | a timeout of 150 ms ends after 100 | timers carry no clock here |
| `irc-server.c:2409`, `:2414` | a handler of irc_out closes the connection; the answer of `send()` is ignored | the head read again is then NULL; the loss is part of `MessageFifo` |
| `irc-server.c:2571` | the redirection is chosen before the handlers of irc_out run, which may send | `IrcRedirect` uses the promise of the queues, with no handler inside a send |
| `irc-server.c:666` | the addresses change with `/set` while an index in the old list is kept | addresses are a constant |
| `irc-server.c:3598` | the TLS session of a pending connection is never freed | memory only |
| `wee-hook-fd.c:251` | a callback closes a descriptor and the system gives the number again | planned (`HookFd`) |
| `wee-network.c:1475` | `recvmsg()` without limit of time, with no pool | it is in `HookConnect` as the exception of `Answered` |
| `wee-network.c:1264` | the timer of the child, or the owner, ends a handshake: its socket is lost | it is in `HookConnect` as the exceptions of `SocketsOwned` |
| `irc-server.c:3847` | the server is told OK with socket -1 (`HookConnect` says when) and logs in on it, until its timer ends the login | `IrcServer` takes OK with a socket only |
| `irc-command.c:5493` | `/server deloutq` deletes a command and leaves its redirection, which has no timeout yet | it is in `IrcRedirect`; `Ends` is stated without it |
| `irc-command.c:1756` | `/cycle` where the client is not, or cut by a kick, leaves `cycle` set: a later `/part` joins again | it is in `IrcChannel`; nothing says how long the flag should last |
| `irc-channel.c:1298` | a timer of autorejoin whose pointer was overwritten rejoins a channel left since, or too early | the same |
| `irc-server.c:3569` | `command_time` is not reset when a connection ends before its delay: the next one, once up, autojoins too early, or twice | the same |
| `irc-protocol.c:6118` | the SASL timer races the end of the authentication | `MCIrcServer_sasl.cfg` below |
| `gui-line.c:1790` | merging into a zoomed group drops lines | what lines hold is left out |
| `gui-hotlist.c:454` | re-sorting the hotlist | planned with the hotlist |

## 2. Plan

Order of work, most important first. A line marked + is on disk.

1. + `Hooks` with `HookList`: everything else runs inside its walks.
2. + `IrcServer`: the core of an IRC client.
3. + `MessageFifo` (abstract) and `IrcOutqueue`, which implements it.
4. + `IrcRedirect`, on the promise of the queues.
5. + `ProcessOutput` (abstract) and `HookProcess`, which implements it.
6. + `HookConnect`: the child, its pipe, its socket and its timers.
7. + `GuiBuffers`: numbers, merges, zoom, layout.
8. `HookConnect` composed with `IrcServer`, in place of the answers that
   `IrcServer` now takes from the outside; `IrcRedirect` with `IrcOutqueue`.
9. An abstract specification of the life of a connection (wanted, trying, up,
   waiting), that `IrcServer` implements.
10. + `IrcChannel`: who is in a channel, nicks, modes, rejoining. Then its composition
    with `IrcServer`, whose link it reduces, the notify list, and `HookFd` (the poll array rebuilt
    while callbacks hook and unhook descriptors).
11. The hotlist and the windows; `RelayClient`, `XferDcc`, `ConfigFile` (writing
    over a crash), `Upgrade`, `PluginLoader`.

The project keeps a dozen runs at most, so that all can be replayed in minutes.

Each component on disk has its proofs; those to come are of the modules of points 8 to
11.

## 3. Hooks

### 3.1 Correspondence

The doubly linked list of a type is a sequence of addresses (`HookList`):
`NextHook` is `next_hook`, `FindPos` is the search of `hook_find_pos()`, which
ignores the hooks marked deleted, `InsertNode` and `RemoveNode` are
`hook_add_to_list()` and `hook_remove_from_list()`. Addresses are a finite set and
are reused once freed, as `malloc()` does.

What the search compares is `Precedes` of `Hooks`: for commands the name, and the
priority only under the same name (two plugins may hook one command); for the
other types the priority. A name is a number, its rank in the order of
`string_strcasecmp()`; `AnyName` stands in the field of the hooks that have none.

In `Hooks` the C stack is explicit: `stack` is a sequence of walks, each with the
loop's two pointers (`ptr`, `next`), whether its callback is running, and two
history fields. `Outside` says that code outside the file is running, the main
loop or a callback; only then may hooks be added or removed and walks begin.

| code | action or operator |
|---|---|
| `hook_init_data()`, `hook_add_to_list()` | `AddHook` |
| `unhook()` | `Unhook`, `FreeOrMark` (freed at once if `hook_exec_recursion` is 0, else marked) |
| `hook_exec_start()`, first turn of a loop | `Exec` |
| body of a loop | `Skip`, `Call`, `Return` |
| the end of a timer's callback: `remaining_calls`, last call | `Return` with `CountCall`, `LastCall` |
| `hook_exec_end()`, `hook_remove_deleted()` | `Finish`, `ExecEnd`, `PurgeOne`, `PurgeEnd` |
| `hook_command_exec()`, `hook_command_run_exec()` | `ExecCommand` (a walk that does not call `hook_exec_start()`), `CommandFound`, `CommandNotFound`, `CommandReturn` |

The type "signal" stands for the walks stopped by an answer, "info" for those
that end after the first hook called, "timer" also for those that call every
match. Whether a hook matches (name, mask, time) is a free choice between `Skip`
and `Call`. `TopLevelCommands` tells whether a command may run outside every
callback.

Left out: the text of commands and completion, infolists, the clock of the
timers (any timer may be due at any time), and unhooking all hooks of a plugin
(it is a sequence of `Unhook`).

### 3.2 Runs

**hooks_nested** (about 1,190,000 states). Three addresses, timers, commands and
command_run, two names of commands (`CommandNames`), two priorities, timers with two calls or without end, walks nested
three deep, commands running in a callback. Three hooks are enough for the
hazards of a list: one the walk is at, the one it saved, and one added or removed
around them; three walks are a walk, the one inside, and a command inside that.
Two names and two priorities tell the order of commands from that of the rest, and
the order within one name from that between two.
Symmetry over the addresses is sound: no step prefers one. The properties:

- `NoDanglingWalk`: no walk holds a freed pointer;
- `WalkIsExact`: a walk looks once at each hook that stays, in the order due to its
  list (`HooksAreSorted`: commands by name, then priority; the others by priority),
  whatever is added or removed meanwhile;
- `TimerWithinLimit`: a timer asked for N calls gets at most N, even when a walk
  over the timers runs in its own callback;
- `NothingLeftDeleted`: once no walk is active, what was unhooked is freed.

`MCHooks_toplevel.cfg` is not among the runs; TLC finds `NoDanglingWalk` violated
under it. The walk over the
command_run hooks has no protection of its own. Inside another walk that one
protects it (which the run above shows and the theorem proves). In a command run
outside every callback, such as those given with `--run-command`
(`command_startup()`, `wee-command.c:8302`), a callback that unhooks its own hook
frees it under the loop (`wee-hook-command-run.c:138`).

### 3.3 Proofs (`Hooks_proofs`)

For any sets of addresses, types and priorities and any depth, assuming
`~TopLevelCommands` (with it the property is false, as above):

- `IInvIsInvariant`: the inductive invariant `IInv`, five named parts.
  `NoDanglingWalk` alone is not inductive: a walk is safe because hooks are only
  marked while it runs, that is, while `hook_exec_recursion` is positive. So
  `RecursionCountsWalks` says that the counter is the number of walks that
  announced themselves, `OutermostIsGuarded` that there is one whenever there is
  a walk, and `FreedInTime` that marked hooks are freed only when there is none;
- `TypeCorrect`, `NoWalkDangles`, `DeletedAreFreed` follow from it.
- `WalkInvariant`: `WalkInv`, which is `IInv` with `Courses`, what holds of the lists and
  of the walks over them. The lists have no duplicates and are in the order of
  `hook_find_pos()` (`Lists`, `InOrder`); a walk has looked at hooks before the one it is at, and the
  hook it saved comes after those and before all that remain, whatever was inserted or
  removed around it (`Ahead`, `OnCourse`); a call of a timer is in progress in at
  most one walk, because the hook is marked as running, so that the calls counted,
  those in progress and those that remain make up the limit (`CallsCounted`,
  `TimersCounted`). TLC checked `WalkInv` on the instance of hooks_nested before it was
  proved.
- `WalksAreExact` (`WalkIsExact`) and `TimersKeepTheirLimit` (`TimerWithinLimit`)
  follow from it. Both are false of a walk that frees what it stands on, hence the
  same hypothesis.

The lemmas say what insertion and removal do to a list and to the order of what is
in it (`Before`, in `HookList`), and what pushing, popping or replacing the top of
the stack does to the counter, to the course of a walk and to the calls counted;
there is one lemma for each action and each invariant.

## 4. The connection to a server

### 4.1 Correspondence

`server` is `struct t_irc_server`, as a record of the fields that decide
anything: connection hook, socket (`sock` and `hook_fd`, set and reset together),
the connection and SASL timers, `is_connected`, TLS, capabilities, the
reconnection and its delay, the current address, its retry count and those put
aside, the lag check. The functions of `irc-server.c` are operators on it
(`CloseConnection`, `ReconnectSchedule`, `SetIndex`, `NextAddress`,
`SwitchAddress`, `Disconnect`, `Connects`, `Login`); a function that may end in
several ways returns a set of servers. Each handler is an action that composes
them as the code does:

| code | action |
|---|---|
| `irc_server_auto_connect_timer_cb()` | `AutoConnect` |
| `/connect`, `/disconnect`, `/reconnect`, closing the buffer | `UserConnect`, `UserDisconnect`, `UserReconnect`, `BufferClose` |
| `irc_server_connect_cb()` | `ConnectOk`, `ConnectFails` |
| `irc_server_recv_cb()` | `Receive`: messages read, or the connection lost, or both |
| `irc_server_msgq_flush()` and `irc-protocol.c` | `HandleMessage`: 001, ERROR, CAP LS/LIST/ACK/NEW/DEL, SASL numerics, PONG, any other |
| `irc_server_timer_connection_cb()`, `irc_server_timer_sasl_cb()`, `irc_server_timer_cb()` | `TimerConnection`, `TimerSasl`, `TimerReconnect`, `TimerLag` |
| `/upgrade` (`irc.c`, `irc-upgrade.c`) | `Upgrade` |

`Upgrade` resets what `irc-upgrade.c` does not restore, the flags of a list of
capabilities being read among them: what is left of such a list then replaces its
start. The history fields `offered` and `acked` read it the same way, so that
`CapListIsCurrent` is about what one connection leaves to the next, not about that.

`msgq` counts the messages of a chunk left to handle; commands (of callbacks of
the messages) may come between two of them. Times are abstracted to whether they
are set: an armed timer may fire whenever the main loop is free, so that every
race of a timer with an answer is explored.

History fields, which no guard reads: `wants` (the user asked for the server and
did not leave it), `offered` and `acked` (what this connection said of
capabilities), `sasl_done`, `fails`.

`Events` selects what happens besides the ordinary: `config_error`
(`irc_server_connect()` refuses), `sync_failure` (`hook_connect()` calls its
callback before it returns), `connect_in_login`, `upgrade`. They are apart
because each of them breaks a property, and the rest of the model should not
hide behind that.

Left out: redirections, autojoin, nicks, away, monitor, titles and texts; a
change of the list of addresses while connected; startup commands run before the
timer of `AutoConnect`; the option values `autoreconnect_delay_max` 0 (no
maximum) or below `autoreconnect_delay`.

### 4.2 Runs

**server_life** (about 111,000 states; without the extra events). Two addresses,
two capabilities ("sasl" and another), chunks of up to two messages, all values
of `sasl_fail`. Two addresses are the fewest with a switch and a wrap; two
messages the fewest for a message handled after the one that ended the
connection; a retry count that saturates at 1 tells "none" from "some".

- `LoginIsTimed`: a login always has its timeout;
- `NeverForgotten`: a wanted server is connected, being connected, in a timed
  login or scheduled. No sequence of failures and switches leaves it alone;
- `CapListIsCurrent`: no capability of an earlier connection remains;
- `KeepsTrying` (liveness): a wanted server is connected or tried again, unless
  the user leaves it.

**server_faults** (about 140,000 states; all the extra events, retries up to 2).
What holds whatever happens: `OneLink` (one attempt at a time; the timers of a
login only with a login; connected only with a socket), `RetriesAreBounded` (each
address keeps its count, which selects its next IP; delays 2, 4, 5: first, grown,
capped).

Five configurations are kept beside the runs, under each of which TLC finds one
property violated; each is the shortest trace of what it names:

| configuration | what happens |
|---|---|
| `MCIrcServer_sasl` (`NoLateSaslTimeout`) | a comment says that the SASL timer is removed when SASL ends (`irc-server.c:3280`); nothing removes it (`irc-protocol.c:6118`), and it can cut a login that had succeeded |
| `_sync_failure` (`NeverForgotten`) | `/connect`, and `hook_connect()` fails at once: its callback schedules a reconnection, which the command then cancels (`irc-command.c:1350`); the freed hook stays in `server->hook_connect` |
| `_connect_in_login` (`CapListIsCurrent`) | `/connect` during a login is accepted (`irc-command.c:1327`) and the new connection starts with the capabilities of the old one |
| `_upgrade_tls` (`TlsHasSession`: a socket read with TLS has a session) | `/upgrade` closes the TLS connections that are up (`irc.c:121`), not those in login: the socket is kept, the session is not |
| `_upgrade_login` (`LoginIsTimed`) | after `/upgrade` a login has no timeout any more (`irc-upgrade.c:391`) |

With `config_error`, `NeverForgotten` fails too: `irc_server_switch_address()`
ignores the answer of `irc_server_connect()` (`irc-server.c:3811`), so a refusal
in the middle of a round schedules nothing. The event is part of server_faults.

### 4.3 Fairness

`KeepsTrying` needs:

- weak fairness of `AutoConnect` and `HandleMessage`: the first timer fires; a
  queue of messages is handled to its end in one call;
- strong fairness of `ConnectAnswer`, `TimerConnection`, `TimerReconnect`. They
  are guarded by `Idle`, which flickers with each chunk of data, so weak fairness
  would say nothing. The code justifies the strong form: `hook_timer_exec()` runs
  first in every turn of the main loop, whatever the descriptors bring, and
  `hook_connect()` arms a timer of its own that answers if the child does not.

There is no fairness on what the server or the user does, nor on `TimerSasl` and
`TimerLag`, which the property does not need.

### 4.4 Proofs (`IrcServer_proofs`)

For any number of addresses, any capabilities, options and bounds:

- `ServerInvariant`: `IInv` says `Good(server)`, that `msgq` is in bounds, and
  that nothing happened before `started`. `Good` has five parts: the type,
  `Sound`, `Timed`, `Remembered`, `Fresh`. They are stated together because they
  need each other: a reconnection is remembered because a closing that clears the
  timers leaves no socket, and `reconnect_start` may be set only when nothing is
  open. `Fresh` is stronger than `CapListIsCurrent`: without a socket the lists
  are empty, otherwise a new connection could not start equal. Each operator has
  a lemma, each handler follows from those of the operators it composes;
- `TypeCorrect`, `LinkIsSound` (`OneLink`, whatever the events);
- `LoginsAreTimed` without `upgrade`; `NothingIsForgotten` with no event but
  `connect_in_login`; `CapabilitiesAreCurrent` without `connect_in_login`. The
  violations above show that `upgrade`, `sync_failure` (and `config_error`) and
  `connect_in_login` cannot be allowed there;
- `RetriesStayBounded` (`RetriesAreBounded`, whatever the events and the delays, also
  when a delay grown once is already above the maximum). The part added to the
  invariant is `Paced`: the counts are kept, wherever they are (`Counted`), and the
  delay is 0 or between the first and the last, never 0 when a reconnection is due
  (`Delayed`). It is not inductive alone: the message 001 resets the delay, and only
  `Sound` says that no reconnection is due while there is a socket to read 001 from.

## 5. Sending messages

### 5.1 Correspondence

`irc_server_send_one_msg()` sends a message at once or queues it; the timer of a
second takes one message from the queues, the high priority first. Both call the
handlers of `irc_out` and `irc_outtags` before they write, and note the time
after. A handler may send again: `calls` is the stack of the sends that are in
their handlers. `buffer` is the static buffer of `irc_server_send_one_msg()`
(`irc-server.c:2461`): the message is formatted in it before the decision and the
handlers, queued as a copy of it, and what is written after the handlers is what it
holds then.

| code | action or operator |
|---|---|
| `irc_server_send_one_msg()`, decision | `Submit` with `FixClock`, `MustQueue`, `OutqueueAdd` |
| ... write, time | `SendDirect`: writes `buffer`, notes the time by its own priority (not if the write fails) |
| `irc_server_timer_cb()`, `irc_server_outqueue_send()` | `TimerSend`, `TakesFrom`; `SendQueued` (the answer of `send()` is ignored) |
| `irc_server_outqueue_free_all()`, called at disconnection and by `/server deloutq` | `Disconnect`, `DeleteQueues` |

A message is the number of its issue. `NoPrio` is the priority of the messages that
are never queued (those of the client itself); in a handler it is also that of a
message to another server, which touches this one by the buffer only. `since` is the age of `last_user_message`,
negative once the clock was set back; it saturates at `Far`, above which no delay
can tell. The last five variables are history: the latest message sent of each
priority, the last one and the real seconds since, and how long the timer took
nothing.

`MessageFifo` is the promise: for each priority, messages leave in the order in
which they were given, each at most once; some may be lost, none overtaken. The
refinement mapping takes as pending the message that is being sent directly (if
any), then the queue. It holds when the handlers send nothing (`MaxDepth = 1`).
When they send, it does not: the call around writes the message of the handler
again, or at once one that was queued and that is written again when its turn
comes, and its own message is lost. What is true for any depth is `QueuesInOrder`,
which is about the queues and the calls, not about what the socket gets.

Left out: the modifiers and the split of a text in messages, redirections,
handlers that close
the connection (the code then reads a NULL head, `irc-server.c:2409`: no state
follows), a clock set forward (it makes messages leave early), and the
re-initialisation of the timers for skews of ten seconds or more (it moves a
tick, which is free here).

### 5.2 Runs

**outqueue_order** (about 203,000 states; handlers send nothing). Delays of 1 and
2 seconds, five messages, one jump of the clock, up to 3 seconds back, further
than the longest delay. Different delays tell a wrong priority from a right one;
five messages fill both queues with one in flight.

- `Fifo`: implements `MessageFifo`;
- `AntiFlood`: the delay passes before each message, whatever the clock does;
- `SilenceIsBounded`: the timer leaves a waiting message no more often than the
  longest delay.

**outqueue_handlers** (about 78,000 states; three sends deep, no delay for the
high priority, four messages). `QueuesInOrder`: nothing is queued ahead of a message
that its call found fit to go at once (`NoneJumpsQueue`), and the message whose
handlers run in `irc_server_outqueue_send()` is still the head when it is freed
(`TakenIsHead`); `Drains` (liveness): what waits on a connected server leaves.

Two configurations are kept beside the runs; TLC finds a property violated under
each, because a handler sends:

| configuration | what happens |
|---|---|
| `MCIrcOutqueue_buffer` (`SignalledIsWritten`: what is written at once is what the handlers were called for) | "send signal with command that will be sent to server" (`irc-server.c:2599`): the handler's message takes the place of the other in the static buffer, which is written after (`:2609`); the message of the call is lost, the handler's is written twice |
| `MCIrcOutqueue_flood` (`AntiFlood`) | the decision to send at once is made before the handlers run and the time noted after (`irc-server.c:2614`): the handler's message gets the same decision, and two messages leave in the same second |

Fairness: weak, on `TimerSend`, `Tick` and `SendReturns`. The main loop runs the
timers at each turn, time passes, callbacks return. None of these is disabled by
the others for ever. `Drains` holds without fairness on the user because the
messages of a behaviour are bounded (`MaxMessages`): while the high priority is
fed for ever, the low one does wait for ever, and the code intends it.

### 5.3 Proofs (`IrcOutqueue_proofs`)

For any delays, bounds, numbers of messages and jumps of the clock:

- `OutqueueInvariant`: `IInv` is the type, `Ordered`, `OneQueued`, `Sent`, `Spaced`.
  `QueuesInOrder` is not inductive. `Ordered` adds that the queues are sorted by
  issue and that every call is of a message issued, so that what is queued next
  comes after it; `OneQueued`, that the timer's send is the outermost, so that no
  other call removes the head. `Sent` and `Spaced` say what holds when the handlers
  send nothing: the buffer is that of the call (`Own`), nothing that was written is
  still to be sent, the noted time is never older than the real one, and a send in
  its handlers is due;
- `TypeCorrect`, `QueuesKeepOrder` (`QueuesInOrder`, any depth);
- `DelaysAreKept`, `ImplementsFifo` and `HandlersSeeWhatIsSent`
  (`SignalledIsWritten`), assuming `MaxDepth = 1`, without which they are false (the
  violations above);
- `QueuesDieWithLink` (`NothingOutlivesLink`: what was queued for a connection is not
  sent on the next), with `Closed` (a closed connection has no send in progress);
- `SilenceEnds`, with `Patient` (the number of idle turns is bounded by the age of
  the last message).

## 6. Redirections

### 6.1 Correspondence

A script, or the notify list, announces that the answer to its next command is for
itself (`irc_redirect_new()`); the command is sent; the messages received are shown
to the redirections in the order of their creation, and the first that takes a
message hides it from the user.

| code | action or operator |
|---|---|
| `irc_redirect_new()` and the `irc_server_sendf()` after it | `AskRedirected`; a command of the user alone is `AskPlain` |
| `irc_redirect_search_available()`, "mark redirect as used" | `IsAvailable`, `Assign` |
| `irc_redirect_init_command()`, at the sending | `InitCommand`, in `Ask` (sent at once) and `SendQueued` |
| `irc_redirect_message()` and its loop | `Receive`, `ReceiveNoise` with `Takes`, `Begins`, `Finishes`, `Overdue`, `After` |
| `irc_redirect_stop()`, `current_count` | `Stops`, `IsLast`, `Removed` |
| `irc_server_timer_cb()`, the part on redirections | `Timeout` |
| `irc_redirect_free_all()` at disconnection; `/server deloutq` | `Disconnect`, `DeleteQueues` |

A redirection is known by the number of the question it was created for. The server
is modelled by what it says: `wire` is written when a command reaches it, with one
of the whole answers that `Table` gives for its pattern, and read in order. The
patterns of the instances are rows of `irc_redirect_patterns_default[]`. `Faults`
names what may go wrong on the way; `Distinct` says that each redirection has a
string, and `Prompt` that answers come before the timeout.

Left out: patterns created by scripts, saving for `/upgrade`, and handlers of
`irc_out` that send while a command is between its choice of a redirection and its
write.

### 6.2 Runs

**redirect_strings** (about 1,570,000 states; two priorities, one of them never
queued, with drops, losses and deleted queues; three questions, the fewest in which
a late answer can meet two redirections). `QueuePairs`: the pointer from a queued
message leads to a live redirection that waits for that message, and no two lead to
the same; `OnlyOwnAnswers`: with a string, nobody gets the answer to another's
question, even when the commands and the redirections have been paired wrongly.

**redirect_order** (about 157,000 states; no strings, one priority, no fault).
`AnswersWhole`: each redirection gets its whole answer, the optional last message
of a pattern included; `Ends` (liveness): every redirection ends. With faults, or
without strings over two priorities, `AnswersWhole` is false and the code promises
nothing. `MCIrcRedirect` assumes that an instance with no strings is `Orderly`, which is what
the theorem of 6.3 needs, and TLC evaluates it.

`MCIrcRedirect_swallows.cfg` (not among the runs) violates `OnlyAnswersTaken`: a
message that is in no pattern, arriving inside an answer, is hidden from the user.
The comment at `irc-redirect.c:887` speaks of numerics and of the stop commands;
the test above it (`:884`) asks only that the start was received.

Fairness (for `Ends`): weak, on `SendQueued` and `Timeout`, which the timer of one
second runs, and on `Receive`, the descriptor of the socket. None is disabled by
the others except by doing its work.

### 6.3 Proofs (`IrcRedirect_proofs`)

For any table of patterns, priorities, faults and number of questions:
`TypeCorrect`, and `PointersPaired` (`QueuePairs`) with the strengthening `Paired`,
which adds that a queue holds only commands already asked: a new redirection is then
pointed to by none.

`OwnAnswersOnly` (`OnlyOwnAnswers`) holds under `Identified`: each redirection has its
string and every command of the patterns must contain it; nothing that nobody asked for
comes inside an answer; and in an answer, what starts it is followed by what stops it.
The delicate part is that a redirection that has started takes every message, string or
not, until its stop (`Takes`). So the invariant `Owned` says of the messages to come
(`Told`) that each start is followed, without a message of another question between, by
a stop; and of a redirection that has started (`Heard`) that the next messages are its
own up to a stop. It then stops, or stops taking everything, before another answer
begins. A count of two answers, an overdue extra message, timeouts and the command of
one question attached to the redirection of another are all covered.

`AnswersAreWhole` (`AnswersWhole`) holds under `Orderly`: one priority, no fault, answers
before the timeout; an answer is a message of "start" and all up to the next of "stop", or
one of "stop" alone, then perhaps the extra message; no answer begins with a message for
which another redirection may still wait (its "extra"); a pattern with an extra message is
not asked for two answers at once, and no count is above two (`Answers`); what answers the
user's own commands is in no pattern. Each of these is used: without the one on the first
message, say, a redirection that waits for its extra message takes the head of the next
answer.

Nothing in a message says whose it is, so the invariant `Orders` keeps account of where
everybody stands:

- `Story`: `wire` is a row of whole answers, in the order of the questions, of which only
  the first may have begun (`Placed`, with an offset for each question), and each redirection
  that was sent stands in its own answer exactly where `wire` begins (`Progress`: which of its
  answers, how far from the stop), with what it has kept so far;
- a redirection with nothing more to come has heard its stop, waits for an extra message
  and comes before all that are still to hear something, so the walk reaches it first
  (`Following`, `Waiting`);
- `Listed`, `Lined`: every redirection has its own command or waits for it, and the queue
  holds later questions than all that were sent, in order, so the first redirection available
  is always the right one;
- `Concluded`: the redirections that ended had kept the whole of their answers (`Had`).

The step is then that the message read is taken by the redirection it is for, and that
those that wait end (`Heeds`, `MessageOrders`). What `Kept` computes is by recursion on the
answer, so this proof needs an induction on numbers. The library states it for a predicate
given as a parameter, which the provers cannot instantiate; it states for *sets* that
relations are well founded, from which `LeastElement` and `SetInduction` follow.

## 7. Background commands

### 7.1 Correspondence

| code | action or operator |
|---|---|
| `hook_process_hashtable()`, `hook_process_run()` | `HookProcessHashtable`, `Create` (a "func:" waits; anything else is forked at once) |
| `hook_process_exec()` | `ExecBegin`, `ExecStep`, `ExecEnd`: the next hook is read after the callback |
| `hook_process_child_read()` and its two callbacks, `hook_process_add_to_buffer()`, `hook_process_send_buffers()` | `ChildRead` with `Received`, `AddToBuffer`, `SendBuffers` |
| `hook_process_timer_cb()` | `TimeoutReached`, `TimerCheck` |
| `hook_process_child_read_until_eof()` | `Drain`, `DrainEnd`, between which the children go on |
| `unhook()`, `hook_process_free_data()` | `Unhook`, `End`, `Killed` |

The commands are the environment: they write, close, end, are killed, and may leave
behind another process that holds their streams. Output is counted, since nothing
distinguishes its bytes; a pipe holds `PipeSize`, and a read takes `ReadSize`.

`ProcessOutput` is the promise: the callback is given what was written, once, in
order, and then one end. A return code comes only after all the output, except that
of a stream that another process still holds.

The assumption `PipeSize <= Rounds * ReadSize` is what makes the last reads enough:
a Linux pipe holds 64 KiB by default, and the code does up to 1024
rounds of 8 KiB (`wee-hook-process.c:416`, `:496`).

Left out: standard input (`hook_set()` with "stdin"), a callback that removes its
own process, and the clock of the timers.

### 7.2 Runs

**process_output** (about 93,000 states; one command, two streams, buffers of 3,
reads of 2, four units on each stream: more than a buffer and more than a pipe).
`KeepsPromise`: `HookProcess` implements `ProcessOutput`; `BufferFits`.

**process_many** (about 14,000 states; three hooks, with functions of the main
loop, forks that fail, and callbacks that hook again under the walk). `NoChildLeft`:
no process or zombie is left by a removed hook; `TimeoutEnds` (liveness).

Fairness: weak for the walk and the last reads, which are one call in the code;
strong for each timer, because the last reads of another hook disable it for a
moment. Nothing is assumed of the commands.

### 7.3 Proofs (`HookProcess_proofs`)

For any sizes, timeouts and number of hooks: `ProcessInvariant`, `TypeCorrect`,
`BuffersFit`, `NoChildIsLeft`, and `ImplementsOutput` (`Spec => KeepsPromise`). The
invariant counts the output (`Flow`): what was written was given, or is in the
buffer, or is in the pipe. `LastReads` says that in the last reads the pipe of a
closed stream shrinks by `ReadSize` a round, so that after `Rounds` rounds it is
empty; this is where the assumption on `PipeSize` is needed.

## 8. Connections by a child

### 8.1 Correspondence

| code | action or operator |
|---|---|
| `hook_connect()`, `network_connect_with_fork()` | `HookConnect`: `Refused` (the callback is called before the return) or `Forked` |
| `network_connect_child()` | `Resolve`, `Try`, `NoneLeft`, `Tell`, `Pass`; `Crash` at any step |
| `network_connect_child_read_cb()`, to the status | `ReadStatus` |
| ... the socket, for which the program waits (`blocked`) | `Receive` (what the child passed, or the end of the pipe: `AtEnd`), `ReceiveFails` |
| ... the rest, with a socket or with -1 | `GoOn` |
| `network_connect_gnutls_handshake_fd_cb()`, `..._timer_cb()`, `network_connect_child_timer_cb()` | `HandshakeFdCb`, `HandshakeTimerCb`, `ChildTimerCb` |
| `unhook()`, `hook_connect_free_data()` | `Unhook`, `Free` with `FreedHooks`, `Kept` |

`open` are the sockets open in WhoreIRC: the pool made before the fork where
`socketpair()` does not work (`hook_socketpair_ok`), and the one received. Socket 0
of the model is -1 in the code.

The socket may be lost on its way. Without a pool, `recvmsg()` may fail, or bring no
descriptor because none is free (`Faults` has "recv"). With a pool, the number of the
socket comes by the pipe, and if the child dies before it writes it, `read()` returns
at the end of the pipe. Both leave -1, with which the callback goes on: with TLS the
handshake fails at once, without TLS the callback is told OK and -1
(`wee-network.c:1619`). Without a pool, a child that dies leaves `recvmsg()` waiting
on a socket of datagrams, which has no end (`Stuck`).

Left out: the order in which addresses are tried (it is random for the first), the
protocols of the proxies, certificates.

### 8.2 Run

**connect_answers** (about 111,000 states; two connections, two addresses, with and
without TLS, pools of none and one socket: one is enough to run out of sockets
before addresses; every fault).

- `AnsweredOnce`: the callback is called once, never by a hook left behind;
- `SocketsOwned`: OK comes with an open socket, and -1 only as said above and without
  TLS; every other socket is closed, those of the pool always. The one received is
  known to the callback, except when the timer of the child fires, or the owner
  removes the hook, in the middle of a handshake (`wee-network.c:1264`: it is lost);
- `Answered` (liveness): every connection is answered, except when the child ends
  between the status and the socket and there is no pool, where `recvmsg()` waits for
  ever and the whole program with it (`wee-network.c:1475`).

Fairness: strong for the timers, which are disabled while the program is in
`recvmsg()`; weak for the descriptor, and for a child that has told its status.
Nothing else is assumed of the child, which may hang anywhere, and `ReceiveFails` is
never assumed to happen: it would end the wait.

### 8.3 Proofs (`HookConnect_proofs`)

For any set of connections, pools and faults: `ConnectInvariant`, `TypeCorrect`,
`OneAnswer` (`AnsweredOnce`), `SocketsAreOwned` (`SocketsOwned`). The strengthening
`HooksBelong` says which hooks a connection has in each state; a callback then never
finds a connection that is over. `ChildTells` says what a child does between the
status OK and its end, from which it follows that only a crash leaves the pipe without
the number of the socket. The invariant is local to one connection
(`IInvIsLocal`), so that a step is proved for the one that moves.

## 9. Buffers

### 9.1 Correspondence

The state is one record, `gui`: the linked list, the number, `active`, `zoomed` of
each buffer, which lines it reads (`own` says that `lines` is `own_lines`; `mixed`
that `mixed_lines` is not NULL; `content` has the buffers whose lines are in it, and
may be empty when it is not NULL), the window counts, and the
option `buffer_auto_renumber`. The functions of `gui-buffer.c` call one another on
the same data, so each is an operator from the data to the data, and an action is a
command, a key or a call of the API.

| code | action or operator |
|---|---|
| `gui_buffer_new()`, `gui_buffer_insert()`, `gui_buffer_find_pos()` | `Open`, `Insert`, `AddBefore`, `LayoutPosition`, `GapPosition` |
| `gui_buffer_close()` | `Close`, `Closed` |
| `gui_buffer_move_to_number()`, `gui_buffer_swap()`, `gui_buffer_renumber()` | `Moves`, `Swaps`, `Renumbers` |
| `gui_buffer_merge()`, `gui_line_mix_buffers()`, `gui_buffer_unmerge()`, `..._unmerge_all()` | `Merges`, `Mix`, `Unmerges`, `Parted`, `UnmergesAll` |
| `gui_buffer_set_active_buffer()`, `gui_input_switch_active_buffer()`, `gui_input_zoom_merged_buffer()` | `SetActive`, `SwitchesActive`, `Zooms`, `Toggled` |
| `gui_window_switch_to_buffer()`, splits | `Switches`, `Splits`, `Unsplits` with `CountDisplayed`, `AddDisplayed` |
| `gui_layout_buffer_apply()` | `Layouts`, `ApplyLayout` |
| `config_change_buffer_auto_renumber()` | `SetAutoRenumber` |

Left out: what lines hold, the hotlist, filters, local variables, the list of
visited buffers (a free choice in `Close`), and the tree of windows.

### 9.2 Runs

**gui_buffers** (about 132,000 states up to the symmetry of two windows; the main
buffer and two others, two of them merged in the layout, numbers up to 3; three
buffers are the fewest with a group of two and a buffer outside, or a group from
which one leaves). `NumbersInOrder`; `GroupsSound` (one of a group is
active, no `lines` points to freed `mixed_lines`, and no line of a buffer that has left
the group or was closed remains in them); `CountKept` (an action property: `num_displayed`, right before
a step, is right after it, unless the step applies a layout).

`MCGuiBuffers_zoom.cfg` (not among the runs) violates `ZoomedMeansMerged`:
`gui_buffer_unmerge()` never resets `zoomed` (`gui-buffer.c:3534`), so that a buffer
taken out of a zoomed group stays marked. The reference of the API
(`doc/en/weechat_plugin_api.en.adoc:12360`) says that the variable is 1 if the buffer
is merged and zoomed.

### 9.3 Proofs (`GuiBuffers_proofs`)

For any set of buffers, any windows and any layout:

- `IInvInductive`: every reachable `gui` is `Safe`;
- `TypeCorrect` (`TypeOK`: a buffer is in the list once), `NumbersAlwaysInOrder`
  (`NumbersInOrder`), `GroupsAlwaysSound` (`GroupsSound`);
- `CountIsKept` (`CountKept`), the action property: any command but the one that applies
  a layout keeps the counts right.

`Safe` is inductive as it has more than the three invariants:

- `Gapless`, in place of "neighbours differ by at most one": with the option, each
  number below that of a buffer is one of a buffer. `gui_buffer_shift_numbers()` stops at
  the first gap and the loops that decrease numbers run to the end of the list; that neither
  leaves a gap follows from all the numbers, not from those at hand;
- `AsNew`: a buffer outside the list is active and has no `mixed_lines`, as one that
  `gui_buffer_close()` freed or that is not made yet. Otherwise a new one could join a
  group whose active buffer is another;
- `ShownOpen` and the core buffer: the windows show buffers of the list, and there is
  always one for a window of a closed buffer to go to. A count says nothing otherwise.

The functions call one another on the same data (a move goes through lists that are not
in order, a close unmerges first), so there is one lemma for each, on any data and not
on the state: it keeps `Good` (type, order, groups), the same buffers (`Same`), and the
counts. Under them:

- a loop of the model is a function defined by recursion on the positions of a list.
  `Loop` builds its values step by step, as nothing in the library says that such a
  function has any, and `UpTo` is the induction over them. `Kept`, `UnmergeAll`,
  `SortByLayout` and `ActivateLeaders` are its four kinds;
- `Fits` and `Apart`: a buffer, or a group, put in the list where its number belongs,
  and the numbers after `MakeRoom`: all but its own keep their order, and its own is no
  other's. Unmerge, move, and insertion by a layout are all of this form;
- `Rank`: `gui_buffer_renumber()` gives each group the count of those below it;
- `OneIn`, `SharedLines` and `SoundBut`: a group that lacks only its active buffer is made
  sound by `SetActive`, which is how merge and unmerge use it.

The proof corrected the model. `mixed` was one set, empty for NULL, but `mixed_lines` may
be there and hold no line: a buffer merged into a zoomed group is mixed with what `lines`
of the first of the group points to, which for a zoomed buffer is its own lines
(`gui-line.c:1790`); when those two leave, the lines of neither remain, and the others of
the group never came in. With four buffers or more, such a group was taken for one without
`mixed_lines`, and the invariant failed in the model; the code tells them apart. The same
step is why `content` is only a subset of the group, although `gui_line_mix_buffers()` is
said to mix the lines of a "group of buffers" with those of the new one
(`gui-line.c:1764`).

## 10. Channels

### 10.1 Correspondence

`channel` is the list of channels of one server: whether there is a buffer (`open`),
the flags `part` and `cycle`, the nicks with their modes, the nicklist of the buffer,
the pointer `hook_autorejoin`. `nicklist` is kept apart from `nicks`, as in the code:
an entry is found by the name and by the group that the modes give, and a name that
is there already is refused. `server` has the fields that the channels use, `timer`
the timers of autorejoin with the channel each was given, or `Freed` once that memory
is free; a channel created later may get it.

| code | action or operator |
|---|---|
| `irc_nick_new()`, `irc_nick_change()`, `irc_nick_set_mode()`, `irc_nick_free()`, `irc_nick_free_all()` | the operators of these names, with `Relist` for the nicklist |
| handlers of 001, JOIN, 353, MODE, NICK | `Recv001`, `RecvJoin`, `Recv353`, `RecvMode`, `RecvNick` |
| KICK, PART, KILL, QUIT | `RecvKickMe`, `RecvPartMe`, `RecvLeft`, `RecvQuit` |
| `irc_server_autojoin_channels()`, at once or after the delay | the operator of this name, in `Recv001` or `AutojoinDue` |
| `irc_channel_autorejoin_cb()` | `AutorejoinFires` |
| `irc_server_disconnect()`, `irc_server_reconnect()`, `/connect`, `/disconnect` | `LinkLost`, `KilledEnd`, `Disconnect`, `irc_server_reconnect`, `Connect` |
| `/join`, `/part`, `/cycle`, closing the buffer | `Join`, `Part`, `Cycle`, `CloseBuffer` |

The network is external. It has the true members and modes; it reads `sent` in order
and writes `wire` in order, changes at any moment, and tells the client what happens
in the channels it is in. The client's own messages are thus always crossed by those
of others. Options (`autorejoin`, `autorejoin_delay`, `command_delay`,
`part_closes_buffer`) are read when they are used, so they are free each time.

The link is that of `IrcServer` in four states: "off", "waiting" (for a reconnection;
the option `autoreconnect` is on), "login", "up". A /connect during a login, which
`IrcServer` has, is not repeated here; /reconnect is `Disconnect` and then `Connect`.

Left out: modes of the channel itself and lists of modes, topics, keys, private
buffers (`irc_server_autojoin_channels()` counts them as channels), who is away, smart
filters, a QUIT of the client's own nick, and more than `MaxTimers` timers at a time (a KICK that would
need one more waits).

### 10.2 Run

**channel_life** (about 219,000 states; one channel, two nicks, either of which the
client may have, one mode, up to two timers, one lost link, all faults: bans, kills, a
bouncer that repeats JOIN, losses). One message each way that others or the user add
while another is under way is enough for a crossing, and answers come on top. Two
timers are the fewest for one that lost its pointer.

- `ShowsNetwork`: once nothing is under way, the client shows its own nick, members
  and modes as the network has them, and a nicklist that is exactly that; without a
  link it shows nobody. Without the capability multi-prefix NAMES tells the highest
  mode only, so the modes shown are then some of the true ones;
- `TimerPending`: the pointer of a channel to its timer is to a pending timer made for
  it, so that no freed hook is unhooked. It holds although pointers are
  overwritten, because what is lost is then the older timer;
- `Rejoins` (liveness): after a loss, and after a kick with a timer, a channel that
  is open and not left is joined again, unless it is banned, left or closed, or the
  user disconnects or connects with -nojoin.

`MCIrcChannel_names.cfg` is a larger instance without liveness (two channels, two
modes, about 861,000 states, some seconds) for `ShowsNetwork` over NICK and QUIT, which
touch several channels, and for the order of modes.

Fairness: weak, on what the main loop does by itself (`ClientReads`, each timer, the
delayed autojoin, the reconnection) and on the network, which reads, registers a client
and ends the link of one it killed. Losses of the link are bounded (`MaxLinks`), else no
channel need be joined between two. Nothing is assumed of users.

### 10.3 Proofs (`IrcChannel_proofs`)

For any sets of channels and nicks, any modes, options and faults:

- `ChannelInvariant`: `IInv` is the type, `TimerPending` and `JoinedIsRejoined`. They
  are one invariant because the timers of a channel that is freed must be told from
  those of the others, which `TimerPending` before the step does, and because a
  mode or a new nick reaches only nicks that are in a channel, which is then open and
  not left;
- `TypeCorrect`, `TimersArePending`, `JoinedChannelsRejoin` (`JoinedIsRejoined`: a
  channel with nicks is open and not marked as left, so that
  `irc_server_autojoin_channels()` joins it again).

Each operator on a channel has a lemma (`Sound`), then each handler; `Refresh` and
`OneTimer` say what a step on one channel, with or without its timer, leaves to the
others.

`ChannelsShowNetwork` (`ShowsNetwork`) needs to know what the client becomes once it
has read everything on `wire`. The invariant `Shows` does not compute it. It says that
there are, along `wire`, a nick (`NickTrail`) and for each channel its nicks (`Trail`),
one after each message, which start with what the client has, follow each other as the
handlers make them (`NickAfter`, `NicksAfter`), and end with what the network has
(`Follows`). Where the user closed a buffer while PART is under way they may end with
nobody instead (`Ends`), as long as no message on `wire` opens the channel again. A
trail exists, so no step needs an induction on the messages: when the client reads, it
shifts; when the network tells, it is one longer (`Moves`: the message does to the
members what `NicksAfter` does to the nicks). Two conditions on the trail keep the
nicklists exact: a JOIN of another meets a channel with nicks or one that is closed, and
the new nick of NICK is not yet in the channel. Both hold because the network tells a
client only what happens in the channels it is in. TLC was given the same invariant
with the trails computed before it was proved.

## 11. Proved, checked, not covered

Proved for every value of the constants: the theorems of 3.3, 4.4, 5.3, 6.3, 7.3,
8.3, 9.3, 10.3, with the named assumptions on the constants (`HooksAssumption`,
`ServerAssumption`, `OutqueueAssumption`, `RedirectAssumption`,
`ProcessAssumption`, `ConnectAssumption`, `BufferAssumption`, `ChannelAssumption`, which
TLC evaluates) and the hypotheses named in each. Every invariant and action property of
the runs is among them.

Checked by TLC only, on the instances above:

- liveness (`KeepsTrying`, `Drains`, `Ends`, `TimeoutEnds`, `Answered`, `Rejoins`): out of the
  prover's reach;
- the violations kept beside the runs, each of which is a single trace.

Definitions whose comment or name says faulty, or "Mutant", are variants of the
operator that follows them, with a plausible bug; `PROJECT.json` pairs each with
the property that catches it. No behaviour uses them.

The modules are not composed with each other yet: `IrcServer` takes the answers of
the connection hook from the outside, `IrcOutqueue` the life of the link,
`IrcChannel` the states of the link,
`IrcRedirect` the order of the queues (`MessageFifo`, which `IrcOutqueue`
implements when handlers do not send), and each
takes the event loop as interleaving. That every handler runs inside a walk of the
hooks matters for the hooks only.

## 12. Running

    tlc -workers 2 -config MCHooks_nested.cfg MCHooks
    tlc -workers 2 -config MCIrcServer_life.cfg MCIrcServer
    tlc -workers 2 -config MCIrcOutqueue_queue.cfg MCIrcOutqueue
    tlc -workers 2 -config MCIrcRedirect_strings.cfg MCIrcRedirect
    tlc -workers 2 -config MCHookProcess_output.cfg MCHookProcess
    tlc -workers 2 -config MCHookConnect_answers.cfg MCHookConnect
    tlc -workers 2 -config MCGuiBuffers_numbers.cfg MCGuiBuffers
    tlc -workers 2 -config MCIrcChannel_one.cfg MCIrcChannel
    for m in *_proofs.tla; do tlapm $m; done

The other configurations are named in `PROJECT.json`, with what is expected of
each, or above. Deadlock is checked, except in the runs whose models may stop
because a bounded number of questions, hooks or connections is used up (those of
`IrcRedirect`, `HookProcess`, `HookConnect`, `IrcChannel`).
