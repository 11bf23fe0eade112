---------------------------- MODULE MCIrcChannel ----------------------------
(***************************************************************************)
(* Instances of IrcChannel: two nicks that the client may have, of which   *)
(* another may take the one it leaves, and everything that may go wrong.   *)
(***************************************************************************)
EXTENDS IrcChannel

CONSTANTS a, b, c1, c2

McNames    == {a, b}
McNoModes  == {{}}
McAllModes == {{}, {1, 2}}
McDelays   == {"none", "now", "later"}
McAtOnce   == {"none", "now"}
McBoth     == BOOLEAN
McNow      == {FALSE}
McFaults   == {"ban", "kill", "bouncer", "loss"}
McResync   == {"bouncer", "kill"}
=============================================================================
