---------------------------- MODULE MCIrcOutqueue ----------------------------
(***************************************************************************)
(* Instances of IrcOutqueue for TLC: a different delay for each priority,  *)
(* and a clock set back by more than the longest of them.                  *)
(***************************************************************************)
EXTENDS IrcOutqueue

McAntiFlood == <<1, 2>>
McNoAntiFloodHigh == <<0, 2>>
=============================================================================
