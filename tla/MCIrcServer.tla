----------------------------- MODULE MCIrcServer -----------------------------
(***************************************************************************)
(* Instances of IrcServer for TLC: two addresses, two capabilities, chunks *)
(* of two messages, a delay that reaches its maximum at the third failure. *)
(***************************************************************************)
EXTENDS IrcServer

McCaps == {"sasl", "away-notify"}
OneCap == {"sasl"}
McSaslFail == {"continue", "reconnect", "disconnect"}
NoEvents == {}
SyncFailure == {"sync_failure"}
ConnectInLogin == {"connect_in_login"}
WithUpgrade == {"upgrade"}
=============================================================================
