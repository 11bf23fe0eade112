---------------------------- MODULE MCIrcRedirect ----------------------------
(***************************************************************************)
(* Instances of IrcRedirect for TLC, with rows of irc_redirect_patterns_   *)
(* default[]: who (352 who, 315 end, 403 no such channel), mode_channel    *)
(* (324 modes, 329 creation date), whois with the filter of the notify     *)
(* list (401 no such nick, 318 end); time (391) is only asked for with no  *)
(* redirection.                                                            *)
(***************************************************************************)
EXTENDS IrcRedirect

Row(start, stop, extra, filter, counts, answers) ==
  [start |-> start, stop |-> stop, extra |-> extra, loose |-> {},
   filter |-> filter, counts |-> counts, answers |-> answers]

All == Reply \union {Noise}

Who == Row({352, 401}, {315, 403}, {}, All, {1, 2},
           {<<352, 315>>, <<403>>})
ModeChannel == Row({}, {324, 403}, {329}, All, {1},
                   {<<324, 329>>, <<324>>, <<403>>})
Time == Row({}, {391}, {}, All, {}, {<<391>>})
Whois == Row({311}, {318, 401}, {318}, {401}, {1},
             {<<311, 318>>, <<401, 318>>})

McStrings == [who |-> Who, whois |-> Whois]
McOrder == [who |-> Who, mode_channel |-> ModeChannel, time |-> Time]
McStringNames == {"who", "whois"}
McOrderNames == {"who", "mode_channel", "time"}
McPlainWho == {"who"}
McPlainTime == {"time"}
McReply == {311, 315, 318, 324, 329, 352, 391, 401, 403}

\* What AnswersWhole is about, and the strings are not.
ASSUME OrderAssumption == Distinct \/ Orderly
=============================================================================
