------------------------------- MODULE MCWFC -------------------------------
(***************************************************************************)
(* Constants for checking WFC.  Times are scaled: a minute of 2 seconds    *)
(* and a day of 5, the shortest day in which, as in the real 86400 s, every *)
(* start d of the prompt has a time a full minute away; midnight can fall  *)
(* inside a prompt.  Callout and cleanup gaps fire between keys.           *)
(* Accounts: 1 is the sysop (SL 255), 2 an ordinary user, 3 a co-sysop,    *)
(* 4 a deleted account.  Command lines: none, -U3, -U4 (deleted) and -XT.  *)
(***************************************************************************)
EXTENDS WFC, TLC

MCDayLen == 5
MCSecondsPerMinute == 2
MCCalloutGap == 0
MCCleanGap == 1
MCAccounts == 1..4
MCSL == (1 :> 255) @@ (2 :> 10) @@ (3 :> 255) @@ (4 :> 10)
MCDeleted == {4}
MCUserCount == 4
MCDigitValue == ("2" :> 2) @@ ("3" :> 3)

\* Run from the WFC with no switches; with -U3 and -U4 (this_usernum set,
\* user_already_on_); with -XT (a telnet caller already on the line,
\* user_already_on_ and ooneuser).
MCLaunchPlain == {[user |-> 0, already |-> FALSE, one |-> FALSE]}
MCLaunches == MCLaunchPlain \cup
              {[user |-> 3, already |-> TRUE, one |-> FALSE],
               [user |-> 4, already |-> TRUE, one |-> FALSE],
               [user |-> 0, already |-> TRUE, one |-> TRUE]}

\* Keys for the dispatcher check: logon, a fast logon that is granted and
\* one that is refused, 'Y' (a local logon, or a command at the loop), quit
\* and an extended key.
MCKeysAll == {<<"SP">>, <<"3">>, <<"2">>, <<"Y">>, <<"Q">>, <<"NUL", "H">>}
\* Plain keys only.
MCKeysPlain == {<<"SP">>, <<"3">>, <<"Y">>, <<"M">>}
\* Extended keys with the 0 prefix only (the one the loop handles).
MCKeysNul == {<<"SP">>, <<"NUL", "H">>, <<"M">>}
=============================================================================
