----------------------------- MODULE MCLauncher -----------------------------
(***************************************************************************)
(* Constants for checking Launcher: two system passwords, so that a key    *)
(* stored under one fails to open under the other, and three starts: one   *)
(* that creates the key, one that opens it, one after a change.            *)
(***************************************************************************)
EXTENDS Launcher

CONSTANTS pw1, pw2

MCPasswords == {pw1, pw2}
MCMaxStarts == 3
\* A day of 6 minutes of 4 seconds: every m from 1 to a whole day, and
\* times on, just after and just before a minute and a midnight.
MCMinutesPerDay == 6
MCSecsPerMinute == 4
=============================================================================
