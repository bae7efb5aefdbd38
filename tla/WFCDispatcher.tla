---------------------------- MODULE WFCDispatcher ----------------------------
(***************************************************************************)
(* What the idle-loop dispatcher promises, after the state machine of      *)
(* spec.md section 4.4: Idle, RunningEvents, AwaitingKey, ExecutingCommand, *)
(* HandoffToLogon and Exit, with the local-logon result (0 none, 1         *)
(* confirmed logon as the primary account, 2 fast logon as an eligible     *)
(* account) and the account the session will run as.  Time, keys and the   *)
(* housekeeping itself are not visible at this level.                      *)
(***************************************************************************)
CONSTANTS
  Accounts,      \* account numbers
  FastAccounts   \* accounts a fast logon may select

ASSUME FastAccounts \subseteq Accounts /\ 1 \in Accounts

VARIABLES state, result, account

vars == <<state, result, account>>

States == {"Idle", "RunningEvents", "AwaitingKey", "ExecutingCommand",
           "HandoffToLogon", "Exit"}

\* Idle -> RunningEvents: a new pass of the loop (rollover, events); the
\* dispatcher works as the primary account.
RunEvents ==
  /\ state = "Idle"
  /\ state' = "RunningEvents" /\ account' = 1
  /\ UNCHANGED result

\* RunningEvents -> AwaitingKey: the callout; the "key requested" flag is
\* cleared.
AwaitKey ==
  /\ state = "RunningEvents"
  /\ state' = "AwaitingKey" /\ result' = 0
  /\ UNCHANGED account

\* A key is pending: the live account record is re-read, and the key is
\* dispatched as a command.
KeyPending ==
  /\ state = "AwaitingKey"
  /\ state' = "ExecutingCommand" /\ account' = 1
  /\ UNCHANGED result

\* No command this pass (no key, or a sysop hot-key handled in place): the
\* loop repeats, through the idle housekeeping when nothing ran.
NoCommand ==
  /\ state = "AwaitingKey"
  /\ state' \in {"Idle", "RunningEvents"}
  /\ UNCHANGED <<result, account>>

\* After a command with no local logon: the account record is refreshed and
\* the loop returns to Idle.
CommandDone ==
  /\ state = "ExecutingCommand"
  /\ state' = "Idle" /\ account' = 1
  /\ UNCHANGED result

\* The local-logon sub-flow completes with a valid request: 1 as the
\* primary account, or 2 as an account eligible for fast logon.
LogonRequested ==
  /\ state = "ExecutingCommand"
  /\ state' = "HandoffToLogon"
  /\ \/ result' = 1 /\ UNCHANGED account
     \/ result' = 2 /\ account' \in FastAccounts

\* Quit.
Quit ==
  /\ state = "ExecutingCommand"
  /\ state' = "Exit"
  /\ UNCHANGED <<result, account>>

\* The interactive session ends and the dispatcher is entered again.
SessionOver ==
  /\ state = "HandoffToLogon"
  /\ state' = "Idle"
  /\ UNCHANGED <<result, account>>

Init == state = "Idle" /\ result = 0 /\ account = 1

Next == RunEvents \/ AwaitKey \/ KeyPending \/ NoCommand \/ CommandDone
        \/ LogonRequested \/ Quit \/ SessionOver

Spec == Init /\ [][Next]_vars
====
