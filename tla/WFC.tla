-------------------------------- MODULE WFC --------------------------------
(***************************************************************************)
(* The "waiting for call" dispatcher of src/bbs/wsession.cpp: GetCaller,   *)
(* the doWFCEvents loop (day rollover, events, network callout, key        *)
(* dispatch, post-command reset, idle net cleanup), the LocalLogon prompt  *)
(* and Run's logon loop: the pass-through logon of an account named on    *)
(* the command line (-U), GotCaller for a caller already connected, the    *)
(* fast-logon hand-off, getuser, and the one-user mode that ends the       *)
(* process after its session.                                              *)
(*                                                                         *)
(* Time is the clock of the node: `now` is timer() (seconds since          *)
(* midnight, scaled to DayLen) and dates are kept relative to today: a     *)
(* stored date either is today's date or is older.  Keystrokes arrive in   *)
(* the local keyboard buffer as their bytes; an extended key is two bytes, *)
(* a 0 (or, on Win32, 224) prefix and a scan code.                         *)
(***************************************************************************)
EXTENDS Integers, Sequences

CONSTANTS
  DayLen,        \* seconds in a day (timer() wraps to 0 at midnight)
  SecondsPerMinute, \* LocalLogon's wait for a key
  CalloutGap,    \* 60: seconds between automatic callout attempts
  CleanGap,      \* 1000: timer1() distance that triggers cleanup_net
  Keystrokes,    \* the keystrokes the sysop may type (sequences of bytes)
  DigitValue,    \* ch - '0' for the digit characters among those bytes
  MaxKeys,       \* how many keystrokes the sysop types in a behaviour
  Accounts,      \* user numbers on file
  SL,            \* security level of each account
  Deleted,       \* accounts marked deleted
  UserCount,     \* status_manager()->GetUserCount()
  RunsBeginDay,  \* GetBeginDayNodeNumber() == 0 || == instance_number_
  CalloutNode,   \* current_net().sysnum && OP_FLAGS_NET_CALLOUT
  Launches       \* command lines: [user |-> this_usernum (-U, 0 if none),
                 \*  already |-> user_already_on_, one |-> ooneuser]

ASSUME /\ SecondsPerMinute \in 1..(DayLen - 1)
       /\ CalloutGap \in Nat /\ CleanGap \in Nat /\ MaxKeys \in Nat
       /\ DigitValue \in [DOMAIN DigitValue -> 1..9]
       /\ 1 \in Accounts /\ SL \in [Accounts -> 0..255]
       /\ Deleted \subseteq Accounts /\ UserCount \in Nat
       /\ RunsBeginDay \in BOOLEAN /\ CalloutNode \in BOOLEAN
       /\ Launches \subseteq [user : {0} \cup Accounts, already : BOOLEAN,
                              one : BOOLEAN]

ExtPrefix == {"NUL", "E0"}        \* 0 and 224 as the first byte of a key
NoKey     == [b |-> "none", first |-> FALSE]
MaxRolls  == 2                    \* cap on the rollover count of one day

VARIABLES
  pc,            \* where the dispatcher is
  now,           \* timer()
  statusDate,    \* "today" or "older": the last date in the status file
  snapDate,      \* the same in last_date_status, read when doWFCEvents starts
  rolls,         \* rollover branches run since midnight (history, capped)
  sinceCallout,  \* time(nullptr) - last_time_c, saturated at CalloutGap + 1
  multTime,      \* the static mult_time of the idle cleanup
  any,           \* the loop's `any`
  lokb,          \* the loop's lokb: 0 none, 1 local logon, 2 fast logon
  usernum,       \* session usernum
  curUser,       \* the account whose record ReadCurrentUser loaded
  unx,           \* unx_: the account picked at the logon prompt
  kbd,           \* keyboard buffer: bytes, each marked if it starts a key
  pressed,       \* keystrokes typed so far
  ch,            \* the byte being dispatched as a command
  logonStart,    \* LocalLogon's d = timer()
  thisUser,      \* Run's this_usernum
  alreadyOn,     \* user_already_on_
  oneUser,       \* Run's ooneuser
  usingModem     \* using_modem; Run tests only whether it is -1, so 0
                 \* stands for both 0 and 1

vars == <<pc, now, statusDate, snapDate, rolls, sinceCallout, multTime, any,
          lokb, usernum, curUser, unx, kbd, pressed, ch, logonStart,
          thisUser, alreadyOn, oneUser, usingModem>>
clockVars == <<now, statusDate, snapDate, rolls, sinceCallout>>
userVars  == <<usernum, curUser, unx>>
runVars   == <<thisUser, alreadyOn, oneUser, usingModem>>

Pcs == {"enter", "top", "key", "cmd", "logon", "logonExt", "logonExtra",
        "post", "idle", "done", "launch", "caller", "run", "session",
        "exit"}

SatInc(x, cap) == IF x < cap THEN x + 1 ELSE cap
Abs(x) == IF x < 0 THEN -x ELSE x

\* GetChar: take the first byte of the keyboard buffer.
Byte    == Head(kbd)
GetChar == kbd' = Tail(kbd)

\* An account LocalLogon lets log on fast: SL 255 and not deleted.
Eligible(n) == n \in Accounts /\ SL[n] = 255 /\ n \notin Deleted

\* Mutant: the distance without std::abs.
ElapsedNoAbs(t0) == now - t0

\* std::abs(timer() - d): the distance LocalLogon's busy-wait measures.
Elapsed(t0) == Abs(now - t0)

(***************************************************************************)
(* Environment: the clock and the keyboard.                                *)
(***************************************************************************)
\* One second passes.  At midnight timer() wraps to 0 and every stored
\* date (the status file's, the snapshot's) is no longer today's.
Tick ==
  /\ now' = (now + 1) % DayLen
  /\ IF now' = 0
       THEN statusDate' = "older" /\ snapDate' = "older" /\ rolls' = 0
       ELSE UNCHANGED <<statusDate, snapDate, rolls>>
  /\ sinceCallout' = SatInc(sinceCallout, CalloutGap + 1)
  /\ UNCHANGED <<pc, multTime, any, lokb, userVars, kbd, pressed, ch,
                 logonStart, runVars>>

\* The sysop types a keystroke: its bytes enter the buffer together.
PressKey ==
  /\ pressed < MaxKeys
  /\ \E ks \in Keystrokes :
       kbd' = kbd \o [i \in 1..Len(ks) |-> [b |-> ks[i], first |-> i = 1]]
  /\ pressed' = pressed + 1
  /\ UNCHANGED <<pc, clockVars, multTime, any, lokb, userVars, ch, logonStart,
                 runVars>>

(***************************************************************************)
(* GetCaller and doWFCEvents.                                              *)
(***************************************************************************)
\* Mutant: GetCaller without its final usernum = 1 (usernum stays 0).
EnterWfcNoUser ==
  /\ pc = "enter"
  /\ usernum' = 0 /\ curUser' = 1
  /\ snapDate' = statusDate
  /\ pc' = "top"
  /\ UNCHANGED <<now, statusDate, rolls, sinceCallout, multTime, any,
                 lokb, unx, kbd, pressed, ch, logonStart, runVars>>

\* GetCaller: user 1 is loaded, then doWFCEvents takes its one snapshot of
\* the status file (last_date_status).
EnterWfc ==
  /\ pc = "enter"
  /\ usernum' = 1 /\ curUser' = 1
  /\ snapDate' = statusDate
  /\ pc' = "top"
  /\ UNCHANGED <<now, statusDate, rolls, sinceCallout, multTime, any,
                 lokb, unx, kbd, pressed, ch, logonStart, runVars>>

\* Top of the loop: the rollover test against the snapshot, the events
\* (check_event/run_event, whose outcome is any), and the callout.
WfcTop ==
  /\ pc = "top"
  /\ IF snapDate # "today" /\ RunsBeginDay
       THEN statusDate' = "today" /\ rolls' = SatInc(rolls, MaxRolls)
       ELSE UNCHANGED <<statusDate, rolls>>
  /\ \E ranEvent \in BOOLEAN :
       IF ~ranEvent /\ sinceCallout > CalloutGap /\ CalloutNode
         THEN sinceCallout' = 0 /\ any' = TRUE
         ELSE sinceCallout' = sinceCallout /\ any' = ranEvent
  /\ lokb' = 0
  /\ pc' = "key"
  /\ UNCHANGED <<now, snapDate, multTime, userVars, kbd, pressed, ch,
                 logonStart, runVars>>

\* After a step that dispatched no command: the idle branch if nothing ran.
NoCommandNext == IF any THEN "top" ELSE "idle"

\* A key is waiting: user 1 is reloaded and a byte is read.  A 0 byte reads
\* the scan code that follows for handle_sysop_key, a no-op here (okskey is
\* false); any other byte, 224 included, is dispatched as a command.
WfcKey ==
  /\ pc = "key"
  /\ kbd # <<>>
  /\ curUser' = 1
  /\ IF Byte.b = "NUL"
       THEN /\ Len(kbd) >= 2
            /\ kbd' = Tail(Tail(kbd))
            /\ pc' = NoCommandNext
            /\ UNCHANGED ch
       ELSE /\ GetChar
            /\ ch' = Byte
            /\ pc' = "cmd"
  /\ UNCHANGED <<clockVars, multTime, any, lokb, usernum, unx, pressed,
                 logonStart, runVars>>

WfcNoKey ==
  /\ pc = "key"
  /\ kbd = <<>>
  /\ pc' = NoCommandNext
  /\ UNCHANGED <<clockVars, multTime, any, lokb, userVars, kbd, pressed, ch,
                 logonStart, runVars>>

\* SPACE: LocalLogon prints its prompt and notes d = timer().
CmdLocalLogon ==
  /\ pc = "cmd" /\ ch.b = "SP"
  /\ any' = TRUE /\ ch' = NoKey
  /\ logonStart' = now
  /\ pc' = "logon"
  /\ UNCHANGED <<now, statusDate, snapDate, rolls, sinceCallout, multTime,
                 lokb, userVars, kbd, pressed, runVars>>

\* Q: QuitBBS ends the process.
CmdQuit ==
  /\ pc = "cmd" /\ ch.b = "Q"
  /\ pc' = "exit"
  /\ UNCHANGED <<clockVars, multTime, any, lokb, userVars, kbd, pressed, ch,
                 logonStart, runVars>>

\* Every other byte: a sysop command (the E/I/K/M mail commands set
\* usernum = 1, which it already is) or no command at all.
CmdOther ==
  /\ pc = "cmd" /\ ch.b \notin {"SP", "Q"}
  /\ any' = TRUE /\ ch' = NoKey
  /\ usernum' = 1
  /\ pc' = "post"
  /\ UNCHANGED <<clockVars, multTime, lokb, curUser, unx, kbd, pressed,
                 logonStart, runVars>>

(***************************************************************************)
(* LocalLogon.                                                             *)
(***************************************************************************)
\* The account a fast-logon key names: 'F' is account 1, a digit its value.
FastAccount(c) == IF c = "F" THEN 1 ELSE DigitValue[c]

\* A key arrives at the prompt.  'Y' is a local logon (1); a 0 or 224 byte
\* goes on to read its scan code; 'F' or a digit is a fast logon (2) if the
\* account is within the user count, has SL 255 and is not deleted; any
\* other key, or a refused account, returns 0.
LogonKey ==
  /\ pc = "logon"
  /\ kbd # <<>>
  /\ GetChar
  /\ LET c == Byte.b IN
       CASE c = "Y" ->
              lokb' = 1 /\ pc' = "post" /\ UNCHANGED userVars
         [] c \in ExtPrefix ->
              pc' = "logonExt" /\ UNCHANGED <<lokb, userVars>>
         [] c = "F" \/ c \in DOMAIN DigitValue ->
              LET n == FastAccount(c) IN
              /\ unx' = n
              /\ IF n <= UserCount /\ Eligible(n)
                   THEN lokb' = 2 /\ usernum' = n /\ curUser' = n
                   ELSE UNCHANGED <<lokb, usernum, curUser>>
              /\ pc' = "post"
         [] OTHER ->
              pc' = "post" /\ UNCHANGED <<lokb, userVars>>
  /\ UNCHANGED <<clockVars, multTime, any, pressed, ch, logonStart, runVars>>

\* No key within the minute, as the busy-wait measures it: the prompt
\* returns 0.
LogonTimeout ==
  /\ pc = "logon"
  /\ kbd = <<>>
  /\ Elapsed(logonStart) >= SecondsPerMinute
  /\ pc' = "post"
  /\ UNCHANGED <<clockVars, multTime, any, lokb, userVars, kbd, pressed, ch,
                 logonStart, runVars>>

\* The GetChar of the extended-key branch: it reads the scan code, and
\* blocks until there is one.
LogonExt ==
  /\ pc = "logonExt"
  /\ kbd # <<>>
  /\ GetChar
  /\ pc' = "logonExtra"
  /\ UNCHANGED <<clockVars, multTime, any, lokb, userVars, pressed, ch,
                 logonStart, runVars>>

\* The second `ch == 0 || ch == 224` test after the branch: one more
\* GetChar, which blocks until a further byte arrives and consumes it.
LogonExtra ==
  /\ pc = "logonExtra"
  /\ kbd # <<>>
  /\ GetChar
  /\ pc' = "post"
  /\ UNCHANGED <<clockVars, multTime, any, lokb, userVars, pressed, ch,
                 logonStart, runVars>>

(***************************************************************************)
(* After a command, the idle branch, and the hand-off to Run.              *)
(***************************************************************************)
\* Mutant: after a command the loop goes straight back to the key check,
\* skipping the events and the callout of a new pass.
WfcPostToKey ==
  /\ pc = "post"
  /\ IF lokb = 0
       THEN usernum' = 1 /\ curUser' = 1
       ELSE UNCHANGED <<usernum, curUser>>
  /\ pc' = IF lokb = 0 THEN "key" ELSE "done"
  /\ UNCHANGED <<clockVars, multTime, any, lokb, unx, kbd, pressed, ch,
                 logonStart, runVars>>

\* After the command: when no logon came of it (incom is false here), user 1
\* is reloaded; the loop ends once lokb is set.
WfcPost ==
  /\ pc = "post"
  /\ IF lokb = 0
       THEN usernum' = 1 /\ curUser' = 1
       ELSE UNCHANGED <<usernum, curUser>>
  /\ pc' = IF lokb = 0 THEN "top" ELSE "done"
  /\ UNCHANGED <<clockVars, multTime, any, lokb, unx, kbd, pressed, ch,
                 logonStart, runVars>>

\* Nothing ran in this pass: cleanup_net when the network asks for it
\* (IsCleanNetNeeded) or when timer1() is far enough from mult_time.
WfcIdle ==
  /\ pc = "idle"
  /\ \E netNeeds \in BOOLEAN :
       IF netNeeds \/ Elapsed(multTime) > CleanGap
         THEN multTime' = now
         ELSE UNCHANGED multTime
  /\ pc' = "top"
  /\ UNCHANGED <<clockVars, any, lokb, userVars, kbd, pressed, ch, logonStart,
                 runVars>>

\* The end of GetCaller: using_modem = incom (false: no caller came in on
\* a line while the loop ran), or -1 after a fast logon.
GetCallerDone ==
  /\ pc = "done"
  /\ usingModem' = IF lokb = 2 THEN -1 ELSE 0
  /\ pc' = "run"
  /\ UNCHANGED <<clockVars, multTime, any, lokb, userVars, kbd, pressed, ch,
                 logonStart, thisUser, alreadyOn, oneUser>>

(***************************************************************************)
(* Run's logon loop.                                                       *)
(***************************************************************************)
\* Mutant: the -U account is not read again after GotCaller.
RunUserSwitchNoReread ==
  /\ pc = "launch"
  /\ CASE thisUser = 0 ->
            UNCHANGED <<usernum, curUser, thisUser, usingModem>>
       [] thisUser \notin Deleted ->
            /\ usernum' = thisUser /\ curUser' = 1 /\ usingModem' = 0
            /\ UNCHANGED thisUser
       [] OTHER ->
            /\ usernum' = thisUser /\ curUser' = thisUser /\ thisUser' = 0
            /\ UNCHANGED usingModem
  /\ pc' = "caller"
  /\ UNCHANGED <<clockVars, multTime, any, lokb, unx, kbd, pressed, ch,
                 logonStart, alreadyOn, oneUser>>

\* The top of the loop with an account named by -U: it is loaded; if it is
\* not deleted, GotCaller (which loads user 1 and sets usernum = 1 and
\* using_modem from the speed of a line, 0 with no -B) runs and the account
\* is made current and loaded again; a deleted one is forgotten.
RunUserSwitch ==
  /\ pc = "launch"
  /\ CASE thisUser = 0 ->
            UNCHANGED <<usernum, curUser, thisUser, usingModem>>
       [] thisUser \notin Deleted ->
            /\ usernum' = thisUser /\ curUser' = thisUser /\ usingModem' = 0
            /\ UNCHANGED thisUser
       [] OTHER ->
            /\ usernum' = thisUser /\ curUser' = thisUser /\ thisUser' = 0
            /\ UNCHANGED usingModem
  /\ pc' = "caller"
  /\ UNCHANGED <<clockVars, multTime, any, lokb, unx, kbd, pressed, ch,
                 logonStart, alreadyOn, oneUser>>

\* Without a -U account: GotCaller for a caller already on the line
\* (user_already_on_), GetCaller, the WFC loop, otherwise.
RunCaller ==
  /\ pc = "caller"
  /\ CASE thisUser # 0 ->
            pc' = "run" /\ UNCHANGED <<usernum, curUser, usingModem>>
       [] alreadyOn ->
            /\ usernum' = 1 /\ curUser' = 1 /\ usingModem' = 0
            /\ pc' = "run"
       [] OTHER ->
            pc' = "enter" /\ UNCHANGED <<usernum, curUser, usingModem>>
  /\ UNCHANGED <<clockVars, multTime, any, lokb, unx, kbd, pressed, ch,
                 logonStart, thisUser, alreadyOn, oneUser>>

\* Mutant: this_usernum is not cleared once the logon is done.
RunLogonKeepUser ==
  /\ pc = "run"
  /\ CASE usingModem = -1 ->
            usingModem' = 0 /\ usernum' = unx /\ UNCHANGED curUser
       [] thisUser = 0 ->
            /\ \E u \in Accounts \ Deleted : usernum' = u /\ curUser' = u
            /\ UNCHANGED usingModem
       [] OTHER ->
            UNCHANGED <<usernum, curUser, usingModem>>
  /\ pc' = "session"
  /\ UNCHANGED <<clockVars, multTime, any, lokb, unx, kbd, pressed, ch,
                 logonStart, thisUser, alreadyOn, oneUser>>

\* The logon: a caller who is not the -U account goes through getuser
\* (outside src; modelled as logging on as some account that is not
\* deleted, whose record it loads); after a fast logon (using_modem -1)
\* usernum = unx_ without asking.  this_usernum is then cleared.
RunLogon ==
  /\ pc = "run"
  /\ CASE usingModem = -1 ->
            usingModem' = 0 /\ usernum' = unx /\ UNCHANGED curUser
       [] thisUser = 0 ->
            /\ \E u \in Accounts \ Deleted : usernum' = u /\ curUser' = u
            /\ UNCHANGED usingModem
       [] OTHER ->
            UNCHANGED <<usernum, curUser, usingModem>>
  /\ thisUser' = 0
  /\ pc' = "session"
  /\ UNCHANGED <<clockVars, multTime, any, lokb, unx, kbd, pressed, ch,
                 logonStart, alreadyOn, oneUser>>

\* The session ends (hangup_error, logoff, catsl, cleanup_net, disconnect):
\* user_already_on_ is cleared and Run loops, unless ooneuser.
SessionEnds ==
  /\ pc = "session"
  /\ alreadyOn' = FALSE
  /\ pc' = IF oneUser THEN "exit" ELSE "launch"
  /\ UNCHANGED <<clockVars, multTime, any, lokb, userVars, kbd, pressed, ch,
                 logonStart, thisUser, oneUser, usingModem>>

(***************************************************************************)
(* Specification.                                                          *)
(***************************************************************************)
\* Run's state after the command line (InitializeBBS has loaded user 1);
\* using_modem is set by GetCaller or GotCaller before Run reads it.
Init ==
  /\ pc = "launch"
  /\ \E l \in Launches :
       thisUser = l.user /\ alreadyOn = l.already /\ oneUser = l.one
  /\ usingModem = 0
  /\ now \in 0..(DayLen - 1)
  /\ statusDate \in {"today", "older"}
  /\ snapDate = statusDate
  /\ rolls = 0
  /\ sinceCallout \in 0..(CalloutGap + 1)
  /\ multTime = 0
  /\ any = FALSE
  /\ lokb = 0
  /\ usernum = 1 /\ curUser = 1 /\ unx = 0
  /\ kbd = <<>> /\ pressed = 0
  /\ ch = NoKey
  /\ logonStart = 0

\* The WFC loop.
WfcLoop == \/ EnterWfc \/ WfcTop \/ WfcKey \/ WfcNoKey \/ CmdLocalLogon
           \/ CmdQuit \/ CmdOther \/ LogonKey \/ LogonTimeout \/ LogonExt
           \/ LogonExtra \/ WfcPost \/ WfcIdle

\* The node's thread: Run, and the WFC loop it calls.
Dispatcher == WfcLoop \/ GetCallerDone \/ RunUserSwitch \/ RunCaller
              \/ RunLogon

Next == Tick \/ PressKey \/ Dispatcher \/ SessionEnds

\* The node's one thread runs whenever it can, and the clock never stops;
\* the sysop's keys and the length of a session are up to the sysop.
\* LocalLogon's busy-wait re-tests its condition without pause, so a timeout
\* that holds again and again (the distance to d rises and falls with the
\* wrap of timer()) is taken: strong fairness.
Fairness == WF_vars(Tick) /\ WF_vars(Dispatcher) /\ SF_vars(LogonTimeout)

Spec == Init /\ [][Next]_vars /\ Fairness

(***************************************************************************)
(* Properties.                                                             *)
(***************************************************************************)
Bytes == {b : b \in UNION {{ks[i] : i \in 1..Len(ks)} : ks \in Keystrokes}}

TypeOK ==
  /\ pc \in Pcs
  /\ now \in 0..(DayLen - 1) /\ multTime \in 0..(DayLen - 1)
  /\ statusDate \in {"today", "older"} /\ snapDate \in {"today", "older"}
  /\ rolls \in 0..MaxRolls /\ sinceCallout \in 0..(CalloutGap + 1)
  /\ any \in BOOLEAN /\ lokb \in 0..2
  /\ usernum \in Accounts /\ curUser \in Accounts /\ unx \in 0..9
  /\ kbd \in Seq([b : Bytes, first : BOOLEAN]) /\ pressed \in 0..MaxKeys
  /\ ch \in [b : Bytes \cup {"none"}, first : BOOLEAN]
  /\ logonStart \in 0..(DayLen - 1)
  /\ thisUser \in {0} \cup Accounts /\ alreadyOn \in BOOLEAN
  /\ oneUser \in BOOLEAN /\ usingModem \in {-1, 0}

\* Every session Run starts is consistent: the user record loaded is the
\* session account's and the account is not deleted, and after a fast
\* logon (LocalLogon returned 2, Run took usernum = unx_) the account has
\* SL 255.  On the -U path this needs Run to load the account again after
\* GotCaller has loaded user 1 over it, and to drop a deleted one; on the
\* fast path it needs LocalLogon's check and ReadCurrentUser and the
\* post-command reset that skips the reload once lokb is set.
SessionUserConsistent ==
  pc = "session" =>
    /\ curUser = usernum /\ usernum \notin Deleted
    /\ (lokb = 2 => Eligible(usernum))

\* An account named with -U logs on without getuser only in the first pass
\* of Run, the one the command line started: once that session is over
\* (user_already_on_ cleared), this_usernum is no longer pending, so later
\* callers come through the WFC loop and getuser.
CmdLineUserOnlyAtStart == thisUser # 0 => alreadyOn

\* Every byte the WFC loop dispatches as a command is the first byte of a
\* keystroke, never the scan code of an extended key.
CommandsAreWholeKeystrokes == pc = "cmd" => ch.first

\* LocalLogon's busy-wait ends: a key arrives or the minute runs out,
\* measured by std::abs(timer() - d) across midnight too.
BusyWaitEnds == pc = "logon" ~> pc # "logon"

\* The beginday rollover runs at most once per date (spec section 8).
RolloverOncePerDate == rolls <= 1

(***************************************************************************)
(* Refinement of the section 4.4 state machine (module WFCDispatcher).     *)
(***************************************************************************)
\* Where the dispatcher is, as the spec's state machine names it: a
\* command that brought no logon has already returned to Idle at the
\* post-command step, and a logon is handed off from there on.  Run's own
\* steps between sessions are Idle, and so is a session Run started without
\* the dispatcher (lokb still 0: the first pass of a pass-through logon)
\* and the end of a one-user run.
DispatcherState ==
  CASE pc \in {"enter", "idle", "launch", "caller"} -> "Idle"
    [] pc = "top"                                -> "RunningEvents"
    [] pc = "key"                                -> "AwaitingKey"
    [] pc \in {"cmd", "logon", "logonExt", "logonExtra"} -> "ExecutingCommand"
    [] pc = "post" /\ lokb = 0                   -> "Idle"
    [] pc = "post"                               -> "HandoffToLogon"
    [] pc \in {"done", "run", "session"} /\ lokb = 0 -> "Idle"
    [] pc \in {"done", "run", "session"}         -> "HandoffToLogon"
    [] pc = "exit" /\ oneUser                    -> "Idle"
    [] pc = "exit"                               -> "Exit"

\* The account the dispatcher works as inside its loop, and the one it
\* handed over (unx_ after a fast logon, the primary account otherwise)
\* from the hand-off until it runs again; getuser's choice of account is
\* the session's, not the dispatcher's.
DispatchPcs == {"top", "key", "cmd", "logon", "logonExt", "logonExtra",
                "post", "idle"}
HandedAccount == IF pc \in DispatchPcs THEN usernum
                 ELSE IF lokb = 2 THEN unx ELSE 1

Abstract == INSTANCE WFCDispatcher
              WITH state <- DispatcherState, result <- lokb,
                   account <- HandedAccount,
                   FastAccounts <- {n \in Accounts : Eligible(n)}

\* The loop implements the spec's dispatcher: one command per pass, always
\* after the events and the callout, each pass entered from Idle, and a
\* hand-off only with a valid logon request for an eligible account; the
\* session account changes only where the spec lets it.
ImplementsDispatcher == Abstract!Spec
====
