# TLA+ models of the WWIV node: SSH bridge, start-up, WFC dispatcher, sysop log

This directory holds TLA+ models of the parts of the WWIV BBS node in `src/`
whose behaviour depends on concurrency, ordering and time. It also holds the
TLC configurations that check them. Each definition is written from the C++
source. `PROJECT.json` maps every definition to the lines it models.

## The system

A node (`WSession::Run`, `src/bbs/wsession.cpp`) parses its arguments,
reads its configuration (`xinit.cpp`, `sdk/config.cpp`) and creates its
remote I/O (`CreateComm`). Then it loops: wait for a caller, log the user on,
run the session, log off.

* **HostIdentity** (`Key`, `ssh.cpp` 40-93): opens or creates the
  password-protected key file that holds the SSH host key.
* **SecureSession** (`SSHSession`, `ssh.cpp` 95-163): a cryptlib SSH server
  session on the accepted socket.
  * The constructor creates the session, attaches the key and the socket,
    and tries up to 10 times to activate it.
  * On success it pops and discards one 4 KiB buffer ("control messages").
  * `PushData` and `PopData` hold the mutex `mu_`.
* **TransportBridge** (`IOSSH`, `ssh.cpp` 165-302):
  * `ssh_initalize` builds a loopback socket pair and starts two threads.
    `reader_thread` relays decrypted data to the pair; `writer_thread`
    relays the interactive side's output into the session.
  * The rest of the BBS reads and writes the other end (`plain_socket_`)
    as if it were a telnet socket.
  * `~IOSSH` joins both threads.
* **ConnectionDispatcher** ("waiting for call", `GetCaller`, `doWFCEvents`,
  `LocalLogon`, `wsession.cpp` 555-999): the idle loop of a local node. On
  each pass it:
  * runs the day rollover (`beginday`) when the date changed;
  * runs due events and the network callout;
  * dispatches one sysop key, or cleans up network files when idle.

  The SPACE key opens the local logon prompt. There, 'Y' logs on locally,
  and 'F' or a digit logs an SL-255 account on at once.
* **SessionLauncher** (`Run`, `CreateComm`, `ExitBBSImpl`): opens the
  remote I/O and exits if that fails. Its logon loop then starts a
  session in one of three ways. With `-U` it logs the named account on
  without asking, if that account is not deleted. For a caller already on
  the line (`-X`, `-B`) it calls `GotCaller`. Otherwise it calls
  `GetCaller`, the WFC loop. It then asks for the user (`getuser`) or,
  after a fast logon, takes `usernum = unx_`. With `ooneuser` (`-X`) the
  process ends after the one session.
* **SysopLog** (`sysoplog.cpp`): assembles log lines and appends them to
  the day's log.
* **Configuration and start-up** (`xinit.cpp`, `config.cpp`): `Config`
  reads CONFIG.DAT; `ReadConfig` and `ReadInstanceSettings` read WWIV.INI
  and derive the instance's temp and batch directories ("%n" becomes the
  instance number); `InitializeBBS` makes the directories, reads the data
  files (any failure aborts), builds CHAINS.REG (one default record per
  chain) and PHONENUM.DAT (from USER.LST) if they are missing, and, when no caller is on line yet, empties the temp and batch
  directories. Several instances share one data directory and start
  independently.

The components interact in two places, and the models follow both:
* the SSH bridge runs beside the session that `Run` drives over
  `plain_socket_`;
* the WFC loop hands `Run` a logon result and a loaded user record;
* every instance's start-up reads and writes the shared data directory
  (PHONENUM.DAT, CHAINS.REG, and the temp directory when TEMP_DIRECTORY
  has no %n).

## Modules

| Module | Models | MC module |
|---|---|---|
| `SSHBridge` | SecureSession and TransportBridge, with `Run`'s open/hand-off and `~WSession`'s teardown | `MCSSHBridge` |
| `WFC` | ConnectionDispatcher with `GetCaller`, and `Run`'s logon loop (`-U`, `GotCaller`, `getuser`, `ooneuser`) | `MCWFC` |
| `Launcher` | HostIdentity, with `Run`'s transport choice, `ReadConfig`'s abort, `CreateComm` and process exit, over a sequence of node processes | `MCLauncher` |
| `SysopLog` | SysopLog: `AddLineToSysopLogImpl` and `catsl`, for several node instances sharing the day's log | `MCSysopLog` |
| `NodeStartup` | Configuration and start-up: `Config::Config`, `ReadConfig`, `ReadInstanceSettings`, `InitializeBBS`, `check_phonenum`, `create_phone_file`, `GetFlagsFromIniFile`, for several instances at once | `MCNodeStartup` |
| `WFCDispatcher` | the dispatcher state machine of spec.md section 4.4, which `WFC` refines | (instanced by `WFC`) |

### SSHBridge

**Data.** Data is abstracted to units of 4 KiB, numbered in the order they
are sent. The peer sends units 1, 2, 3, … in SSH packets of up to
`MaxPacket` units. The interactive side writes units 1, 2, … into
`plain_socket_`. `DrainCap = 1` (the 4096-byte drain buffer), `ReadCap = 2`
(the 16 KiB relay buffers) and `MaxPacket = 3` (an SSH packet larger than
one relay buffer) keep the ratios of the real sizes.

**State.**
* `hs`: the constructor's phase. `tries` is the loop counter `i`.
* `owner`: the main thread. It moves through IOSSH construction, `Run`'s
  open, the session, teardown and the two joins.
* `threads`: whether `ssh_initalize` got as far as starting the threads.
* `wire`: packets on the raw socket.
* `cbuf`: data decrypted and buffered inside cryptlib.
* `rpc`/`wpc`: the two threads' program counters.
* `pipeIn`/`pipeOut`: the two directions of the socket pair.
* `lock`: the holder of `mu_`.
* `drained`, `rlost` and `wlost` are history variables: data thrown away by
  the drain, sent after `plain_socket_` closed, or lost to a failed push.

**Actions.** One action per step of the code, at the granularity where
another thread can interleave:
* `HsSetup`, `HsAuth`, `HsActivate` and `HsDrain` cover the constructor;
  each cryptlib call either succeeds or fails.
* `IOSSHInit` covers `ssh_initalize`: success, or one of its early
  `return false`.
* `RemoteOpen`, `LocalWrite`, `Teardown` and `JoinReader` cover the main
  thread. There is no join of the writer, because `writer_thread` never
  returns.
* The reader is `RSelect` (select on the raw socket), `RLock` and `RPop`
  (`PopData` under `mu_`, returning on -1) and `RSend`.
* The writer is `WSelect`, `WRecv` (0 at EOF loops back), `WLock`, `WPush`
  and `WFlush`.
* `PeerSend` and `PeerClose` are the client.

**cryptlib.** cryptlib is modelled as the code uses it:
* a pop reads the packets that have arrived, returns up to the buffer size
  and keeps the rest;
* it fails on a session that never activated, and at EOF once nothing is
  left;
* select on the raw socket is readable when a packet is there or the peer
  has closed.

### WFC

**State.**
* `pc`: the dispatcher's position in `GetCaller`, `doWFCEvents`,
  `LocalLogon` and `Run`.
* `now`: `timer()`, which wraps at midnight.
* Dates are kept relative to today. `statusDate` is the status file's last
  date; `snapDate` is the `last_date_status` snapshot taken when
  `doWFCEvents` starts. At midnight both become "older".
* `sinceCallout`: `time(nullptr) - last_time_c`, saturated.
* `multTime`: the static `mult_time`.
* `any`, `lokb`, `usernum`, `unx` and `ch` are the code's variables.
  `curUser` is the account whose record `ReadCurrentUser` loaded.
* `kbd`: the local keyboard buffer, as bytes. Each byte is marked with
  whether it starts a keystroke. An extended key is a 0 or 224 prefix
  followed by a scan code.
* `rolls` is a history variable: rollovers since midnight.
* `thisUser`, `alreadyOn` and `oneUser` are `Run`'s `this_usernum`,
  `user_already_on_` and `ooneuser`. Their initial values come from the
  command line (`Launches`).
* `usingModem` is `using_modem`. `Run` only tests whether it is -1, so 0
  stands for both 0 and 1.

**Actions.**
* `EnterWfc` is `GetCaller` plus the snapshot.
* `WfcTop` is the top of the loop: rollover, events and callout.
* `WfcKey` and `WfcNoKey` read a key, including the 0-prefix branch.
* `CmdLocalLogon`, `CmdQuit` and `CmdOther` dispatch a command.
* `LogonKey`, `LogonTimeout`, `LogonExt` and `LogonExtra` are
  `LocalLogon`, including its two `GetChar` calls after an extended key.
* `WfcPost` is the post-command reset and the loop condition.
* `WfcIdle` is the cleanup under `mult_time`.
* `GetCallerDone` is the end of `GetCaller`, which sets `using_modem`.
* `RunUserSwitch` is the `-U` block. It loads the account. If the account
  is not deleted, it runs `GotCaller`, which loads user 1 and sets
  `usernum = 1`, and then restores the account and loads it again. A
  deleted account is forgotten.
* `RunCaller` chooses between `GotCaller` and `GetCaller`.
* `RunLogon` is `getuser`, or `usernum = unx_` after a fast logon. It then
  clears `this_usernum`.
* `SessionEnds` is the session's end. It clears `user_already_on_` and
  either loops or, with `ooneuser`, ends the process.
* `getuser` is outside `src`. It is modelled as logging on as any account
  that is not deleted, and loading that account's record.

`Tick` is the clock and `PressKey` is the sysop.

**Refinement.** `WFCDispatcher` is the spec's state machine (Idle,
RunningEvents, AwaitingKey, ExecutingCommand, HandoffToLogon, Exit) with
the logon result and the session account. `WFC` instantiates it with
`DispatcherState` (a map from `pc`, and from `lokb` at the post-command
step), `result <- lokb`, `account <- HandedAccount` and the fast-logon
accounts `Eligible`. `HandedAccount` is `usernum` inside the loop. From
the hand-off on, it is the account the dispatcher handed over; the
account `getuser` picks belongs to the session. `Run`'s own steps are
Idle. So is a session `Run` starts without the dispatcher (`-U`, or a
caller already connected), since the spec's launcher may log a caller on
directly. `ImplementsDispatcher` (`Abstract!Spec`) is checked as a
property. The post-command step maps to Idle when no logon came of the
command, since the code's next step starts a new pass; `Tick`, `PressKey`
and the `LocalLogon` steps before the result are stutters.

**What is abstracted.** The bodies of the sysop commands (editors, mail,
menus) live outside `src`. The WFC loop only sees that a command ran, so
they are one action. `check_event` and `IsCleanNetNeeded` are
nondeterministic booleans.

### Launcher

A node process is started for each caller (`-XS`, `-XT`). The key file
`wwiv.key` and the system password outlive it. The model follows a
sequence of node processes, up to `MaxStarts` of them.

**State.**
* Disk: `keyFile` is "absent", "empty" (a keyset with no key in it) or
  "key". `keyPw` is the password the stored key is encrypted with.
  `hostKey` is the generation of the stored key (0 for none). `sysPw` is
  `systempw` in the configuration. `gens`, the keys generated so far, is a
  history variable.
* Process: `pc`; `req`, the transport the command line asked for; `type`,
  `CreateComm`'s copy, which a key failure lowers to TELNET; `once`, the
  function-local `static bool once` that have run; `keyCtx`, `context_` of
  the `Key`; `comm`, the remote I/O built.

**Actions.**
* `Start` is the `-X` switch and `ReadConfig` (a failure aborts).
* `KeyCheck` is `key_file.Exists()`.
* `CreateKey`, `CreateFile` and `AddKey` are the three stages of
  `Key::Create`. The context and key generation come first, then the
  keyset file is created, then the add and the close. Each cryptlib call
  may fail.
* `Open` is `Key::Open`.
* `Construct` is `CreateComm`'s switch. It switches on the type it was
  called with, so IOSSH is built whatever the key did.
* `Stop` is the end of the session (`QuitBBS`, `ExitBBSImpl`).
* `Crash` kills the process at any step.
* `ChangePassword` and `DeleteKeyFile` are the sysop between processes.

**The -R event time.** `ExecuteTime(t, m)` and `EventDelay(t, m)` are
`Run`'s handling of `-R<min>`. They are pure operators of the time of day
`t` and the argument `m`, giving `syscfg.executetime` and `last_time`. The
day is a constant: `MinutesPerDay` minutes of `SecsPerMinute` seconds.

### SysopLog

**Files.** Files are sequences of tokens. A token is a text (the node, the
number of the log call, and its width), a line break, or the padding
`AddLineToSysopLogImpl` writes (`"  "`, `", "`, `"   "`) with its width.

**State.**
* `inst` holds each node's `inst-NNN.log`.
* `daily` is the day's log, which all nodes share.
* `midline` is each process's static.
* `cpc` and `cpos` are where a node is in `catsl` and the offset its
  `Seek(0, seekEnd)` returned.
* `logged`, the texts each node logged in order, is a history variable.
* `crashes` counts process deaths.

**Actions.**
* `LogString` and `LogChar` are the two cases of `AddLineToSysopLogImpl`.
  `Wraps` is its wrap test.
* `CatOpen` (open and seek to the end), `CatCopy` (the copy loop, written at
  that offset) and `CatDelete` are `catsl`.
* `Restart` is a process ending after its session and a new one
  starting: statics are reset, files are kept.
* `Crash` is a process dying at any step, inside `catsl` too.
* A failed `Open` in either function returns with nothing changed, so it is
  a stutter step.

### NodeStartup

**State.**
* `configDat` and `tempSetting`: what CONFIG.DAT and TEMP_DIRECTORY hold,
  chosen in the initial state. CONFIG.DAT is one of the kinds
  `Config::Config` tells apart: absent, too short, exactly the 5660 bytes
  of 4.24, a full record without the "WWIV" signature, current.
* Per instance: `pc`, `local` (`!user_already_on_`), `tmp` (the temp
  directory: the instance number with %n, 0 without), `cursor` (the user
  loop of `create_phone_file`) and the history flag `made`.
* Shared: `phoneExists` and `phone` (PHONENUM.DAT's records in file
  order), `files` (temp files as directory and maker), `chainReg`
  (OP_FLAGS_CHAIN_REG in WWIV.INI), `regExists` and `regLen` (CHAINS.REG
  and its number of records).
* `chainsReg`: the records each process read into `chains_reg`.

**Actions.** `Start` (the command line), `ReadConfig` (with
`ReadInstanceSettings`), `InitDirs` (InitializeBBS up to `read_chains`,
any step of which may abort), `ReadChains` (CHAINS.REG read if it opens),
`RegCreate` and `RegWrite` (`read_chains` creating it and writing the
default records from offset 0), `InitRest` (the rest up to
`check_phonenum`, whose attachment directory may abort), `PhoneCheck`, `PhoneOpen`
(either open may fail), `PhoneWrite` (one user per step, appending),
`Finish` (the temp clean-up when `local`, then WFC), `Work` (a running
node puts a file in its temp directory) and `Stop` (QuitBBS). Processes
interleave freely.

`GetFlagsFromIniFile` is a RECURSIVE operator over a sequence of entries
(key null or not, value empty, true or false, sense, mask as a set of
bits). It is checked against `IniReference`, where each bit is decided by
the last entry that names it with a value.

## Runs

| Run | Expect | What it shows |
|---|---|---|
| `SSHBridge_fidelity` | pass | `StreamFidelity`: in both directions every unit is in exactly one place (drained, delivered, lost, buffered, on the wire), in order. `NoConcurrentCrypt`: the constructor, `PopData` and `PushData` never use the session at once. `PeerCloseEndsReader`: after the client disconnects, the reader relays what cryptlib holds and returns. |
| `SSHBridge_drain_loss` | violation | `NoInboundLoss`: the drain pop (ssh.cpp:140) throws away client data that arrived with the handshake. |
| `SSHBridge_stuck_buffer` | violation | `InboundDelivered`: the reader waits on the raw socket (ssh.cpp:181), so data cryptlib kept after a 16 KiB pop is not delivered until the client sends more. |
| `WFC_dispatch` | pass | `ImplementsDispatcher`: the loop refines the spec's dispatcher: one command per pass, each after the events and callout, and a hand-off only with a valid logon for an eligible account. `SessionUserConsistent`: every session `Run` starts has, as its loaded record, that of `usernum`, an account that is not deleted, and after a fast logon an eligible one. Every path is covered: `-U`, a deleted `-U` account, already connected, local and fast logon. `CmdLineUserOnlyAtStart`: a `-U` account is pending only while `user_already_on_` holds. So it skips `getuser` only in `Run`'s first pass. `BusyWaitEnds`: LocalLogon's wait ends, midnight included. |
| `WFC_rollover` | violation | `RolloverOncePerDate`: with the snapshot never refreshed (wsession.cpp:600, 608), `beginday` runs on every pass after midnight. The finding rests on two things outside `src`: that `WStatus` holds a copy of StatusMgr's cached record rather than a view of it, so that `beginday`'s update does not reach the snapshot, and that `beginday` has no date guard of its own. |
| `WFC_logon_ext` | violation | `CommandsAreWholeKeystrokes`: after an extended key at the prompt, `LocalLogon`'s second `GetChar` (990) swallows the next key's prefix, and the loop dispatches its scan code. |
| `Launcher_hostkey` | pass | `TypeOK` (including that a key file holds a key exactly when it has a generation and a password). `HostKeyStable`: across restarts, crashes at every step, failed cryptlib calls and password changes, the stored host key is replaced only after the sysop deletes the key file. `EventDelayMatchesReference`: for every time of day and every `-R` value up to a day, `last_time` is the delay to the start of the minute `m` minutes ahead, modulo a day, and lies in 0..a day. Both ends occur: 0 for `-R` of a whole day on an exact minute, and a whole day just after midnight. |
| `Launcher_crash` | violation | `KeyFileWhole`: `Key::Create` creates the keyset file before it adds the key (ssh.cpp:83-87). A crash or a failed add between the two leaves an empty keyset. The invariant is stated at the state a new node process observes, its `Exists()` test in `CreateComm`: the empty file inside a `Create` that goes on to add its key is seen by no one. The trace has a process dying between the create and the add and a new process reaching the test; `Exists()` is then true, so `Create` is never tried again and every later `Open` fails. |
| `SysopLog_lines` | pass | One node, no restarts. `LogFidelity`: the day's log followed by what is pending holds every logged text once and in order. `LinesWithinLimit`: no LOG_CHAR line passes column 78. `MidlineTracksLine`: `midline` is the width of the open line, counting the leading `"  "` as three. |
| `SysopLog_crashsafe` | pass | One node with normal restarts and up to 2 crashes at any step. `NoRecordLost`: `catsl` deletes only after copying, so no logged text is lost. |
| `NodeStartup_startup` | pass | Three instances (one past NUM_INSTANCES = 2) start, stop and restart up to 4 times. `TypeOK` includes that no instance gets a directory past NUM_INSTANCES. `ChainsRegSettled`: once CHAINS.REG exists and no node is between creating and writing it, it holds one record per chain. `IniFlagsMatchReference`: `GetFlagsFromIniFile` equals its reference on all runs of up to 3 entries over 2 bits. |
| `SysopLog_shared` | violation | `LogFidelity`: two nodes' `catsl` both seek to the end of the day's log before either writes (sysoplog.cpp:70, 78). The later write overwrites the earlier node's records. |

Each property of a passing run has a mutant in `PROJECT.json`: a plausible
bug in the definition it depends on, which TLC must catch. Examples are a
loop bound of `i <= 10`, a short send taken as whole, `PopData` without its
lock guard, a readiness test blind to EOF, a clock that does not wrap, the
post-command step going straight back to the key check, the `-U`
account not read again after `GotCaller`, `this_usernum` not cleared after
the logon, the distance without `std::abs`,
creating the key without the `Exists()` test, `last_time` without its
correction for an event past midnight, a key added with an empty
password, the wrap test without the `", "`, a wrap without the line
break, `LOG_STRING` that keeps `midline`, `catsl` without its seek to the
end, `catsl` without its delete, `ReadInstanceSettings` without its
NUM_INSTANCES test, CHAINS.REG written in append mode, and `GetFlagsFromIniFile` ignoring the sense.

Some behaviours the models reach have no run of their own. They are listed
as hazards in `PROJECT.json`, with the reason:
* `~IOSSH` hangs in the join of `writer_thread`, which has no exit.
* A failed handshake is handed to `Run` (ssh.cpp:220).
* `CreateComm` builds IOSSH after a key failure (wsession.cpp:169).
* `cryptInit` runs once per function-local static (ssh.cpp:55, 70, 96).
* A restarted node's `midline` of 0 continues an open line past column 78.
* A `catsl` interrupted between copy and delete copies the records twice.
* LocalLogon's prompt, opened just before midnight, times out at once:
  `abs(timer() - d)` jumps at the wrap (wsession.cpp:929). `BusyWaitEnds`
  checks only that the wait ends.
* A node dying inside `create_phone_file` leaves a partial PHONENUM.DAT
  that `check_phonenum` never rebuilds (xinit.cpp:829).
* Two nodes both building PHONENUM.DAT leave every record twice: both
  see the file missing at xinit.cpp:829 and both append the whole list.
  The startup model reaches that file, but nothing in the spec, the
  code's comments or the tests says the file must be free of repeats, and
  the dupphone scan that reads it is outside `src`.
* A node that opens CHAINS.REG after another created it and before that one
  wrote it reads no records (xinit.cpp:601). The startup run reaches that
  state; what the chain code outside `src` does with it is not modelled.
* A TEMP_DIRECTORY without %n lets a starting node empty the temp
  directory of running nodes (xinit.cpp:796). The startup run uses only
  %n or no setting, where every node's directory is its own, so no run
  states it.

## Bounds

**SSHBridge.**
* The peer sends 3 units and the local side 2.
* Packets of up to 3 units and a 2-unit relay buffer make a pop leave data
  inside cryptlib.
* A 1-unit drain can swallow part of a packet.
* `MaxAttempts = 10` as in the code, so the loop can run out.

**WFC.**
* A day of 5 s and a minute of 2 s. This is the shortest day in which, as
  with the real 86400 s and 60 s, every start of the prompt has an instant a
  full minute away. A 3-second day makes the timeout unreachable for a
  prompt opened at noon, a scaling artifact.
* Up to 3 keystrokes. An extended key at the prompt needs two more keys to
  show the swallowed prefix.
* Accounts 1 (SL 255), 2 (SL 10), 3 (SL 255) and 4 (deleted), so that a
  fast logon is both refused and granted for an account other than 1.
* Four command lines: none, `-U3`, `-U4` and `-XT`. Together they take
  every branch of `Run`'s loop: the `-U` logon, the deleted `-U` account
  falling back to `GotCaller`, `GotCaller` for a connected caller with
  `ooneuser`, and the WFC. `-U` ends in a second pass through the WFC.
  The violation runs use the plain command line only.

**Launcher.**
* 3 node processes. The first creates the key, a second opens it or finds
  it damaged, and a third shows what a change of the first two does.
* Two passwords, so that a key is stored under a password that is no
  longer the system's.
* All three transports.
* A day of 6 minutes of 4 seconds for `-R`. Every time of day and every
  argument from 1 minute to a whole day is checked. This includes a time
  on a minute, just after one, just before one, and just before midnight.

**SysopLog.**
* Texts of widths 30 and 45. Two 30s share a LOG_CHAR line. A 45 after a
  30 ends at column 79 with the `", "` and so wraps. A text wider than
  75 can never share a line.
* Up to 4 log calls for one node, or 2 each for two nodes. Two nodes are
  enough for the overwrite.
* 2 crashes, so that a `catsl` interrupted after its copy runs again.

**NodeStartup.**
* Instances 1, 2 and 3 with NUM_INSTANCES = 2, so one instance is refused.
  Two accepted instances are enough for both races (the phone file, the
  temp directory).
* All five CONFIG.DAT kinds; TEMP_DIRECTORY set with %n or missing.
* 4 starts in all, so that a node restarts while another runs.
* Two chains and OP_FLAGS_CHAIN_REG on, so that two nodes can race on
  CHAINS.REG. With the flag off `read_chains` never touches it.
* Four users: a voice and a distinct data number, a "000-" voice number
  (which also drops the data number, as the code tests the voice number),
  a deleted user, and equal voice and data numbers.

## Fairness

**SSHBridge.**
* Weak fairness for the constructor, the main thread's own steps and every
  step of both relay threads: they are code that runs when it can.
* The client (`PeerSend`, `PeerClose`) and the user's session
  (`LocalWrite`, `Teardown`) are not fair. A client may never disconnect.

**WFC.**
* Weak fairness for the dispatcher (one thread) and the clock.
* Strong fairness for `LogonTimeout`. The busy-wait re-tests its condition
  without pause, and with the wrap of `timer()` that condition holds only
  at some times of day.
* Keys and session length are up to the sysop.

**Launcher, SysopLog and NodeStartup.** These specs assume no fairness; their runs
check only safety properties.

Deadlock checking is off in every run. `MaxStarts` and `MaxCalls` bound
the Launcher, SysopLog and NodeStartup behaviours, which then stop. `QuitBBS` and a `std::terminate`
really end the process.

## Not modelled, and why

* **The contents of log lines** (`sysoplog`'s indent, `sysoplogf`'s
  formatting) are abstracted. The model keeps only widths and where each
  text came from.
* **Text wider than a line.** `LOG_STRING` text of any length is written as
  one line. The width property is about LOG_CHAR lines, so the texts the
  model logs are at most 75 wide.
* **The other fields of WWIV.INI** (colours, sizes, command strings) and
  the in-memory reads of InitializeBBS (`read_language`, `read_subs`,
  `read_dirs`, `read_nextern` and the rest) are only their success or
  abort. `read_chains` is modelled for CHAINS.REG only; CHAINS.DAT is taken
  to hold `NumChains` records. The two
  fields other models depend on (the beginday node number, the callout
  flag) are constants there. `SetConfigFlags` is outside `src`.
* **A crash inside `create_phone_file`.** NodeStartup has no crash action,
  because the code has no recovery for it to check (see above).
* **`msgbase1_test.cpp`** tests code that is not under `src`.
* **Argument parsing in `Run`** sets the values the models take as
  constants or initial states.
* **`-B` without `-X`.** `GotCaller` sets `incom` for a caller on a line.
  The WFC loop exits on `incom`, and `frequent_init`, outside `src`, may or
  may not clear it first. `WFC` therefore starts the loop only with
  `incom` false: from no switches, `-U` (`ui = 0`), or after a one-user
  session, which ends the process. `-E`, the event-only start, is not
  modelled.
