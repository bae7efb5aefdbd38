------------------------------ MODULE Launcher ------------------------------
(***************************************************************************)
(* Node start-up across restarts: WSession::Run picks the transport from   *)
(* its -X argument and reads the configuration; CreateComm loads the SSH   *)
(* host key with Key::Open, creating it first with Key::Create when the    *)
(* key file is missing, and builds the remote I/O.  The key file and the   *)
(* system password outlive the process; a node process may crash at any   *)
(* step and a new one is started for the next caller.                      *)
(*                                                                         *)
(* The host key is named by a generation number: Key::Create makes a new   *)
(* key, generation gens + 1.                                               *)
(*                                                                         *)
(* Run's -R<min> argument ("max # minutes until event") sets the event     *)
(* time; that computation is a pure function of the time of day and the    *)
(* argument, checked against its reference for every input of a scaled    *)
(* day.                                                                    *)
(***************************************************************************)
EXTENDS Integers

CONSTANTS
  Types,       \* transports the command line selects: -XT, -XS, or none
  Passwords,   \* system passwords (config()->systempw) the sysop may set
  MaxStarts,   \* node processes started in a behaviour
  CanCrash,    \* may a node process die between two steps
  MinutesPerDay, \* 1440
  SecsPerMinute  \* 60 (the code's literal 60 and MINUTES_PER_HOUR)

ASSUME /\ Types \subseteq {"NONE", "TELNET", "SSH"} /\ Types # {}
       /\ Passwords # {} /\ "none" \notin Passwords
       /\ MaxStarts \in Nat /\ CanCrash \in BOOLEAN
       /\ MinutesPerDay \in Nat \ {0} /\ SecsPerMinute \in Nat \ {0}

SecsPerDay == MinutesPerDay * SecsPerMinute   \* SECONDS_PER_DAY

(***************************************************************************)
(* Run's -R<min> handling, for timer() = t seconds since midnight and      *)
(* num_min = m (both small: the uint16_t cast and the int products do not  *)
(* overflow for m up to a day).                                            *)
(***************************************************************************)
\* syscfg.executetime: the minute of the day the event is set for, the
\* minute count m minutes from now, brought back once into the day.
ExecuteTime(t, m) ==
  LET e == (t + m * SecsPerMinute) \div SecsPerMinute
  IN  IF e > MinutesPerDay THEN e - MinutesPerDay ELSE e

\* Mutant: last_time without its correction for an event past midnight.
EventDelayNoWrap(t, m) == ExecuteTime(t, m) * SecsPerMinute - t

\* last_time: seconds from now to time_event, a day added when negative.
EventDelay(t, m) ==
  LET d == ExecuteTime(t, m) * SecsPerMinute - t
  IN  IF d < 0 THEN d + SecsPerDay ELSE d

VARIABLES
  keyFile,   \* wwiv.key on disk: "absent", "empty" (a keyset with no key),
             \* or "key"
  keyPw,     \* the password the stored key is encrypted with
  hostKey,   \* generation of the stored key, 0 when there is none
  gens,      \* keys generated so far (history)
  sysPw,     \* the system password in the configuration
  starts,    \* node processes started so far
  pc,        \* where the current process is
  req,       \* the transport the command line asked for
  type,      \* CreateComm's type, SSH possibly lowered to TELNET
  once,      \* function-local `static bool once` already run, by function
  keyCtx,    \* Key::context_: "none", "generated" by Create, "loaded" by Open
  comm       \* the remote I/O built: "none", "IOSSH", "telnet", "null"

diskVars == <<keyFile, keyPw, hostKey, gens, sysPw>>
procVars == <<pc, req, type, once, keyCtx, comm>>
vars == <<diskVars, starts, procVars>>

Pcs == {"start", "keyCheck", "create", "createFile", "addKey", "open",
        "construct", "running", "done"}

\* The static once-init at the top of Key::Open, Key::Create and the
\* SSHSession constructor: each function has its own `once`.
OnceInit(f) == once' = once \cup {f}

\* A failure CreateComm answers with "SSH will be disabled".
Disable == type' = "TELNET"

(***************************************************************************)
(* WSession::Run up to CreateComm.                                         *)
(***************************************************************************)
\* A node process starts: the command line gives the transport (-XS SSH,
\* -XT telnet, none for a local node), then ReadConfig; when it fails the
\* node aborts.
Start ==
  /\ pc \in {"start", "done"}
  /\ starts < MaxStarts
  /\ starts' = starts + 1
  /\ \E t \in Types, configOk \in BOOLEAN :
       /\ req' = t /\ type' = t
       /\ pc' = CASE ~configOk   -> "done"
                  [] t = "SSH"   -> "keyCheck"
                  [] OTHER       -> "construct"
  /\ once' = {} /\ keyCtx' = "none" /\ comm' = "none"
  /\ UNCHANGED diskVars

(***************************************************************************)
(* CreateComm, case SSH, with Key::Create and Key::Open.                   *)
(***************************************************************************)
\* Mutant: CreateComm without its key_file.Exists() test.
KeyCheckNoExists ==
  /\ pc = "keyCheck"
  /\ pc' = "create"
  /\ UNCHANGED <<diskVars, starts, req, type, once, keyCtx, comm>>

\* if (!key_file.Exists()): create the key first.
KeyCheck ==
  /\ pc = "keyCheck"
  /\ pc' = IF keyFile = "absent" THEN "create" ELSE "open"
  /\ UNCHANGED <<diskVars, starts, req, type, once, keyCtx, comm>>

\* Key::Create: cryptCreateContext, the label and cryptGenerateKey.  A
\* failure returns false: CreateComm disables SSH and goes on to Open.
CreateKey ==
  /\ pc = "create"
  /\ OnceInit("Create")
  /\ \/ /\ keyCtx' = "generated"
        /\ pc' = "createFile"
        /\ UNCHANGED type
     \/ /\ Disable
        /\ pc' = "open"
        /\ UNCHANGED keyCtx
  /\ UNCHANGED <<diskVars, starts, req, comm>>

\* cryptKeysetOpen(CRYPT_KEYOPT_CREATE): the keyset file now exists, empty,
\* replacing any file of that name.
CreateFile ==
  /\ pc = "createFile"
  /\ \/ /\ keyFile' = "empty" /\ keyPw' = "none" /\ hostKey' = 0
        /\ pc' = "addKey"
        /\ UNCHANGED type
     \/ /\ Disable
        /\ pc' = "open"
        /\ UNCHANGED <<keyFile, keyPw, hostKey>>
  /\ UNCHANGED <<gens, sysPw, starts, req, once, keyCtx, comm>>

\* Mutant: the key added with an empty password (password_ not yet set
\* from the configuration).
AddKeyNoPassword ==
  /\ pc = "addKey"
  /\ \/ /\ keyFile' = "key" /\ keyPw' = "none"
        /\ hostKey' = gens + 1 /\ gens' = gens + 1
        /\ UNCHANGED type
     \/ /\ keyFile' = "key" /\ keyPw' = "none"
        /\ hostKey' = gens + 1 /\ gens' = gens + 1
        /\ Disable
     \/ /\ Disable
        /\ UNCHANGED <<keyFile, keyPw, hostKey, gens>>
  /\ pc' = "open"
  /\ UNCHANGED <<sysPw, starts, req, once, keyCtx, comm>>

\* cryptAddPrivateKey under the system password, then cryptKeysetClose.
\* The add may fail (the keyset stays empty); the close may fail after the
\* key is written; either makes Create return false.
AddKey ==
  /\ pc = "addKey"
  /\ \/ /\ keyFile' = "key" /\ keyPw' = sysPw
        /\ hostKey' = gens + 1 /\ gens' = gens + 1
        /\ UNCHANGED type
     \/ /\ keyFile' = "key" /\ keyPw' = sysPw
        /\ hostKey' = gens + 1 /\ gens' = gens + 1
        /\ Disable
     \/ /\ Disable
        /\ UNCHANGED <<keyFile, keyPw, hostKey, gens>>
  /\ pc' = "open"
  /\ UNCHANGED <<sysPw, starts, req, once, keyCtx, comm>>

\* Key::Open: cryptKeysetOpen, cryptGetPrivateKey with the system password,
\* cryptKeysetClose.  It fails on a missing or empty keyset and on a key
\* stored under another password (context_ is then left as it was); the
\* failure disables SSH.
Open ==
  /\ pc = "open"
  /\ OnceInit("Open")
  /\ IF keyFile = "key" /\ keyPw = sysPw
       THEN keyCtx' = "loaded" /\ UNCHANGED type
       ELSE Disable /\ UNCHANGED keyCtx
  /\ pc' = "construct"
  /\ UNCHANGED <<diskVars, starts, req, comm>>

\* CreateComm's switch is on the type it was called with: in the SSH case
\* comm_.reset(new IOSSH) whatever type now says; its
\* SSHSession constructor runs its own once-init.  TELNET and NONE wrap the
\* socket or build the null I/O.  Run then opens it and serves the caller.
Construct ==
  /\ pc = "construct"
  /\ CASE req = "SSH"    -> comm' = "IOSSH" /\ OnceInit("Session")
       [] req = "TELNET" -> comm' = "telnet" /\ UNCHANGED once
       [] OTHER          -> comm' = "null" /\ UNCHANGED once
  /\ pc' = "running"
  /\ UNCHANGED <<diskVars, starts, req, type, keyCtx>>

\* The session ends (-XS and -XT nodes serve one user) or the process dies
\* part-way; the files stay as they are.
Stop ==
  /\ pc = "running"
  /\ pc' = "done"
  /\ UNCHANGED <<diskVars, starts, req, type, once, keyCtx, comm>>

Crash ==
  /\ CanCrash
  /\ pc \notin {"start", "done"}
  /\ pc' = "done"
  /\ UNCHANGED <<diskVars, starts, req, type, once, keyCtx, comm>>

(***************************************************************************)
(* The sysop, between node processes.                                      *)
(***************************************************************************)
\* The system password is changed in the configuration.
ChangePassword ==
  /\ pc \in {"start", "done"}
  /\ \E p \in Passwords : sysPw' = p
  /\ UNCHANGED <<keyFile, keyPw, hostKey, gens, starts, procVars>>

\* "If so, delete wwiv.key": the sysop removes the key file.
DeleteKeyFile ==
  /\ pc \in {"start", "done"}
  /\ keyFile # "absent"
  /\ keyFile' = "absent" /\ keyPw' = "none" /\ hostKey' = 0
  /\ UNCHANGED <<gens, sysPw, starts, procVars>>

Init ==
  /\ keyFile = "absent" /\ keyPw = "none" /\ hostKey = 0 /\ gens = 0
  /\ sysPw \in Passwords
  /\ starts = 0
  /\ pc = "start" /\ req = "NONE" /\ type = "NONE" /\ once = {} /\ keyCtx = "none"
  /\ comm = "none"

Next == Start \/ KeyCheck \/ CreateKey \/ CreateFile \/ AddKey \/ Open
        \/ Construct \/ Stop \/ Crash \/ ChangePassword \/ DeleteKeyFile

Spec == Init /\ [][Next]_vars

(***************************************************************************)
(* Properties.                                                             *)
(***************************************************************************)
\* Types, and the stored key's bookkeeping: a key file holding a key has a
\* generation and a password, and only then.
TypeOK ==
  /\ keyFile \in {"absent", "empty", "key"}
  /\ keyPw \in Passwords \cup {"none"} /\ sysPw \in Passwords
  /\ gens \in 0..MaxStarts /\ hostKey \in 0..gens
  /\ (keyFile = "key") = (hostKey # 0) /\ (keyFile = "key") = (keyPw # "none")
  /\ starts \in 0..MaxStarts /\ pc \in Pcs
  /\ req \in Types \cup {"NONE"} /\ type \in Types \cup {"NONE", "TELNET"}
  /\ once \subseteq {"Open", "Create", "Session"}
  /\ keyCtx \in {"none", "generated", "loaded"}
  /\ comm \in {"none", "IOSSH", "telnet", "null"}

\* The host key clients see is long-lived (spec section 3: never mutated
\* after creation): across restarts, crashes and password changes, the
\* stored key is replaced only after the sysop deletes the key file.
HostKeyStable ==
  [][(hostKey # 0 /\ hostKey' # hostKey) => keyFile' = "absent"]_vars

\* A key file that a new node process's Exists() test finds holds a key:
\* CreateComm decides between Open and Create by that test alone, so a
\* keyset left empty by an earlier process (a crash or a failed add between
\* Key::Create's cryptKeysetOpen and its cryptAddPrivateKey) would never be
\* created again.  The empty file inside a Create that goes on to add its
\* key is not observed by anyone and is allowed.
KeyFileWhole == pc = "keyCheck" => keyFile # "empty"

\* -R<min> sets the event at the start of the minute m minutes from now,
\* on the clock of one day: last_time is that delay modulo a day, and it
\* lies between 0 and a whole day.  The run checks every time of day and
\* every m up to a day (once, in the initial states).
EventDelayMatchesReference ==
  starts = 0 =>
    \A t \in 0..(SecsPerDay - 1), m \in 1..MinutesPerDay :
      LET d == EventDelay(t, m) IN
      /\ d \in 0..SecsPerDay
      /\ d % SecsPerDay = (m * SecsPerMinute - (t % SecsPerMinute)) % SecsPerDay
=============================================================================
