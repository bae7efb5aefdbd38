----------------------------- MODULE NodeStartup -----------------------------
(***************************************************************************)
(* Start-up of BBS instances that share one data directory: the reading of *)
(* CONFIG.DAT (src/sdk/config.cpp) and WWIV.INI (ReadConfig,               *)
(* ReadInstanceSettings), InitializeBBS with its directories, the          *)
(* PHONENUM.DAT check-then-create (check_phonenum, create_phone_file) and  *)
(* the temp-directory clean-up of a node that has no caller yet, in        *)
(* src/bbs/xinit.cpp.                                                      *)
(*                                                                         *)
(* Each node is a separate process started with its own -n instance       *)
(* number; the processes interleave freely on the shared files.  A temp    *)
(* file is named by its directory and the node that made it; a directory   *)
(* is an instance number or 0, the one directory every node names when     *)
(* TEMP_DIRECTORY has no %n in it.  The batch directory defaults to the    *)
(* same string and follows the same rule.                                  *)
(***************************************************************************)
EXTENDS Naturals, Sequences, FiniteSets

CONSTANTS
  Nodes,         \* the instance numbers of the processes (-n)
  NumInstances,  \* NUM_INSTANCES in WWIV.INI
  ConfigKinds,   \* what CONFIG.DAT may hold on disk
  TempSettings,  \* what TEMP_DIRECTORY may be in WWIV.INI
  Users,         \* USER.LST: one record per user number
  NumChains,     \* records in CHAINS.DAT
  ChainRegSettings, \* what OP_FLAGS_CHAIN_REG may be in WWIV.INI
  MaxStarts      \* process starts in a behaviour

ASSUME /\ Nodes \subseteq 1..999 /\ NumInstances \in Nat
       /\ ConfigKinds \subseteq {"absent", "short", "v424", "unversioned", "current"}
       /\ TempSettings \subseteq {"unset", "perNode", "shared"}
       /\ NumChains \in Nat /\ ChainRegSettings \subseteq BOOLEAN
       /\ MaxStarts \in Nat

\* Phone number fields: empty, a dummy "000-" number, or real numbers.
Phones == {"", "000-", "p1", "p2"}

VARIABLES
  configDat,     \* CONFIG.DAT as found on disk
  tempSetting,   \* TEMP_DIRECTORY as found in WWIV.INI
  pc,            \* where each process is
  local,         \* !user_already_on_: no -B, -U or -X argument was given
  tmp,           \* temp_directory_ of each process
  cursor,        \* create_phone_file's nTempUserNumber
  phoneExists,   \* PHONENUM.DAT exists
  phone,         \* its records, <<usernum, number>>, in file order
  files,         \* temp files on disk: <<directory, maker>>
  chainReg,      \* OP_FLAGS_CHAIN_REG as found in WWIV.INI
  regExists,     \* CHAINS.REG exists
  regLen,        \* the records CHAINS.REG holds
  chainsReg,     \* the records of chains_reg in each process
  made,          \* history: the process has made its temp file since its start
  starts         \* process starts so far

regVars == <<chainReg, regExists, regLen, chainsReg>>
vars == <<configDat, tempSetting, pc, local, tmp, cursor, phoneExists, phone,
          files, made, starts, regVars>>
diskVars == <<configDat, tempSetting, phoneExists, phone, files, regVars>>

Pcs == {"off", "config", "init", "chains", "regCreate", "regWrite",
        "initRest", "phoneCheck", "phoneOpen", "phoneWrite",
        "finish", "wfc"}

(***************************************************************************)
(* CONFIG.DAT and WWIV.INI.                                                *)
(***************************************************************************)
\* Config::Config: a full configrec read initialises; a short read is
\* retried as a 4.24 file, which initialises only at exactly 5660 bytes.
\* Only a full record that starts with the "WWIV" signature is versioned.
Initialized(k) == k \in {"v424", "unversioned", "current"}
Versioned(k)   == k = "current"

\* ReadInstanceSettings: "%n" in TEMP_DIRECTORY becomes the instance number;
\* without it every instance names the same directory.
TempDirOf(n, s) == IF s = "perNode" THEN n ELSE 0

\* Start-up ends in AbortBBS or ExitBBSImpl without shutdown: the process
\* is gone and its memory with it.
Gone(n) == /\ pc' = [pc EXCEPT ![n] = "off"]
           /\ made' = [made EXCEPT ![n] = FALSE]

(***************************************************************************)
(* Processes.                                                              *)
(***************************************************************************)
\* The process is launched; its command line decides user_already_on_
\* (-B, -U and the -XT/-XS of the telnet and SSH servers set it).
Start(n) ==
  /\ pc[n] = "off" /\ starts < MaxStarts
  /\ starts' = starts + 1
  /\ \E alreadyOn \in BOOLEAN : local' = [local EXCEPT ![n] = ~alreadyOn]
  /\ pc' = [pc EXCEPT ![n] = "config"]
  /\ UNCHANGED <<diskVars, tmp, cursor, made>>

\* Mutant: ReadInstanceSettings without its NUM_INSTANCES test.
ReadConfigNoLimit(n) ==
  /\ pc[n] = "config"
  /\ IF /\ Initialized(configDat) /\ Versioned(configDat)
        /\ tempSetting # "unset"
       THEN /\ tmp' = [tmp EXCEPT ![n] = TempDirOf(n, tempSetting)]
            /\ pc' = [pc EXCEPT ![n] = "init"]
            /\ UNCHANGED made
       ELSE Gone(n) /\ UNCHANGED tmp
  /\ UNCHANGED <<diskVars, local, cursor, starts>>

\* ReadConfig with ReadInstanceSettings: CONFIG.DAT must be initialised and
\* versioned, TEMP_DIRECTORY set and the instance number within
\* NUM_INSTANCES; any failure ends the process.
ReadConfig(n) ==
  /\ pc[n] = "config"
  /\ IF /\ Initialized(configDat) /\ Versioned(configDat)
        /\ tempSetting # "unset" /\ n <= NumInstances
       THEN /\ tmp' = [tmp EXCEPT ![n] = TempDirOf(n, tempSetting)]
            /\ pc' = [pc EXCEPT ![n] = "init"]
            /\ UNCHANGED made
       ELSE Gone(n) /\ UNCHANGED tmp
  /\ UNCHANGED <<diskVars, local, cursor, starts>>

\* InitializeBBS up to read_chains: the temp and batch directories are
\* made, USER.QSC, the language, the message API, the status record, the
\* names, subs and dirs are read.  Each of these may fail, and AbortBBS
\* ends the process.
InitDirs(n) ==
  /\ pc[n] = "init"
  /\ \/ pc' = [pc EXCEPT ![n] = "chains"] /\ UNCHANGED made
     \/ Gone(n)
  /\ UNCHANGED <<diskVars, local, tmp, cursor, starts>>

\* read_chains: CHAINS.DAT is read; with OP_FLAGS_CHAIN_REG, CHAINS.REG is
\* read when it can be opened (as many records as it holds), otherwise one
\* default record per chain is built in memory to be written.
ReadChains(n) ==
  /\ pc[n] = "chains"
  /\ CASE ~chainReg ->
            pc' = [pc EXCEPT ![n] = "initRest"] /\ UNCHANGED chainsReg
       [] regExists ->
            /\ chainsReg' = [chainsReg EXCEPT ![n] = regLen]
            /\ pc' = [pc EXCEPT ![n] = "initRest"]
       [] OTHER ->
            /\ chainsReg' = [chainsReg EXCEPT ![n] = NumChains]
            /\ pc' = [pc EXCEPT ![n] = "regCreate"]
  /\ UNCHANGED <<configDat, tempSetting, phoneExists, phone, files, chainReg,
                 regExists, regLen, local, tmp, cursor, made, starts>>

\* DataFile writeFile(..., modeReadWrite | modeCreateFile) creates CHAINS.REG,
\* empty, if it is still absent.
RegCreate(n) ==
  /\ pc[n] = "regCreate"
  /\ regExists' = TRUE
  /\ pc' = [pc EXCEPT ![n] = "regWrite"]
  /\ UNCHANGED <<configDat, tempSetting, phoneExists, phone, files, chainReg,
                 regLen, chainsReg, local, tmp, cursor, made, starts>>

\* Mutant: the records appended, as create_phone_file's modeAppend would.
RegWriteAppend(n) ==
  /\ pc[n] = "regWrite"
  /\ regLen' = regLen + NumChains
  /\ pc' = [pc EXCEPT ![n] = "initRest"]
  /\ UNCHANGED <<configDat, tempSetting, phoneExists, phone, files, chainReg,
                 regExists, chainsReg, local, tmp, cursor, made, starts>>

\* WriteVector: the records are written from offset 0 of the file, over
\* whatever another node wrote there.
RegWrite(n) ==
  /\ pc[n] = "regWrite"
  /\ regLen' = IF regLen > NumChains THEN regLen ELSE NumChains
  /\ pc' = [pc EXCEPT ![n] = "initRest"]
  /\ UNCHANGED <<configDat, tempSetting, phoneExists, phone, files, chainReg,
                 regExists, chainsReg, local, tmp, cursor, made, starts>>

\* The rest of InitializeBBS up to check_phonenum: the protocol, archiver
\* and editor files are read and the attachment directory is made, whose
\* failure ends the process.
InitRest(n) ==
  /\ pc[n] = "initRest"
  /\ \/ pc' = [pc EXCEPT ![n] = "phoneCheck"] /\ UNCHANGED made
     \/ Gone(n)
  /\ UNCHANGED <<diskVars, local, tmp, cursor, starts>>

\* check_phonenum: PHONENUM.DAT is built only when it does not exist.
PhoneCheck(n) ==
  /\ pc[n] = "phoneCheck"
  /\ pc' = [pc EXCEPT ![n] = IF phoneExists THEN "finish" ELSE "phoneOpen"]
  /\ UNCHANGED <<diskVars, local, tmp, cursor, made, starts>>

\* create_phone_file: USER.LST is opened for its length, then PHONENUM.DAT
\* for append, created if absent.  A failed open returns at once.
PhoneOpen(n) ==
  /\ pc[n] = "phoneOpen"
  /\ \/ /\ phoneExists' = TRUE
        /\ cursor' = [cursor EXCEPT ![n] = 1]
        /\ pc' = [pc EXCEPT ![n] = "phoneWrite"]
     \/ /\ pc' = [pc EXCEPT ![n] = "finish"]
        /\ UNCHANGED <<phoneExists, cursor>>
  /\ UNCHANGED <<configDat, tempSetting, phone, files, local, tmp, made, starts, regVars>>

\* The records create_phone_file writes for user u: the voice number unless
\* empty or a "000-" number, then the data number unless empty, equal to
\* the voice number or -- as the code tests it -- the VOICE number is a
\* "000-" number.  Deleted users write nothing.
Selected(u) ==
  LET r == Users[u] IN
  IF r.deleted THEN <<>>
  ELSE (IF r.voice \notin {"", "000-"} THEN <<<<u, r.voice>>>> ELSE <<>>)
       \o (IF r.data # "" /\ r.data # r.voice /\ r.voice # "000-"
             THEN <<<<u, r.data>>>> ELSE <<>>)

\* One pass of the loop over user numbers 1..numOfRecords: the user's
\* records are appended (each Write goes to the end of the file); after the
\* last user the file is closed.
PhoneWrite(n) ==
  /\ pc[n] = "phoneWrite"
  /\ IF cursor[n] <= Len(Users)
       THEN /\ phone' = phone \o Selected(cursor[n])
            /\ cursor' = [cursor EXCEPT ![n] = @ + 1]
            /\ UNCHANGED pc
       ELSE pc' = [pc EXCEPT ![n] = "finish"] /\ UNCHANGED <<phone, cursor>>
  /\ UNCHANGED <<configDat, tempSetting, phoneExists, files, local, tmp, made,
                 starts, regVars>>

\* The rest of InitializeBBS: with no caller on line yet (!user_already_on_)
\* everything in the temp and batch directories is removed
\* (remove_from_temp "*.*") before cleanup_net; then the "brought up" log
\* line, catsl and the instance record set to WFC.
Finish(n) ==
  /\ pc[n] = "finish"
  /\ files' = IF local[n] THEN {f \in files : f[1] # tmp[n]} ELSE files
  /\ pc' = [pc EXCEPT ![n] = "wfc"]
  /\ UNCHANGED <<configDat, tempSetting, phoneExists, phone, local, tmp,
                 cursor, made, starts, regVars>>

\* The running node puts a file in its temp directory (dsz.log, a
\* downloaded batch, a packet being built).
Work(n) ==
  /\ pc[n] = "wfc" /\ ~made[n]
  /\ files' = files \cup {<<tmp[n], n>>}
  /\ made' = [made EXCEPT ![n] = TRUE]
  /\ UNCHANGED <<configDat, tempSetting, phoneExists, phone, pc, local, tmp,
                 cursor, starts, regVars>>

\* QuitBBS: the process exits; its temp files stay on disk.
Stop(n) ==
  /\ pc[n] = "wfc"
  /\ Gone(n)
  /\ UNCHANGED <<diskVars, local, tmp, cursor, starts>>

(***************************************************************************)
(* Specification.                                                          *)
(***************************************************************************)
Init ==
  /\ configDat \in ConfigKinds
  /\ tempSetting \in TempSettings
  /\ pc = [n \in Nodes |-> "off"]
  /\ local = [n \in Nodes |-> TRUE]
  /\ tmp = [n \in Nodes |-> 0]
  /\ cursor = [n \in Nodes |-> 1]
  /\ phoneExists = FALSE /\ phone = <<>>
  /\ files = {}
  /\ made = [n \in Nodes |-> FALSE]
  /\ starts = 0
  /\ chainReg \in ChainRegSettings /\ regExists = FALSE /\ regLen = 0
  /\ chainsReg = [n \in Nodes |-> 0]

Next == \E n \in Nodes :
          \/ Start(n) \/ ReadConfig(n) \/ InitDirs(n) \/ ReadChains(n)
          \/ RegCreate(n) \/ RegWrite(n) \/ InitRest(n) \/ PhoneCheck(n)
          \/ PhoneOpen(n) \/ PhoneWrite(n) \/ Finish(n) \/ Work(n) \/ Stop(n)

Spec == Init /\ [][Next]_vars

(***************************************************************************)
(* GetFlagsFromIniFile, a pure function of the INI entries.  A flag word   *)
(* is the set of its bits; an entry is a key (null in INI_OPTIONS_ARRAY or *)
(* not), the key's value ("" when absent, else what value<bool> reads it   *)
(* as), the entry's sense and its bit mask.                                *)
(***************************************************************************)
IniEntries(bits) == [key : {"null", "key"}, val : {"", "true", "false"},
                     sense : BOOLEAN, value : SUBSET bits]

\* One entry applied: a true value sets the mask, a false one clears it,
\* and sense inverts that; a null key or an empty value is skipped.
\* Mutant: the sense ignored.
ApplyFlagNoSense(e, flags) ==
  IF e.key = "null" \/ e.val = "" THEN flags
  ELSE IF e.val = "true" THEN flags \cup e.value ELSE flags \ e.value

ApplyFlag(e, flags) ==
  IF e.key = "null" \/ e.val = "" THEN flags
  ELSE IF (e.val = "true") # e.sense THEN flags \cup e.value
       ELSE flags \ e.value

\* The loop over the entries, in array order.
RECURSIVE GetFlagsFromIniFile(_, _)
GetFlagsFromIniFile(es, flags) ==
  IF es = <<>> THEN flags
  ELSE GetFlagsFromIniFile(Tail(es), ApplyFlag(Head(es), flags))

\* Reference: a bit is decided by the last entry that names it with a
\* value, set when that value is true exactly when the entry's sense is
\* not inverted; a bit no such entry names keeps its old state.
IniReference(es, flags, bits) ==
  {b \in bits :
     LET W == {i \in 1..Len(es) : es[i].key # "null" /\ es[i].val # ""
                                  /\ b \in es[i].value}
         last == CHOOSE i \in W : \A j \in W : j <= i
     IN IF W = {} THEN b \in flags
        ELSE (es[last].val = "true") # es[last].sense}

(***************************************************************************)
(* Properties.                                                             *)
(***************************************************************************)
\* Besides the types: no node works in a directory numbered past
\* NUM_INSTANCES.
TypeOK ==
  /\ configDat \in ConfigKinds /\ tempSetting \in TempSettings
  /\ pc \in [Nodes -> Pcs] /\ local \in [Nodes -> BOOLEAN]
  /\ tmp \in [Nodes -> 0..NumInstances]
  /\ cursor \in [Nodes -> 1..(Len(Users) + 1)]
  /\ phoneExists \in BOOLEAN
  /\ phone \in Seq((DOMAIN Users) \X Phones)
  /\ files \subseteq (0..NumInstances) \X Nodes
  /\ made \in [Nodes -> BOOLEAN] /\ starts \in 0..MaxStarts
  /\ chainReg \in BOOLEAN /\ regExists \in BOOLEAN
  /\ regLen \in Nat /\ chainsReg \in [Nodes -> Nat]

\* Once CHAINS.REG exists and no node is between creating and writing it,
\* it holds one record per chain of CHAINS.DAT, however the check-then-create
\* of read_chains in several starting nodes interleaved.
ChainsRegSettled ==
  (regExists /\ \A n \in Nodes : pc[n] \notin {"regCreate", "regWrite"})
    => regLen = NumChains
====
