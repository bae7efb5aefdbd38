---------------------------- MODULE MCNodeStartup ----------------------------
(***************************************************************************)
(* NodeStartup for TLC: three instances sharing a two-instance WWIV.INI    *)
(* and a USER.LST that reaches every branch of create_phone_file.          *)
(***************************************************************************)
EXTENDS NodeStartup

\* Instance 3 is beyond NUM_INSTANCES = 2.
MCNodes == {1, 2, 3}

\* Every CONFIG.DAT the Config constructor tells apart.
MCConfigKinds == {"absent", "short", "v424", "unversioned", "current"}

\* A real voice number with a distinct data number; a dummy voice number,
\* which also suppresses the data number; a deleted user; a data number
\* equal to the voice number.
MCUsers == << [deleted |-> FALSE, voice |-> "p1", data |-> "p2"],
              [deleted |-> FALSE, voice |-> "000-", data |-> "p2"],
              [deleted |-> TRUE, voice |-> "p1", data |-> ""],
              [deleted |-> FALSE, voice |-> "p2", data |-> "p2"] >>

\* GetFlagsFromIniFile, as ReadINIFile applies it to the sysinfo and
\* sysconfig flag words, agrees with its reference on every run of up to
\* three entries over two bits, from every starting flag word.  The
\* function is pure, so the check is made in the initial states (before any
\* process has started) rather than once per reachable state.
IniFlagsMatchReference ==
  starts = 0 =>
  LET bits == {1, 2}
      es3 == UNION {[1..k -> IniEntries(bits)] : k \in 0..3}
  IN \A es \in es3, f \in SUBSET bits :
       GetFlagsFromIniFile(es, f) = IniReference(es, f, bits)
====
