----------------------------- MODULE MCSSHBridge -----------------------------
(***************************************************************************)
(* Model-checking instance of SSHBridge.  One unit stands for 4 KiB:       *)
(* the drain buffer (4096 bytes) is 1 unit, the relay buffers (16 KiB)     *)
(* are 2 units and an SSH packet (up to 32 KiB) is 3 units, so a packet    *)
(* can be larger than one relay read, as in the code.  Three units from    *)
(* the client and two from the interactive side give every split of a      *)
(* packet across reads, and the activation loop keeps its 10 iterations.   *)
(***************************************************************************)
EXTENDS SSHBridge

MCMaxSend     == 3
MCMaxPacket   == 3
MCReadCap     == 2
MCDrainCap    == 1
MCMaxOut      == 2
MCMaxAttempts == 10
=============================================================================
