----------------------------- MODULE SSHBridge -----------------------------
(***************************************************************************)
(* The secure transport bridge of src/bbs/ssh.cpp: the SSHSession          *)
(* constructor's handshake, PushData/PopData under the session mutex, the  *)
(* reader and writer relay threads started by IOSSH::ssh_initalize, and    *)
(* the IOSSH lifecycle as driven by WSession::Run (handoff, teardown and   *)
(* the joins in ~IOSSH).                                                   *)
(*                                                                         *)
(* Data is abstracted to units: the peer sends the units 1, 2, 3, ... in   *)
(* SSH packets of up to MaxPacket units; the interactive side writes the   *)
(* units 1, 2, ... into its end of the loopback socket pair.  One unit     *)
(* stands for 4 KiB, so DrainCap (the 4096-byte drain buffer), ReadCap     *)
(* (the 16 KiB relay buffers) and MaxPacket (a 32 KiB SSH packet) keep the *)
(* order of the real sizes.                                                *)
(***************************************************************************)
EXTENDS Naturals, Sequences, SequencesExt

CONSTANTS
  MaxSend,      \* units the peer sends in total
  MaxPacket,    \* units in one SSH packet from the peer
  ReadCap,      \* units one PopData or recv moves (16 KiB buffer)
  DrainCap,     \* units the constructor's drain pop moves (4 KiB buffer)
  MaxOut,       \* units the interactive side writes in total
  MaxAttempts,  \* iterations of the activation loop (10 in the code)
  EarlyData     \* may the client send data before the drain pop has run

ASSUME /\ DrainCap \in Nat \ {0} /\ ReadCap \in Nat \ {0}
       /\ MaxPacket \in Nat \ {0} /\ MaxAttempts \in Nat \ {0}
       /\ MaxSend \in Nat /\ MaxOut \in Nat /\ EarlyData \in BOOLEAN

VARIABLES
  hs,         \* phase of the SSHSession constructor
  tries,      \* the loop counter i of the activation loop
  owner,      \* the main thread: IOSSH construction, session, teardown
  threads,    \* ssh_initalize built the socket pair and started the threads
  peerOpen,   \* the remote client's TCP connection is open
  localOpen,  \* plain_socket_, the interactive side's end, is open
  wire,       \* SSH packets on the raw socket not yet read by cryptlib
  cbuf,       \* decrypted units buffered inside the cryptlib session
  sent,       \* the peer has sent the units 1..sent
  drained,    \* units thrown away by the constructor's drain pop
  rpc,        \* reader_thread program counter
  rchunk,     \* units popped by reader_thread, not yet sent
  pipeIn,     \* units reader_thread wrote to pipe_socket
  rlost,      \* units reader_thread sent after plain_socket_ closed
  wpc,        \* writer_thread program counter
  wbuf,       \* units recv'd by writer_thread, not yet pushed
  pipeOut,    \* units written by the interactive side, not yet recv'd
  outSent,    \* the interactive side has written the units 1..outSent
  remoteGot,  \* units flushed to the peer
  wlost,      \* units whose PushData returned 0
  lock        \* holder of SSHSession::mu_

ctorVars   == <<hs, tries>>
ownerVars  == <<owner, threads, localOpen>>
peerVars   == <<peerOpen, wire, cbuf, sent, drained>>
readerVars == <<rpc, rchunk, pipeIn, rlost>>
writerVars == <<wpc, wbuf, pipeOut, outSent, remoteGot, wlost>>
vars == <<ctorVars, ownerVars, peerVars, readerVars, writerVars, lock>>

HsPhases    == {"create", "key", "socket", "auth", "activate", "drain",
                "ready", "failed"}
OwnerPhases == {"ctor", "open", "session", "exit", "joinR", "joinW", "done",
                "aborted"}
ReaderPcs   == {"none", "select", "pop", "popcall", "send", "exited"}
WriterPcs   == {"none", "select", "recv", "push", "pushcall", "flushcall"}

Take(s, n) == SubSeq(s, 1, IF n < Len(s) THEN n ELSE Len(s))
Rest(s, n) == SubSeq(s, IF n < Len(s) THEN n + 1 ELSE Len(s) + 1, Len(s))
Ids(lo, hi) == [i \in 1..(hi - lo + 1) |-> lo + i - 1]
Units(s) == {s[i] : i \in DOMAIN s}

-----------------------------------------------------------------------------
(* cryptlib, as SSHSession drives it.                                      *)

\* The session was activated: pop and push reach the protocol.
Active == hs \in {"drain", "ready"}

\* Mutant: a readiness test that misses EOF on the raw socket.
RawReadableNoEof == wire # <<>>

\* socket_avail(session.socket_handle()): select() on the raw socket says
\* readable when a packet has arrived or the peer has closed (EOF).
RawReadable == wire # <<>> \/ ~peerOpen

\* cryptPopData reads the packets that have arrived (k of them, at least
\* one if any), hands back at most cap units and keeps the rest buffered.
\* It fails on a session that never activated, and at EOF once nothing is
\* buffered and nothing is left on the socket.
PopReads     == IF wire = <<>> THEN 0..0 ELSE 1..Len(wire)
PopBuf(k)    == cbuf \o FlattenSeq(SubSeq(wire, 1, k))
Popped(k, c) == Take(PopBuf(k), c)
Kept(k, c)   == Rest(PopBuf(k), c)
PopFails(k)  == ~Active \/ (PopBuf(k) = <<>> /\ k = Len(wire) /\ ~peerOpen)

-----------------------------------------------------------------------------
(* SSHSession::SSHSession: create, attach key, attach socket, activate.    *)

\* cryptCreateSession, set PRIVATEKEY, set NETWORKSOCKET: each either
\* succeeds or the constructor returns early with initialized_ false.
HsSetup ==
  /\ hs \in {"create", "key", "socket"}
  /\ \/ hs' = CASE hs = "create" -> "key"
               [] hs = "key"    -> "socket"
               [] hs = "socket" -> "auth"
     \/ hs' = "failed"
  /\ UNCHANGED <<tries, ownerVars, peerVars, readerVars, writerVars, lock>>

\* Mutant: the retry loop bounded by i <= 10.
HsAuthLoopBound ==
  /\ hs = "auth"
  /\ \/ /\ tries < MaxAttempts
        /\ hs' = "activate"
        /\ UNCHANGED tries
     \/ /\ tries <= MaxAttempts
        /\ tries' = tries + 1
        /\ UNCHANGED hs
     \/ /\ tries = MaxAttempts
        /\ hs' = "failed"
        /\ UNCHANGED tries
  /\ UNCHANGED <<ownerVars, peerVars, readerVars, writerVars, lock>>

\* The loop head (i < 10) and AUTHRESPONSE: a failed set is `continue`.
HsAuth ==
  /\ hs = "auth"
  /\ \/ /\ tries < MaxAttempts
        /\ hs' = "activate"
        /\ UNCHANGED tries
     \/ /\ tries < MaxAttempts
        /\ tries' = tries + 1
        /\ UNCHANGED hs
     \/ /\ tries = MaxAttempts
        /\ hs' = "failed"
        /\ UNCHANGED tries
  /\ UNCHANGED <<ownerVars, peerVars, readerVars, writerVars, lock>>

\* Setting ACTIVE: success needs a live peer; any other status (the
\* CRYPT_ENVELOPE_RESOURCE "needs more data" included) counts an iteration.
HsActivate ==
  /\ hs = "activate"
  /\ \/ /\ peerOpen
        /\ hs' = "drain"
        /\ UNCHANGED tries
     \/ /\ hs' = "auth"
        /\ tries' = tries + 1
  /\ UNCHANGED <<ownerVars, peerVars, readerVars, writerVars, lock>>

\* On success: one cryptPopData into a 4096-byte buffer, outside mu_, its
\* result thrown away; then initialized_ = success.
HsDrain ==
  /\ hs = "drain"
  /\ \E k \in PopReads :
       IF PopFails(k)
         THEN UNCHANGED <<wire, cbuf, drained>>
         ELSE /\ drained' = drained \o Popped(k, DrainCap)
              /\ cbuf' = Kept(k, DrainCap)
              /\ wire' = SubSeq(wire, k + 1, Len(wire))
  /\ hs' = "ready"
  /\ UNCHANGED <<tries, ownerVars, peerOpen, sent, readerVars, writerVars,
                 lock>>

-----------------------------------------------------------------------------
(* IOSSH and its owner, WSession::Run / ~WSession.                         *)

\* IOSSH::IOSSH body, after session_ is constructed: ssh_initalize builds
\* the loopback pair and starts both threads, or fails at one of socket,
\* bind, listen, getsockname, connect, accept and returns false first.  The
\* constructor only logs either failure and wraps plain_socket_ regardless.
IOSSHInit ==
  /\ owner = "ctor"
  /\ hs \in {"ready", "failed"}
  /\ \/ /\ threads' = TRUE
        /\ rpc' = "select"
        /\ wpc' = "select"
     \/ /\ threads' = FALSE
        /\ UNCHANGED <<rpc, wpc>>
  /\ owner' = "open"
  /\ UNCHANGED <<ctorVars, localOpen, peerVars, rchunk, pipeIn, rlost, wbuf,
                 pipeOut, outSent, remoteGot, wlost, lock>>

\* Run: remote_opened = remoteIO()->open().  Opening the wrapped socket
\* works when the pair exists; otherwise "Remote side disconnected." and
\* ExitBBSImpl.  Nothing here looks at session_.initialized().
RemoteOpen ==
  /\ owner = "open"
  /\ owner' = IF threads THEN "session" ELSE "exit"
  /\ UNCHANGED <<ctorVars, threads, localOpen, peerVars, readerVars,
                 writerVars, lock>>

\* The interactive subsystem writes to plain_socket_.
LocalWrite ==
  /\ owner = "session"
  /\ outSent < MaxOut
  /\ pipeOut' = Append(pipeOut, outSent + 1)
  /\ outSent' = outSent + 1
  /\ UNCHANGED <<ctorVars, ownerVars, peerVars, readerVars, wpc, wbuf,
                 remoteGot, wlost, lock>>

\* Logoff or ExitBBSImpl: ~WSession calls comm_->close(false), which closes
\* plain_socket_, then resets comm_, which runs ~IOSSH.
Teardown ==
  /\ owner \in {"session", "exit"}
  /\ localOpen' = FALSE
  /\ owner' = "joinR"
  /\ UNCHANGED <<ctorVars, threads, peerVars, readerVars, writerVars, lock>>

\* ~IOSSH: ssh_receive_thread_.join() returns once reader_thread has
\* returned; on a thread ssh_initalize never started it throws
\* std::system_error out of a destructor: std::terminate.  The following
\* ssh_send_thread_.join() waits for writer_thread, which has no return.
JoinReader ==
  /\ owner = "joinR"
  /\ IF threads THEN rpc = "exited" /\ owner' = "joinW"
                ELSE owner' = "aborted"
  /\ UNCHANGED <<ctorVars, threads, localOpen, peerVars, readerVars,
                 writerVars, lock>>

-----------------------------------------------------------------------------
(* The remote client.                                                      *)

\* One SSH packet of application data; before the drain has run only when
\* the client is quick (EarlyData).
PeerSend ==
  /\ peerOpen
  /\ \/ hs = "ready"
     \/ EarlyData /\ hs = "drain"
  /\ \E n \in 1..MaxPacket :
       /\ sent + n <= MaxSend
       /\ wire' = Append(wire, Ids(sent + 1, sent + n))
       /\ sent' = sent + n
  /\ UNCHANGED <<ctorVars, ownerVars, peerOpen, cbuf, drained, readerVars,
                 writerVars, lock>>

PeerClose ==
  /\ peerOpen
  /\ peerOpen' = FALSE
  /\ UNCHANGED <<ctorVars, ownerVars, wire, cbuf, sent, drained, readerVars,
                 writerVars, lock>>

-----------------------------------------------------------------------------
(* reader_thread: raw socket -> PopData -> send(pipe_socket).              *)

RSelect ==
  /\ rpc = "select"
  /\ RawReadable
  /\ rpc' = "pop"
  /\ UNCHANGED <<ctorVars, ownerVars, peerVars, rchunk, pipeIn, rlost,
                 writerVars, lock>>

\* Mutant: PopData without the lock_guard.
RLockNoGuard ==
  /\ rpc = "pop"
  /\ lock' = "reader"
  /\ rpc' = "popcall"
  /\ UNCHANGED <<ctorVars, ownerVars, peerVars, rchunk, pipeIn, rlost,
                 writerVars>>

\* SSHSession::PopData takes the lock_guard on mu_ ...
RLock ==
  /\ rpc = "pop"
  /\ lock = "none"
  /\ lock' = "reader"
  /\ rpc' = "popcall"
  /\ UNCHANGED <<ctorVars, ownerVars, peerVars, rchunk, pipeIn, rlost,
                 writerVars>>

\* ... calls cryptPopData into the 16 KiB buffer and releases mu_; -1
\* (a failed pop) makes reader_thread return.
RPop ==
  /\ rpc = "popcall"
  /\ \E k \in PopReads :
       IF PopFails(k)
         THEN /\ rpc' = "exited"
              /\ UNCHANGED <<wire, cbuf, rchunk>>
         ELSE /\ rchunk' = Popped(k, ReadCap)
              /\ cbuf' = Kept(k, ReadCap)
              /\ wire' = SubSeq(wire, k + 1, Len(wire))
              /\ rpc' = "send"
  /\ lock' = "none"
  /\ UNCHANGED <<ctorVars, ownerVars, peerOpen, sent, drained, pipeIn, rlost,
                 writerVars>>

\* Mutant: a short send whose count is taken as the whole chunk.
RSendShort ==
  /\ rpc = "send"
  /\ IF localOpen THEN /\ pipeIn' = pipeIn \o Take(rchunk, 1)
                       /\ UNCHANGED rlost
                  ELSE /\ rlost' = rlost \o rchunk
                       /\ UNCHANGED pipeIn
  /\ rchunk' = <<>>
  /\ rpc' = "select"
  /\ UNCHANGED <<ctorVars, ownerVars, peerVars, writerVars, lock>>

\* send(socket, data, num_read): its result is ignored; once
\* plain_socket_ is closed the units are gone.
RSend ==
  /\ rpc = "send"
  /\ IF localOpen THEN /\ pipeIn' = pipeIn \o rchunk
                       /\ UNCHANGED rlost
                  ELSE /\ rlost' = rlost \o rchunk
                       /\ UNCHANGED pipeIn
  /\ rchunk' = <<>>
  /\ rpc' = "select"
  /\ UNCHANGED <<ctorVars, ownerVars, peerVars, writerVars, lock>>

-----------------------------------------------------------------------------
(* writer_thread: pipe_socket -> recv -> PushData.  It has no return.      *)

\* socket_avail(socket): readable when units are queued or plain_socket_
\* has been closed (EOF).
WSelect ==
  /\ wpc = "select"
  /\ pipeOut # <<>> \/ ~localOpen
  /\ wpc' = "recv"
  /\ UNCHANGED <<ctorVars, ownerVars, peerVars, readerVars, wbuf, pipeOut,
                 outSent, remoteGot, wlost, lock>>

\* recv returns some of what is queued (up to 16 KiB), or 0 at EOF, in
\* which case nothing is pushed and the loop goes round again.
WRecv ==
  /\ wpc = "recv"
  /\ IF pipeOut = <<>>
       THEN /\ wpc' = "select"
            /\ UNCHANGED <<wbuf, pipeOut>>
       ELSE \E n \in 1..ReadCap :
              /\ n <= Len(pipeOut)
              /\ wbuf' = Take(pipeOut, n)
              /\ pipeOut' = Rest(pipeOut, n)
              /\ wpc' = "push"
  /\ UNCHANGED <<ctorVars, ownerVars, peerVars, readerVars, outSent,
                 remoteGot, wlost, lock>>

\* SSHSession::PushData takes the lock_guard on mu_ ...
WLock ==
  /\ wpc = "push"
  /\ lock = "none"
  /\ lock' = "writer"
  /\ wpc' = "pushcall"
  /\ UNCHANGED <<ctorVars, ownerVars, peerVars, readerVars, wbuf, pipeOut,
                 outSent, remoteGot, wlost>>

\* ... cryptPushData: on failure return 0 (the writer ignores it) ...
WPush ==
  /\ wpc = "pushcall"
  /\ IF Active /\ peerOpen
       THEN /\ wpc' = "flushcall"
            /\ UNCHANGED <<wbuf, wlost, lock>>
       ELSE /\ wlost' = wlost \o wbuf
            /\ wbuf' = <<>>
            /\ lock' = "none"
            /\ wpc' = "select"
  /\ UNCHANGED <<ctorVars, ownerVars, peerVars, readerVars, pipeOut, outSent,
                 remoteGot>>

\* ... then cryptFlushData, and mu_ is released.
WFlush ==
  /\ wpc = "flushcall"
  /\ IF peerOpen THEN /\ remoteGot' = remoteGot \o wbuf
                      /\ UNCHANGED wlost
                 ELSE /\ wlost' = wlost \o wbuf
                      /\ UNCHANGED remoteGot
  /\ wbuf' = <<>>
  /\ lock' = "none"
  /\ wpc' = "select"
  /\ UNCHANGED <<ctorVars, ownerVars, peerVars, readerVars, pipeOut, outSent>>

-----------------------------------------------------------------------------
Init ==
  /\ hs = "create"
  /\ tries = 0
  /\ owner = "ctor"
  /\ threads = FALSE
  /\ peerOpen = TRUE
  /\ localOpen = TRUE
  /\ wire = <<>> /\ cbuf = <<>> /\ sent = 0 /\ drained = <<>>
  /\ rpc = "none" /\ rchunk = <<>> /\ pipeIn = <<>> /\ rlost = <<>>
  /\ wpc = "none" /\ wbuf = <<>> /\ pipeOut = <<>> /\ outSent = 0
  /\ remoteGot = <<>> /\ wlost = <<>>
  /\ lock = "none"

Ctor    == HsSetup \/ HsAuth \/ HsActivate \/ HsDrain
Owner   == IOSSHInit \/ RemoteOpen \/ LocalWrite \/ Teardown \/ JoinReader
Peer    == PeerSend \/ PeerClose
Reader  == RSelect \/ RLock \/ RPop \/ RSend
Writer  == WSelect \/ WRecv \/ WLock \/ WPush \/ WFlush

Next == Ctor \/ Owner \/ Peer \/ Reader \/ Writer

\* The constructor, the main thread's own steps and both relay threads are
\* code that runs when it can; the client and the user's session are not.
Fairness ==
  /\ WF_vars(Ctor)
  /\ WF_vars(IOSSHInit) /\ WF_vars(RemoteOpen) /\ WF_vars(JoinReader)
  /\ WF_vars(RSelect) /\ WF_vars(RLock) /\ WF_vars(RPop) /\ WF_vars(RSend)
  /\ WF_vars(WSelect) /\ WF_vars(WRecv) /\ WF_vars(WLock) /\ WF_vars(WPush)
  /\ WF_vars(WFlush)

Spec == Init /\ [][Next]_vars /\ Fairness

-----------------------------------------------------------------------------
(* Properties.                                                             *)

TypeOK ==
  /\ hs \in HsPhases
  /\ tries \in 0..MaxAttempts
  /\ owner \in OwnerPhases
  /\ threads \in BOOLEAN /\ peerOpen \in BOOLEAN /\ localOpen \in BOOLEAN
  /\ sent \in 0..MaxSend /\ outSent \in 0..MaxOut
  /\ rpc \in ReaderPcs /\ wpc \in WriterPcs
  /\ lock \in {"none", "reader", "writer"}
  /\ \A s \in {cbuf, drained, rchunk, pipeIn, rlost} : s \in Seq(1..MaxSend)
  /\ \A s \in {wbuf, pipeOut, remoteGot, wlost} : s \in Seq(1..MaxOut)

\* Byte fidelity across the bridge (reader_thread, writer_thread, PopData,
\* PushData): in each direction every unit sent is in exactly one place,
\* in order: thrown away by the constructor's drain, delivered, lost to a
\* closed socket or failed push, or still in a buffer or on the wire.
StreamFidelity ==
  /\ drained \o pipeIn \o rlost \o rchunk \o cbuf \o FlattenSeq(wire)
       = Ids(1, sent)
  /\ remoteGot \o wlost \o wbuf \o pipeOut = Ids(1, outSent)

\* The SSHSession handle is never used by two calls at once: the
\* constructor's calls (the drain pop included, which takes no lock) end
\* before ssh_initalize starts the threads, and PopData / PushData exclude
\* each other through mu_.
InCrypt(x) == CASE x = "ctor"   -> owner = "ctor" /\ hs \notin {"ready", "failed"}
                [] x = "reader" -> rpc = "popcall"
                [] x = "writer" -> wpc \in {"pushcall", "flushcall"}
NoConcurrentCrypt ==
  \A x, y \in {"ctor", "reader", "writer"} : InCrypt(x) /\ InCrypt(y) => x = y

\* Once the client has disconnected, reader_thread relays whatever cryptlib
\* still buffers and then returns (its only exit, which ~IOSSH joins).
PeerCloseEndsReader ==
  (threads /\ ~peerOpen) ~> (rpc = "exited" /\ cbuf = <<>> /\ wire = <<>>)

\* Spec 4.2: the drain after the handshake discards control bytes only,
\* never application data the client has sent.
NoInboundLoss == drained = <<>>

\* Spec 8: every unit the client sends reaches the local endpoint (or is
\* given up because that endpoint has closed) while the relay is running.
InboundDelivered ==
  \A i \in 1..MaxSend :
    (threads /\ i <= sent) ~> (i \in Units(pipeIn) \cup Units(rlost))

=============================================================================
