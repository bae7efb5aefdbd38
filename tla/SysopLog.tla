------------------------------ MODULE SysopLog ------------------------------
(***************************************************************************)
(* The sysop log of src/bbs/sysoplog.cpp.  Each node process appends to    *)
(* its own instance log (inst-NNN.log) through AddLineToSysopLogImpl:      *)
(* LOG_STRING writes a whole line, LOG_CHAR adds an item to the current    *)
(* line (the static midline is its width so far) and wraps it before 78   *)
(* columns.  catsl copies the instance log to the end of the day's log,    *)
(* which all nodes share, and deletes the instance log.                    *)
(*                                                                         *)
(* File contents are sequences of tokens: a text (its node, its call       *)
(* number and its width), a line break, or the padding the code writes     *)
(* ("  ", ", ", "   ") with its width.                                     *)
(***************************************************************************)
EXTENDS Naturals, Sequences

CONSTANTS
  Nodes,      \* node instances sharing the gfiles directory
  TextLens,   \* widths of the texts logged
  MaxCalls,   \* log calls per node
  CanRestart, \* may a node process end and a new one start (-XS, -XT)
  MaxCrashes  \* node process deaths in a behaviour

LineLimit == 78   \* the 78 of the LOG_CHAR wrap test

ASSUME /\ TextLens \subseteq 1..(LineLimit - 3) /\ MaxCalls \in Nat
       /\ CanRestart \in BOOLEAN /\ MaxCrashes \in Nat

VARIABLES
  inst,      \* each node's instance log file
  daily,     \* the day's log file
  midline,   \* each node process's static midline
  cpc,       \* where each node is in catsl
  cpos,      \* the offset catsl's Seek(0, seekEnd) returned
  calls,     \* log calls each node has made
  logged,    \* the texts each node logged, in order (history)
  crashes    \* node process deaths so far

vars == <<inst, daily, midline, cpc, cpos, calls, logged, crashes>>

Tok(k, n, id, w) == [k |-> k, n |-> n, id |-> id, w |-> w]
Text(n, id, w) == Tok("text", n, id, w)
NL(n)          == Tok("nl", n, 0, 0)
Sep(n)         == Tok("sep", n, 0, 2)
Pad(n, w)      == Tok("pad", n, 0, w)

\* File::Write at an offset: the bytes there are overwritten, the file
\* grows when the write runs past its end.
WriteAt(f, p, s) ==
  [i \in 1..(IF p + Len(s) > Len(f) THEN p + Len(s) ELSE Len(f)) |->
     IF i > p /\ i <= p + Len(s) THEN s[i - p] ELSE f[i]]

(***************************************************************************)
(* AddLineToSysopLogImpl.                                                  *)
(***************************************************************************)
\* A node may log only outside catsl: its process has one thread.
CanLog(n) == cpc[n] = "idle" /\ calls[n] < MaxCalls

\* Mutant: LOG_STRING that leaves midline as it was.
LogStringKeepMidline(n, len) ==
  /\ CanLog(n)
  /\ LET id == calls[n] + 1
         brk == IF midline[n] > 0 THEN <<NL(n)>> ELSE <<>>
     IN /\ inst' = [inst EXCEPT ![n] = @ \o brk \o <<Text(n, id, len), NL(n)>>]
        /\ calls' = [calls EXCEPT ![n] = id]
        /\ logged' = [logged EXCEPT ![n] = Append(@, id)]
  /\ UNCHANGED <<midline, daily, cpc, cpos, crashes>>

\* LOG_STRING: a line break first if a LOG_CHAR line is open, then the
\* text and a line break; the line is closed.
LogString(n, len) ==
  /\ CanLog(n)
  /\ LET id == calls[n] + 1
         brk == IF midline[n] > 0 THEN <<NL(n)>> ELSE <<>>
     IN /\ inst' = [inst EXCEPT ![n] = @ \o brk \o <<Text(n, id, len), NL(n)>>]
        /\ calls' = [calls EXCEPT ![n] = id]
        /\ logged' = [logged EXCEPT ![n] = Append(@, id)]
  /\ midline' = [midline EXCEPT ![n] = 0]
  /\ UNCHANGED <<daily, cpc, cpos, crashes>>

\* Mutant: the wrap test without the width of ", ".
WrapsNoSep(m, len) == m = 0 \/ m + len > LineLimit

\* The LOG_CHAR wrap test: start a new line when none is open or the item
\* would pass column 78.
Wraps(m, len) == m = 0 \/ m + 2 + len > LineLimit

\* Mutant: a wrap that writes "   " without the line break.
LogCharNoBreak(n, len) ==
  /\ CanLog(n)
  /\ LET id == calls[n] + 1
         m  == midline[n]
         pre == IF Wraps(m, len) THEN <<Pad(n, IF m > 0 THEN 3 ELSE 2)>>
                ELSE <<Sep(n)>>
     IN /\ inst' = [inst EXCEPT ![n] = @ \o pre \o <<Text(n, id, len)>>]
        /\ midline' = [midline EXCEPT ![n] =
                         IF Wraps(m, len) THEN 3 + len ELSE m + 2 + len]
        /\ calls' = [calls EXCEPT ![n] = id]
        /\ logged' = [logged EXCEPT ![n] = Append(@, id)]
  /\ UNCHANGED <<daily, cpc, cpos, crashes>>

\* LOG_CHAR: a new line ("  ", or a break and "   " after an open one) or
\* ", " and the text on the current line; midline follows.
LogChar(n, len) ==
  /\ CanLog(n)
  /\ LET id == calls[n] + 1
         m  == midline[n]
         pre == IF Wraps(m, len)
                  THEN IF m > 0 THEN <<NL(n), Pad(n, 3)>> ELSE <<Pad(n, 2)>>
                  ELSE <<Sep(n)>>
     IN /\ inst' = [inst EXCEPT ![n] = @ \o pre \o <<Text(n, id, len)>>]
        /\ midline' = [midline EXCEPT ![n] =
                         IF Wraps(m, len) THEN 3 + len ELSE m + 2 + len]
        /\ calls' = [calls EXCEPT ![n] = id]
        /\ logged' = [logged EXCEPT ![n] = Append(@, id)]
  /\ UNCHANGED <<daily, cpc, cpos, crashes>>

(***************************************************************************)
(* catsl.                                                                  *)
(***************************************************************************)
\* Mutant: catsl without its Seek(0, seekEnd).
CatOpenAtStart(n) ==
  /\ cpc[n] = "idle"
  /\ inst[n] # <<>>
  /\ cpos' = [cpos EXCEPT ![n] = 0]
  /\ cpc' = [cpc EXCEPT ![n] = "copy"]
  /\ UNCHANGED <<inst, daily, midline, calls, logged, crashes>>

\* The instance log exists: open the day's log and seek to its end.
CatOpen(n) ==
  /\ cpc[n] = "idle"
  /\ inst[n] # <<>>
  /\ cpos' = [cpos EXCEPT ![n] = Len(daily)]
  /\ cpc' = [cpc EXCEPT ![n] = "copy"]
  /\ UNCHANGED <<inst, daily, midline, calls, logged, crashes>>

\* The read/write loop: the instance log is written at the offset found.
CatCopy(n) ==
  /\ cpc[n] = "copy"
  /\ daily' = WriteAt(daily, cpos[n], inst[n])
  /\ cpc' = [cpc EXCEPT ![n] = "delete"]
  /\ UNCHANGED <<inst, midline, cpos, calls, logged, crashes>>

\* Mutant: catsl that never deletes the instance log.
CatDeleteKeep(n) ==
  /\ cpc[n] = "delete"
  /\ cpc' = [cpc EXCEPT ![n] = "idle"]
  /\ UNCHANGED <<inst, daily, midline, cpos, calls, logged, crashes>>

\* instLogFile.Delete().
CatDelete(n) ==
  /\ cpc[n] = "delete"
  /\ inst' = [inst EXCEPT ![n] = <<>>]
  /\ cpc' = [cpc EXCEPT ![n] = "idle"]
  /\ UNCHANGED <<daily, midline, cpos, calls, logged, crashes>>

\* The node process ends after its session (-XS and -XT nodes serve one
\* caller) and a new one starts: its statics are zero again, the files stay.
Restart(n) ==
  /\ CanRestart
  /\ cpc[n] = "idle"
  /\ midline' = [midline EXCEPT ![n] = 0]
  /\ UNCHANGED <<inst, daily, cpc, cpos, calls, logged, crashes>>

\* The node process dies at any step, catsl's included, and a new one
\* starts.
Crash(n) ==
  /\ crashes < MaxCrashes
  /\ crashes' = crashes + 1
  /\ midline' = [midline EXCEPT ![n] = 0]
  /\ cpc' = [cpc EXCEPT ![n] = "idle"]
  /\ UNCHANGED <<inst, daily, cpos, calls, logged>>

Init ==
  /\ inst = [n \in Nodes |-> <<>>]
  /\ daily = <<>>
  /\ midline = [n \in Nodes |-> 0]
  /\ cpc = [n \in Nodes |-> "idle"]
  /\ cpos = [n \in Nodes |-> 0]
  /\ calls = [n \in Nodes |-> 0]
  /\ logged = [n \in Nodes |-> <<>>]
  /\ crashes = 0

Next ==
  \E n \in Nodes :
    \/ \E len \in TextLens : LogString(n, len) \/ LogChar(n, len)
    \/ CatOpen(n) \/ CatCopy(n) \/ CatDelete(n) \/ Restart(n) \/ Crash(n)

Spec == Init /\ [][Next]_vars

(***************************************************************************)
(* Properties.                                                             *)
(***************************************************************************)
Toks == [k : {"text", "nl", "pad", "sep"}, n : Nodes, id : 0..MaxCalls,
         w : {0, 2, 3} \cup TextLens]

TypeOK ==
  /\ inst \in [Nodes -> Seq(Toks)] /\ daily \in Seq(Toks)
  /\ midline \in [Nodes -> 0..LineLimit]
  /\ cpc \in [Nodes -> {"idle", "copy", "delete"}]
  /\ cpos \in [Nodes -> Nat] /\ calls \in [Nodes -> 0..MaxCalls]
  /\ logged \in [Nodes -> Seq(1..MaxCalls)] /\ crashes \in 0..MaxCrashes

\* What node n has logged and catsl has not yet moved: nothing once the
\* copy is written, until the instance log is deleted.
Pending(n) == IF cpc[n] = "delete" THEN <<>> ELSE inst[n]

\* The call numbers of node n's texts in a file, in file order.
TextsOf(f, n) ==
  LET t == SelectSeq(f, LAMBDA x : x.k = "text" /\ x.n = n)
  IN [i \in 1..Len(t) |-> t[i].id]

\* The widths of the lines of a file (the last one possibly open).
RECURSIVE LineWidths(_, _)
LineWidths(f, cur) ==
  IF f = <<>> THEN {cur}
  ELSE IF Head(f).k = "nl" THEN {cur} \cup LineWidths(Tail(f), 0)
  ELSE LineWidths(Tail(f), cur + Head(f).w)

\* The width of the open line at the end of a file.
RECURSIVE OpenWidth(_)
OpenWidth(f) ==
  IF f = <<>> \/ f[Len(f)].k = "nl" THEN 0
  ELSE f[Len(f)].w + OpenWidth(SubSeq(f, 1, Len(f) - 1))

\* The sysop log is append-only (spec: an append-only activity log): the
\* day's log followed by what is still pending holds each text a node
\* logged exactly once and in the order it was logged, across catsl's
\* seek, copy and delete.
LogFidelity ==
  \A n \in Nodes : TextsOf(daily, n) \o TextsOf(Pending(n), n) = logged[n]

\* catsl deletes the instance log only after copying it: whenever a node
\* process dies, every text a node logged is still in the day's log or in
\* its instance log.
NoRecordLost ==
  \A n \in Nodes : \A i \in 1..Len(logged[n]) :
    \E j \in 1..Len(TextsOf(daily, n) \o TextsOf(inst[n], n)) :
      (TextsOf(daily, n) \o TextsOf(inst[n], n))[j] = logged[n][i]

\* LOG_CHAR lines end before column 78: no line of the log as it will read
\* after the next catsl is wider than LineLimit.
LinesWithinLimit ==
  \A n \in Nodes : \A w \in LineWidths(daily \o Pending(n), 0) : w <= LineLimit

\* midline is the width of the line left open, counting the leading "  "
\* as three: zero exactly when the log ends with a closed line.
MidlineTracksLine ==
  \A n \in Nodes :
    LET ow == OpenWidth(daily \o Pending(n)) IN
    /\ (midline[n] = 0) = (ow = 0)
    /\ midline[n] \in {ow, ow + 1}
=============================================================================
