---------------------------- MODULE CallJournal -----------------------------
(***************************************************************************)
(* The call journal (preview/call-journal.ts): one append-only file per    *)
(* session with a start line and a settlement line per writer call, and    *)
(* what a process knows of it.  The file is a sequence of lines, the last  *)
(* of which may be a fragment without its newline.                         *)
(***************************************************************************)
EXTENDS Naturals, Sequences, SequencesExt

CONSTANT Faults   \* the faults the environment may inject

(* append: an append throws before or after the write; partial: it throws  *)
(* in the middle; torn: a crash leaves part of a line; read: the journal   *)
(* cannot be read at a start.                                              *)
FaultKinds == {"append", "partial", "torn", "read"}

ASSUME FaultsAssumption == Faults \subseteq FaultKinds

Purposes == {"preparation", "compaction"}

StartLine(call, purpose, interval) ==
  [line |-> "start", call |-> call, purpose |-> purpose, interval |-> interval]

Settlement(call, dispatched) == [line |-> "settled", call |-> call, dispatched |-> dispatched]

Fragment == [line |-> "fragment"]
Joined   == [line |-> "joined"]    \* two lines in one: JSON.parse throws

Torn(file) == file # <<>> /\ Last(file) = Fragment

\* O_APPEND: the bytes go right behind what is there, a fragment included.
Put(file, line) ==
  IF Torn(file) THEN Front(file) \o <<IF line = Fragment THEN Fragment ELSE Joined>>
  ELSE Append(file, line)

\* append(): the file after it, and whether it threw.
Appends(file, line) ==
  {[file |-> Put(file, line), threw |-> FALSE]}
  \cup {[file |-> f, threw |-> TRUE] : f \in
          (IF "append" \in Faults THEN {file, Put(file, line)} ELSE {})
          \cup (IF "partial" \in Faults THEN {Put(file, Fragment)} ELSE {})}

\* The file a crash in the middle of an append leaves.
CrashesIn(file) == {file} \cup (IF "torn" \in Faults THEN {Put(file, Fragment)} ELSE {})

CallRecord(purpose, interval) ==
  [purpose |-> purpose, interval |-> interval, settled |-> FALSE, dispatched |-> FALSE]

\* The session's calls once this one is reserved.
Reserve(calls, call, purpose, interval) ==
  [c \in DOMAIN calls \cup {call} |->
     IF c = call THEN CallRecord(purpose, interval) ELSE calls[c]]

NoCalls == [call \in {} |-> CallRecord("compaction", 0)]

\* A torn last line is dropped: its call was never sent.
Lines(file) == IF Torn(file) THEN Front(file) ELSE file

StartsIn(lines, before) ==
  {lines[i].call : i \in {j \in 1..(before - 1) : lines[j].line = "start"}}

Readable(lines) ==
  \A i \in DOMAIN lines :
    \/ lines[i].line = "start"
    \/ lines[i].line = "settled" /\ lines[i].call \in StartsIn(lines, i)

\* The call's record, as far as these lines tell.
RecordOf(lines, call) ==
  LET start == CHOOSE i \in DOMAIN lines : lines[i].line = "start" /\ lines[i].call = call
      ends == {i \in DOMAIN lines : lines[i].line = "settled" /\ lines[i].call = call}
  IN [CallRecord(lines[start].purpose, lines[start].interval) EXCEPT
        !.settled = ends # {},
        !.dispatched = \E i \in ends : lines[i].dispatched]

\* Mutant: a journal that does not parse counts as empty.
LoadForgiving(file) ==
  IF Readable(Lines(file))
  THEN [calls |-> [call \in StartsIn(Lines(file), Len(Lines(file)) + 1) |->
                     RecordOf(Lines(file), call)],
        gap |-> "none"]
  ELSE [calls |-> NoCalls, gap |-> "none"]

\* load() and session(): what a process knows of the file when it first looks.
Load(file) ==
  LET lines == Lines(file)
  IN IF Readable(lines)
     THEN [calls |-> [call \in StartsIn(lines, Len(lines) + 1) |-> RecordOf(lines, call)],
           gap |-> "none"]
     ELSE [calls |-> NoCalls, gap |-> "unreadable"]

Unreadable == [calls |-> NoCalls, gap |-> "unreadable"]

Loads(file) == {Load(file)} \cup (IF "read" \in Faults THEN {Unreadable} ELSE {})

\* Mutant: only calls that were sent count as prepared.
preparedInSettled(calls, interval) ==
  \E call \in DOMAIN calls :
    calls[call].purpose = "preparation" /\ calls[call].interval = interval /\ calls[call].settled

preparedIn(calls, interval) ==
  \E call \in DOMAIN calls :
    calls[call].purpose = "preparation" /\ calls[call].interval = interval

writable(gap) == gap = "none"

\* summarizeCalls counts the call.
Counted(calls, call) ==
  call \in DOMAIN calls /\ ~(calls[call].settled /\ ~calls[call].dispatched)

\* The start line of the call is complete on disk.
Recorded(file, call) ==
  \E i \in DOMAIN Lines(file) : file[i].line = "start" /\ file[i].call = call

=============================================================================
