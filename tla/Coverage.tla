------------------------------ MODULE Coverage ------------------------------
(***************************************************************************)
(* What a checkpoint covers: the pure parts of the core that choose where  *)
(* a branch is cut, which originals a writer reads, which user messages a  *)
(* checkpoint carries verbatim, and whether a prepared candidate may still *)
(* be committed (compaction-core cuts.ts, work-notes.ts,                   *)
(* preparation-candidate.ts, controller.ts).                               *)
(*                                                                         *)
(* A branch is a sequence of entries, oldest first.  Indices are those of  *)
(* the code plus one; 0 stands for undefined, or for an error thrown.      *)
(* Every message weighs one token.                                         *)
(***************************************************************************)
EXTENDS Naturals, Sequences, FiniteSets, FiniteSetsExt

CONSTANT KeepRecent   \* budget.recentTokens, in messages

NoId == 0

\* user, reply, note (a context_note entry) or custom (no messages of its own)
Plain(id, kind) == [id |-> id, kind |-> kind]

\* A checkpoint.  read is not in the file: the originals that some writer has
\* read on the way to its note.
Memory(id, firstKept, coveredThrough, carried, read) ==
  [id |-> id, kind |-> "memory", firstKept |-> firstKept, coveredThrough |-> coveredThrough,
   carried |-> carried, read |-> read]

IsMessage(entry) == entry.kind \in {"user", "reply"}
IsUser(entry)    == entry.kind = "user"

IndexOf(branch, id) == CHOOSE i \in DOMAIN branch : branch[i].id = id

MaxOr0(S) == Max(S \cup {0})

Checkpoint(branch) == MaxOr0({i \in DOMAIN branch : branch[i].kind = "memory"})

checkpointInterval(branch) ==
  IF Checkpoint(branch) = 0 THEN NoId ELSE branch[Checkpoint(branch)].id

\* The entries that contribute messages to the session's projection: those
\* kept before the latest checkpoint and those after it.
Active(branch) ==
  LET c == Checkpoint(branch)
  IN {i \in DOMAIN branch :
        /\ IsMessage(branch[i])
        /\ c # 0 /\ i < c =>
             branch[c].firstKept # NoId /\ i >= IndexOf(branch, branch[c].firstKept)}

-----------------------------------------------------------------------------
(* cuts.ts *)

TurnStarts(branch) ==
  {i \in Active(branch) : i > Checkpoint(branch) /\ IsUser(branch[i])}

chooseCut(branch) ==
  LET starts == TurnStarts(branch)
      full == {i \in DOMAIN branch : Cardinality({j \in Active(branch) : j >= i}) >= KeepRecent}
      later == {i \in starts : full # {} /\ i >= Max(full)}
  IN IF KeepRecent = 0 THEN Len(branch) + 1
     ELSE IF later # {} THEN Min(later)
     ELSE MaxOr0(starts)

prefixCut(branch, end, cut) ==
  MaxOr0({i \in TurnStarts(branch) : i <= cut /\ i <= end + 1})

\* The first user message after the last completed reply.
interruptedTurnStart(branch) ==
  LET completed == MaxOr0({i \in DOMAIN branch : branch[i].kind = "reply"})
      users == {i \in DOMAIN branch : i > completed /\ IsUser(branch[i])}
  IN IF completed = 0 \/ users = {} THEN 0 ELSE Min(users)

-----------------------------------------------------------------------------
(* work-notes.ts *)

\* The latest checkpoint's coverage, what it carries, what its writers read.
CoveredIndex(branch) ==
  IF Checkpoint(branch) = 0 THEN 0
  ELSE IndexOf(branch, branch[Checkpoint(branch)].coveredThrough)

carriedUserMessages(branch) ==
  IF Checkpoint(branch) = 0 THEN {} ELSE branch[Checkpoint(branch)].carried

ReadBefore(branch) ==
  IF Checkpoint(branch) = 0 THEN {} ELSE branch[Checkpoint(branch)].read

workNotes(branch) == {i \in DOMAIN branch : i > CoveredIndex(branch) /\ branch[i].kind = "note"}

coveredUserMessages(branch, end) ==
  carriedUserMessages(branch) \cup
    {branch[i].id : i \in {j \in Active(branch) : j <= end /\ IsUser(branch[j])}}

\* Mutant: the writer does not get the messages an earlier checkpoint carried.
writerSourcesWithoutCarried(branch) ==
  {branch[i].id : i \in {j \in DOMAIN branch : j > CoveredIndex(branch)}}

writerSources(branch) ==
  carriedUserMessages(branch) \cup
    {branch[i].id : i \in {j \in DOMAIN branch : j > CoveredIndex(branch)}}

\* What a note rests on once a writer has written it from these sources and
\* the note before.
ReadBy(branch) == ReadBefore(branch) \cup writerSources(branch)

\* Work notes restate what the session model had in context, not the user's
\* own words: those are carried.
ReadByNotes(branch, end) ==
  ReadBefore(branch) \cup
    {branch[i].id : i \in {j \in Active(branch) : j <= end /\ ~IsUser(branch[j])}}

-----------------------------------------------------------------------------
(* preparation-candidate.ts *)

\* freezePreparationInput at the leaf: all of the branch is covered, and the
\* horizon holds all of its user messages.
freezePreparationInput(branch, epoch) ==
  [branch |-> branch, epoch |-> epoch, read |-> ReadBy(branch)]

IsPrefixOf(s, t) == Len(s) <= Len(t) /\ SubSeq(t, 1, Len(s)) = s

\* Mutant: within an epoch the branch is taken to be the candidate's.
classifyPreparationByEpoch(candidate, branch, epoch, sameWriter, plain) ==
  IF \/ candidate.epoch # epoch
     \/ checkpointInterval(branch) # checkpointInterval(candidate.branch)
     \/ ~sameWriter
  THEN "invalid"
  ELSE IF ~plain THEN "stale"
  ELSE IF Len(branch) > Len(candidate.branch) THEN "new-sources" ELSE "current-full"

\* The answer of classifyPreparation.  sameWriter: the writer is configured as
\* it was; plain: no custom instructions and a note within the budget.
classifyPreparation(candidate, branch, epoch, sameWriter, plain) ==
  IF \/ candidate.epoch # epoch
     \/ ~IsPrefixOf(candidate.branch, branch)
     \/ checkpointInterval(branch) # checkpointInterval(candidate.branch)
     \/ ~sameWriter
  THEN "invalid"
  ELSE IF ~plain THEN "stale"
  ELSE IF Len(branch) > Len(candidate.branch) THEN "new-sources" ELSE "current-full"

reusablePrefix(candidate) == Len(candidate.branch)

=============================================================================
