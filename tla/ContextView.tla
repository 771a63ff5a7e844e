---------------------------- MODULE ContextView ----------------------------
(***************************************************************************)
(* What the preview derives from the records of a branch each time it      *)
(* needs it: the reduced view of tool results that requests and the        *)
(* writer's prefix carry (compaction-core/src/reduction.ts) and the note   *)
(* that the session model's work notes add up to (compaction-core/src/     *)
(* work-notes.ts), while turns, notes and checkpoints extend the branch.   *)
(*                                                                         *)
(* A record is known by its place on the branch.  A text is its size in    *)
(* tokens.  A tool result and a work note stand for the call that made     *)
(* them too, which is always on the branch, under an ID of its own, and    *)
(* whose tokens are counted with theirs (CallSize).  Results that are      *)
(* never reduced (errors, other content than text, context_note's own)     *)
(* have text FALSE.                                                        *)
(***************************************************************************)
EXTENDS Integers, Sequences, FiniteSets, SequencesExt, FiniteSetsExt

CONSTANTS
  Targets,       \* recognized targets of tool calls
  ResultSizes,   \* tokens of a tool result's text
  CallSize,      \* tokens of the assistant record with the call
  LineSize,      \* tokens of the line that replaces a result (reductionLine)
  Ratio,         \* REDUCTION_SUFFIX_RATIO
  Lifetimes,     \* cache lifetimes of the models, as the longest pause each survives
  MaxRecords, MaxCalls, MaxNotes, MaxCheckpoints   \* bounds on the branch

ASSUME ViewAssumption ==
  /\ ResultSizes \cup Lifetimes \cup {CallSize, LineSize, Ratio} \subseteq Nat
  /\ {MaxRecords, MaxCalls, MaxNotes, MaxCheckpoints} \subseteq Nat
  /\ "none" \notin Targets

VARIABLE records    \* the branch

vars == <<records>>

----------------------------------------------------------------------------
(* Records.  'pause' is the time since the record before; it is read after *)
(* tool results only.  A note is a set of facts.                           *)

Record(kind, size) ==
  [kind |-> kind, size |-> size, target |-> "none", text |-> FALSE, pause |-> 0,
   note |-> {}, covered |-> 0, by |-> "none"]

Fact(section, sources, supersedes) == [section |-> section, sources |-> sources, supersedes |-> supersedes]

Places(R, kind) == {i \in DOMAIN R : R[i].kind = kind}

\* The first of a set of places, 0 when there is none.
First(S) == IF S = {} THEN 0 ELSE Min(S)
LastOf(S) == IF S = {} THEN 0 ELSE Max(S)

\* Tokens of the records from..to, and of the calls that come before each.
Weight(r) == r.size + (IF r.kind \in {"result", "note"} THEN CallSize ELSE 0)
Tokens(R, from, to) == FoldLeft(LAMBDA sum, r : sum + Weight(r), 0, SubSeq(R, from, to))

----------------------------------------------------------------------------
(* reduceRecords.                                                          *)

\* The stop that completes the turn of result i, and the next one after it.
CompletedAt(R, i) == First({s \in Places(R, "stop") : s > i})
ConsumedAt(R, i) ==
  IF CompletedAt(R, i) = 0 THEN 0 ELSE First({s \in Places(R, "stop") : s > CompletedAt(R, i)})

\* A later result of the same tool and target, and the result's turn complete.
LaterRead(R, i) ==
  First({j \in Places(R, "result") : /\ j > i /\ R[i].target # "none"
                                     /\ R[j].text /\ R[j].target = R[i].target})
SupersededAt(R, i) ==
  IF 0 \in {CompletedAt(R, i), LaterRead(R, i)} THEN 0 ELSE Max({LaterRead(R, i), CompletedAt(R, i)})

\* The earliest prefix at which the result may be reduced.
EligibleAt(R, i) == First({ConsumedAt(R, i), SupersededAt(R, i)} \ {0})

\* Mutant: work notes between checkpoints are not scanned.
CitedFromCheckpoints(R, i) == First({j \in Places(R, "checkpoint") : \E f \in R[j].note : f.sources = {i}})

\* soleEvidenceFrom: the first record with a fact that cites i alone.
CitedFrom(R, i) == First({j \in DOMAIN R : \E f \in R[j].note : f.sources = {i}})

\* Mutant: the tokens up to the leaf, which grow with every record.
SuffixTokensToLeaf(R, i) == Tokens(R, i + 1, Len(R))

\* Tokens that follow the result up to the record that made it eligible.
SuffixTokens(R, i) == Tokens(R, i + 1, EligibleAt(R, i))

\* The provider's cache had expired before the next record.
Idle(R, cache, i) == i < Len(R) /\ R[i + 1].pause > cache

Reduces(R, cache, i) ==
  LET removed == R[i].size - LineSize
  IN /\ R[i].text
     /\ EligibleAt(R, i) # 0
     /\ CitedFrom(R, i) = 0 \/ CitedFrom(R, i) > EligibleAt(R, i)
     /\ removed > 0
     /\ SuffixTokens(R, i) <= removed * Ratio \/ Idle(R, cache, i)

reduceRecords(R, cache) == {i \in Places(R, "result") : Reduces(R, cache, i)}

----------------------------------------------------------------------------
(* mergeWorkNotes.                                                         *)

LastCheckpoint(R) == LastOf(Places(R, "checkpoint"))
PreviousNote(R) == IF LastCheckpoint(R) = 0 THEN {} ELSE R[LastCheckpoint(R)].note
CoveredThrough(R) == IF LastCheckpoint(R) = 0 THEN 0 ELSE R[LastCheckpoint(R)].covered

\* The places of the work notes after what the last checkpoint covers.
workNotes(R) == {i \in Places(R, "note") : i > CoveredThrough(R)}

Of(note, section) == {f \in note : f.section = section}
Superseded(note) == UNION {f.supersedes : f \in note}
Replaced(f, note) == f.sources \cap Superseded(note) # {}

\* Mutant: an entry supports one fact only.
AmbiguousNever(merged, note) == FALSE

\* A superseded source that supports more earlier facts than the note gives in
\* their place: which of them it corrects is ambiguous.
Ambiguous(merged, note) ==
  LET droppable == Of(merged, "fact") \cup (IF Of(note, "plan") = {} THEN Of(merged, "plan") ELSE {})
  IN \E id \in Superseded(note) :
       Cardinality({f \in droppable : id \in f.sources}) > Cardinality({f \in note : id \in f.supersedes})

\* One more work note on top of a merged one; the writer merges when it refuses.
AddNote(m, r) ==
  LET note == r.note
      kept(section) == {f \in Of(m.note, section) : ~Replaced(f, note)}
  IN IF \/ ~m.ok
        \/ \E f \in Of(m.note, "instruction") : Replaced(f, note)
        \/ Ambiguous(m.note, note)
     THEN [ok |-> FALSE, note |-> {}]
     ELSE [ok |-> TRUE,
           note |-> Of(m.note, "instruction") \cup kept("fact") \cup Of(note, "fact")
                      \cup (IF Of(note, "plan") # {} THEN Of(note, "plan") ELSE kept("plan"))]

\* The work notes on top of the last checkpoint's, oldest first.
mergeWorkNotes(R) ==
  LET merged[n \in 0..Len(R)] ==
        IF n = 0 THEN [ok |-> TRUE, note |-> PreviousNote(R)]
        ELSE IF n \in workNotes(R) THEN AddNote(merged[n - 1], R[n]) ELSE merged[n - 1]
  IN merged[Len(R)]

----------------------------------------------------------------------------
(* The branch grows.                                                       *)

LastKind == IF records = <<>> THEN "none" ELSE Last(records).kind

Pauses == IF LastKind = "result" THEN {0, 1} ELSE {0}

Extend(r) ==
  /\ Len(records) < MaxRecords
  /\ \E pause \in Pauses : records' = Append(records, [r EXCEPT !.pause = pause])

Prompt == LastKind \in {"none", "stop", "checkpoint"} /\ Extend(Record("user", 1))

\* The answer that ends the turn.
Stop == LastKind \in {"user", "result", "note"} /\ Extend(Record("stop", 1))

MayCall ==
  /\ LastKind \in {"user", "result", "note"}
  /\ Cardinality(Places(records, "result") \cup Places(records, "note")) < MaxCalls

ToolResult(target, size, text) ==
  /\ MayCall
  /\ Extend([Record("result", size) EXCEPT !.target = target, !.text = text])

\* context_note: a validated note goes to the branch while its call runs.
Citable == Places(records, "result") \cup {1}
Sources == {S \in SUBSET Citable : Cardinality(S) \in {1, 2}}
Corrections == {S \in SUBSET Citable : Cardinality(S) <= 1}

TakeNote(facts) ==
  /\ MayCall /\ Cardinality(Places(records, "note")) < MaxNotes
  /\ Extend([Record("note", 0) EXCEPT !.note = facts])

Checkpoint(note, covered, by) ==
  /\ LastKind = "stop" /\ Cardinality(Places(records, "checkpoint")) < MaxCheckpoints
  /\ Extend([Record("checkpoint", 1) EXCEPT !.note = note, !.covered = covered, !.by = by])

\* compact on the notes path: it covers the branch through the last note.
CompactFromNotes ==
  /\ workNotes(records) # {} /\ mergeWorkNotes(records).ok
  /\ Checkpoint(mergeWorkNotes(records).note, LastOf(Places(records, "note")), "notes")

\* compact on the other paths: a writer's note, through the leaf or through the
\* end of a prefix prepared after an earlier turn.
CompactByWriter(note, covered) ==
  /\ records[covered].kind = "stop" /\ covered > CoveredThrough(records)
  /\ Checkpoint(note, covered, "writer")

Init == records = <<>>

WorkFacts == {Fact("fact", S, C) : S \in Sources, C \in Corrections}
Plans == {{}, {Fact("plan", {1}, {})}}

\* What a writer may have written: an instruction of the user, some fact.
WriterNotes == {{Fact("instruction", {1}, {})}} \cup {{Fact("fact", {i}, {})} : i \in Citable}

Next ==
  \/ Prompt \/ Stop
  \/ \E target \in Targets \cup {"none"}, size \in ResultSizes : ToolResult(target, size, TRUE)
  \/ ToolResult("none", 1, FALSE)
  \/ \E fact \in WorkFacts, plan \in Plans : TakeNote({fact} \cup plan)
  \/ CompactFromNotes
  \/ \E note \in WriterNotes, covered \in DOMAIN records : CompactByWriter(note, covered)

Spec == Init /\ [][Next]_vars

----------------------------------------------------------------------------
(* Properties.                                                             *)

\* The reduced prefix is monotone: whatever is appended, turns, notes and
\* checkpoints, no result that one request showed reduced is full in a later
\* one of the same model, which would void the provider's cached prefix.
ReductionOnlyGrows ==
  [][\A cache \in Lifetimes : reduceRecords(records, cache) \subseteq reduceRecords(records', cache)]_vars

\* A fact of a work note or of a checkpoint rests on result i and nothing else.
CitedAlone(i) == \E j \in DOMAIN records : \E f \in records[j].note : f.sources = {i}

\* Sole evidence stays: a result that some fact cites alone while it is shown
\* in full is never reduced afterwards, however much later it becomes eligible.
SoleEvidenceStays ==
  [][\A cache \in Lifetimes, i \in Places(records, "result") :
       (CitedAlone(i) /\ ~Reduces(records, cache, i)) => ~Reduces(records', cache, i)]_vars

\* The last note a writer wrote, and the work notes it does not cover.
WriterCheckpoint(R) == LastOf({i \in Places(R, "checkpoint") : R[i].by = "writer"})
Base(R) == IF WriterCheckpoint(R) = 0 THEN [note |-> {}, covered |-> 0]
           ELSE [note |-> R[WriterCheckpoint(R)].note, covered |-> R[WriterCheckpoint(R)].covered]
Since(R) == {i \in Places(R, "note") : i > Base(R).covered}

\* The facts of a note and of the notes at the places S that no later one corrects.
Uncorrected(R, note, S) ==
  LET stands(f, later) == \A j \in later : ~Replaced(f, R[j].note)
  IN {f \in Of(note, "fact") : stands(f, S)}
       \cup UNION {{f \in Of(R[i].note, "fact") : stands(f, {j \in S : j > i})} : i \in S}

\* Where the note at place j of S corrects an entry, no more facts stand on that
\* entry than the note gives in their place.
OneForOne(R, note, S) ==
  \A j \in S : \A id \in Superseded(R[j].note) :
    Cardinality({f \in Uncorrected(R, note, {i \in S : i < j}) : id \in f.sources})
      <= Cardinality({f \in R[j].note : id \in f.supersedes})

(***************************************************************************)
(* Facts are corrected, never lost: over any number of merges and          *)
(* checkpoints without a writer, the instructions are all there, the       *)
(* merged note has exactly the facts that no later note corrects, and a    *)
(* correction, which names an entry and not a fact, has never taken more   *)
(* facts away than it gave (work-notes.ts mergeWorkNotes).                 *)
(***************************************************************************)
FactsCorrectedNotLost ==
  LET merged == mergeWorkNotes(records)
      base == Base(records).note
  IN merged.ok =>
       /\ Of(merged.note, "instruction") = Of(base, "instruction")
       /\ Of(merged.note, "fact") = Uncorrected(records, base, Since(records))
       /\ OneForOne(records, base, Since(records))
=============================================================================
