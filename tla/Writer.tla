------------------------------- MODULE Writer -------------------------------
(***************************************************************************)
(* writeMemory (compaction-core/writer.ts): one operation of the session   *)
(* writer or of a fixed writer, its provider calls with their accounting   *)
(* hooks, the declined tool call, the one repair for missing sources,      *)
(* quotations or size, and the checks on each of these paths.  A note is   *)
(* the facts it holds and how each is cited; the provider may answer       *)
(* anything, and the caller may abort at any await.                        *)
(***************************************************************************)
EXTENDS Naturals

CONSTANTS
  MaxChunks,     \* bound: chunks of a fixed writer's sources
  Facts,         \* what a note may state, each on a source of its own
  Instructions,  \* the facts of its section instructions
  NextSteps      \* the facts of its section nextSteps

ASSUME WriterAssumption ==
  MaxChunks \in Nat /\ Instructions \subseteq Facts /\ NextSteps \subseteq Facts

VARIABLES
  options,            \* role, noteRepair, number of source chunks, unfinished turn
  at,                 \* where writeMemory awaits
  request,            \* the kind of request that is built or answered
  response,           \* the answer to it
  candidate,          \* the refused or oversized note its repair is about
  chunk,              \* chunks whose note is accepted
  repairUsed, toolCallDeclined,
  writerCalls,        \* requests sent
  reserved, settled,  \* calls of beforeDispatch and of afterDispatch
  aborted,            \* options.signal
  result              \* the note returned, or None

vars == <<options, at, request, response, candidate, chunk, repairUsed, toolCallDeclined,
          writerCalls, reserved, settled, aborted, result>>

\* How a fact is cited: without a quotation; with one a cited entry contains; with
\* one that no user message contains, or one bound to the wrong entry while a user
\* message does; without sources; with an ID or a superseded ID nobody can read.
Cites == {"absent", "plain", "quoted", "misquoted", "misbound", "uncited", "unknown"}

Notes == [cites : [Facts -> Cites], fits : BOOLEAN]

None    == [kind |-> "none"]     \* no note: not JSON, or another fault of its schema
ToolUse == [kind |-> "toolUse"]

\* What a repair of facts answers has the form of a note: the facts asked about,
\* and whether the note fits with them.
Answers == Notes \cup {None, ToolUse}

IsNote(answer) == answer \in Notes

Present(note, f) == note.cites[f] # "absent"

Uncited(note) == {f \in Facts : note.cites[f] = "uncited"}

Misquoting(note) == {f \in Facts : note.cites[f] \in {"misquoted", "misbound"}}

\* Schema first, then readable sources and verbatim quotations.
validateNoteContent(note) == \A f \in Facts : note.cites[f] \in {"absent", "plain", "quoted"}

\* An unfinished turn requires a next step.
checkCandidate(note) ==
  /\ validateNoteContent(note)
  /\ options.unfinished => \E f \in NextSteps : Present(note, f)

\* Mutant: the size repair goes by another name.
RepairKindRenamed(note) ==
  CASE Uncited(note) # {} -> "sources"
    [] Uncited(note) = {} /\ Misquoting(note) # {} /\ (\A f \in Facts : note.cites[f] # "unknown")
         -> "quotation"
    [] checkCandidate(note) /\ ~note.fits -> "shorten"
    [] OTHER -> "none"

RepairKind(note) ==
  CASE Uncited(note) # {} -> "sources"
    [] Uncited(note) = {} /\ Misquoting(note) # {} /\ (\A f \in Facts : note.cites[f] # "unknown")
         -> "quotation"
    [] checkCandidate(note) /\ ~note.fits -> "size"
    [] OTHER -> "none"

\* The facts the request lists.
Asked == IF request = "sources" THEN Uncited(candidate) ELSE Misquoting(candidate)

Session == options.role = "session"

Go(place) ==
  /\ at' = place
  /\ UNCHANGED <<options, writerCalls, reserved, settled, aborted>>

Throw ==
  /\ Go("failed")
  /\ UNCHANGED <<request, response, candidate, chunk, repairUsed, toolCallDeclined, result>>

SplicedKinds == {"sources", "quotation"}

-----------------------------------------------------------------------------
(* complete() *)

\* Chunk by chunk, or one handover; capacity and sources are checked first.
Open ==
  /\ at = "open"
  /\ \/ /\ ~aborted /\ options.chunks > 0
        /\ request' = "generate" /\ Go("calling")
        /\ UNCHANGED <<response, candidate, chunk, repairUsed, toolCallDeclined, result>>
     \/ Throw

\* beforeDispatch may refuse the call.
Reserve ==
  /\ at = "calling"
  /\ \/ /\ ~aborted
        /\ reserved' = reserved + 1 /\ at' = "reserved"
        /\ UNCHANGED <<options, request, response, candidate, chunk, repairUsed, toolCallDeclined,
                       writerCalls, settled, aborted, result>>
     \/ Throw

Settles == settled' = settled + 1 /\ UNCHANGED <<options, request, candidate, chunk, repairUsed,
                                                 toolCallDeclined, reserved, aborted, result>>

\* Mutant: a call given up before it is sent is not settled.
SendOrForget ==
  /\ at = "reserved"
  /\ \/ ~aborted /\ writerCalls' = writerCalls + 1 /\ at' = "sent" /\ UNCHANGED settled
     \/ aborted /\ at' = "failed" /\ UNCHANGED <<writerCalls, settled>>
  /\ UNCHANGED <<options, request, response, candidate, chunk, repairUsed, toolCallDeclined, reserved, aborted,
                 result>>

\* An abort since the reservation settles the call as not dispatched.
Send ==
  /\ at = "reserved"
  /\ \/ /\ ~aborted
        /\ writerCalls' = writerCalls + 1 /\ at' = "sent"
        /\ UNCHANGED <<options, request, response, candidate, chunk, repairUsed, toolCallDeclined,
                       reserved, settled, aborted, result>>
     \/ aborted /\ Settles /\ at' = "failed" /\ UNCHANGED <<response, writerCalls>>

\* The call is settled whatever came of it.  The transport, the settlement or
\* the observer of progress may throw.
Answer ==
  /\ at = "sent"
  /\ Settles /\ UNCHANGED writerCalls
  /\ \/ at' = "answered"
        /\ response' \in {answer \in Answers :
                           IsNote(answer) /\ request \in SplicedKinds =>
                             \A f \in Facts \ Asked : ~Present(answer, f)}
     \/ at' = "failed" /\ UNCHANGED response

-----------------------------------------------------------------------------
(* What becomes of the answer *)

MayDecline == Session /\ options.noteRepair /\ ~toolCallDeclined

\* Only an answer to generation can be a tool call that is declined.
declineToolCall ==
  /\ at = "answered" /\ ~aborted
  /\ request = "generate" /\ response = ToolUse /\ MayDecline
  /\ toolCallDeclined' = TRUE /\ response' = None
  /\ Go("calling")
  /\ UNCHANGED <<request, candidate, chunk, repairUsed, result>>

\* Mutant: each chunk has a repair of its own.
MayRepairEachChunk == options.noteRepair /\ request = "generate"

MayRepair == options.noteRepair /\ ~repairUsed

\* The request must fit its bounded window; else the refusal stands.
Repair ==
  /\ at = "answered" /\ ~aborted
  /\ request = "generate" /\ IsNote(response) /\ RepairKind(response) # "none" /\ MayRepair
  /\ repairUsed' = TRUE /\ request' = RepairKind(response)
  /\ candidate' = response /\ response' = None
  /\ Go("calling")
  /\ UNCHANGED <<chunk, toolCallDeclined, result>>

\* accept(): the last chunk's note is the result.
TakeNote(note) ==
  /\ at = "answered" /\ ~aborted
  /\ chunk' = chunk + 1 /\ response' = None
  /\ \/ /\ chunk + 1 = options.chunks
        /\ Go("returned") /\ result' = note /\ UNCHANGED <<request, candidate>>
     \/ /\ chunk + 1 < options.chunks
        /\ Go("calling") /\ request' = "generate" /\ candidate' = None /\ UNCHANGED result
  /\ UNCHANGED <<repairUsed, toolCallDeclined>>

\* An answer to generation is checked and measured.
AnswerStands == request = "generate" /\ IsNote(response) /\ checkCandidate(response) /\ response.fits

AcceptAnswer == AnswerStands /\ TakeNote(response)

\* Each fact is answered with sources.  Only a quotation repair withdraws one, and
\* no instruction whose quotation a user message contains.
MayAnswer(f) ==
  /\ response.cites[f] # "uncited"
  /\ ~Present(response, f) =>
       request = "quotation" /\ ~(f \in Instructions /\ candidate.cites[f] = "misbound")

\* applySourcesRepair, applyQuoteRepair: what was not asked about stays as it was.
Spliced ==
  [cites |-> [f \in Facts |-> IF f \in Asked THEN response.cites[f] ELSE candidate.cites[f]],
   fits  |-> response.fits]

\* Mutant: the repaired note is measured, not validated again.
SpliceStandsUnchecked ==
  /\ request \in SplicedKinds /\ IsNote(response) /\ \A f \in Asked : MayAnswer(f)
  /\ Spliced.fits

\* The spliced note is validated as a whole, and measured.
SpliceStands ==
  /\ request \in SplicedKinds /\ IsNote(response) /\ \A f \in Asked : MayAnswer(f)
  /\ checkCandidate(Spliced) /\ Spliced.fits

AcceptSpliced == SpliceStands /\ TakeNote(Spliced)

\* Prose may be merged, and a fact is present where its source is still cited; a
\* source, a quotation or a section is not lost.
assertRepairPreserved(before, after) ==
  \A f \in Facts :
    /\ Present(before, f) => Present(after, f)
    /\ before.cites[f] = "quoted" => after.cites[f] = "quoted"

\* The answer is a whole note again: validated, measured and compared.
ShortenedStands ==
  /\ request = "size" /\ IsNote(response)
  /\ checkCandidate(response) /\ response.fits /\ assertRepairPreserved(candidate, response)

AcceptShortened == ShortenedStands /\ TakeNote(response)

Declinable == ~aborted /\ request = "generate" /\ response = ToolUse /\ MayDecline

\* Mutant: a fault of a kind that can be repaired is never refused.
RefuseUnrepairable ==
  /\ at = "answered" /\ ~Declinable
  /\ aborted \/ (/\ IsNote(response) => RepairKind(response) = "none"
                 /\ ~(AnswerStands \/ SpliceStands \/ ShortenedStands))
  /\ Throw

\* Refused: aborted, no note, a fault no repair is left for, too many facts for
\* one, a repair that does not fit its window, or one that leaves a fault.
Refuse ==
  /\ at = "answered" /\ ~Declinable
  /\ aborted \/ ~(AnswerStands \/ SpliceStands \/ ShortenedStands)
  /\ Throw

\* The caller's signal: the user, the deadline, a compaction.
Cancel ==
  /\ at \notin {"returned", "failed"} /\ ~aborted
  /\ aborted' = TRUE
  /\ UNCHANGED <<options, at, request, response, candidate, chunk, repairUsed, toolCallDeclined,
                 writerCalls, reserved, settled, result>>

Init ==
  /\ options \in [role : {"session"}, noteRepair : BOOLEAN, chunks : 0..1, unfinished : BOOLEAN]
                 \cup [role : {"fixed"}, noteRepair : BOOLEAN, chunks : 0..MaxChunks,
                       unfinished : BOOLEAN]
  /\ at = "open" /\ request = "generate" /\ response = None /\ candidate = None /\ chunk = 0
  /\ repairUsed = FALSE /\ toolCallDeclined = FALSE
  /\ writerCalls = 0 /\ reserved = 0 /\ settled = 0
  /\ aborted = FALSE /\ result = None

\* What the writer does by itself once its provider has answered.
Step ==
  Open \/ Reserve \/ Send \/ Answer \/ declineToolCall \/ Repair
  \/ AcceptAnswer \/ AcceptSpliced \/ AcceptShortened \/ Refuse

Next == Step \/ Cancel

Spec == Init /\ [][Next]_vars

\* The provider answers each request or its stream ends; promises settle.
FairSpec == Spec /\ WF_vars(Step)

-----------------------------------------------------------------------------
(* Properties *)

Requests == {"generate", "sources", "quotation", "size"}

Places == {"open", "calling", "reserved", "sent", "answered", "returned", "failed"}

\* Every variable keeps its type.
TypeOK ==
  /\ options \in [role : {"session", "fixed"}, noteRepair : BOOLEAN, chunks : Nat,
                  unfinished : BOOLEAN]
  /\ at \in Places /\ request \in Requests /\ response \in Answers
  /\ candidate \in Notes \cup {None}
  /\ chunk \in Nat /\ writerCalls \in Nat /\ reserved \in Nat /\ settled \in Nat
  /\ repairUsed \in BOOLEAN /\ toolCallDeclined \in BOOLEAN /\ aborted \in BOOLEAN
  /\ result \in Notes \cup {None}

N(condition) == IF condition THEN 1 ELSE 0

\* Requests are bounded whatever the provider answers: one per chunk, one
\* repair over the whole operation and, from the session writer, one declined
\* tool call, so three from the session writer; without noteRepair only the
\* chunks (writer.ts declineToolCall, accept).
CallsAreBounded ==
  writerCalls <= options.chunks + N(options.noteRepair) + N(options.noteRepair /\ Session)

\* Every reservation is settled, once, before writeMemory returns or throws,
\* also when the call is given up, the transport fails or a hook throws.
ReservationsSettle ==
  /\ settled <= reserved /\ reserved <= settled + 1
  /\ at \in {"returned", "failed"} => settled = reserved

\* The inductive strengthening: the requests behind the accepted chunks, the
\* one under way, and the two extra ones, each taken once.
Extra == N(repairUsed) + N(toolCallDeclined)

CallsSoFar ==
  /\ at = "open" => writerCalls = 0 /\ chunk = 0
  /\ at \in {"calling", "reserved"} => writerCalls <= chunk + Extra /\ chunk < options.chunks
  /\ at \in {"sent", "answered"} => writerCalls <= chunk + 1 + Extra /\ chunk < options.chunks
  /\ writerCalls <= options.chunks + Extra
  /\ repairUsed => options.noteRepair
  /\ toolCallDeclined => options.noteRepair /\ Session

Outstanding == reserved = settled + N(at \in {"reserved", "sent"})

(***************************************************************************)
(* Whatever path a note took, what is returned can be committed: every     *)
(* fact is cited from readable entries and quoted verbatim, it fits, and   *)
(* an unfinished turn has a next step.  Of the note that was repaired no   *)
(* verbatim quotation is lost and the evidence of no fact but one whose    *)
(* quotation failed, never of an instruction that a user message contains  *)
(* (writer.ts repairSources, repairQuotations, accept).                    *)
(***************************************************************************)
Committable(note) ==
  /\ note \in Notes /\ note.fits
  /\ \A f \in Facts : note.cites[f] \notin {"uncited", "unknown", "misquoted", "misbound"}
  /\ options.unfinished => \E f \in NextSteps : Present(note, f)

KeepsEvidence(before, after) ==
  \A f \in Facts :
    /\ before.cites[f] = "quoted" => after.cites[f] = "quoted"
    /\ Present(before, f) /\ ~Present(after, f) =>
         f \in Misquoting(before) /\ ~(f \in Instructions /\ before.cites[f] = "misbound")

ReturnedIsChecked ==
  at = "returned" => Committable(result) /\ (candidate # None => KeepsEvidence(candidate, result))

\* An operation ends, with a note or an error, over any sequence of answers.
WriterEnds == <>(at \in {"returned", "failed"})

=============================================================================
