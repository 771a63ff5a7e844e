---------------------------- MODULE WriterProofs ----------------------------
(***************************************************************************)
(* For any facts, any number of chunks and any answers: writeMemory's      *)
(* requests are bounded, every reservation is settled, and what it returns *)
(* can be committed and keeps what the repaired note had.                  *)
(***************************************************************************)
EXTENDS Writer, TLAPS

\* A repair is about a note, and only a repair is; the first request is none.
RepairHasCandidate ==
  /\ request = "generate" <=> candidate = None
  /\ at = "open" => request = "generate"

Inv == TypeOK /\ CallsSoFar /\ Outstanding /\ RepairHasCandidate /\ ReturnedIsChecked

\* None, the answer before the first one, is an answer without a note.
LEMMA NoneIsAnAnswer == None \in Answers /\ None \notin Notes
BY DEF None, Answers, Notes

\* The check of a candidate and its measure are what a committable note needs.
LEMMA CheckedIsCommittable ==
  ASSUME NEW note \in Notes, checkCandidate(note), note.fits
  PROVE  Committable(note)
BY DEF checkCandidate, validateNoteContent, Committable

\* A splice of a repair that stands is a note again, and what was not asked about,
\* or may not be withdrawn, is still in it.
LEMMA SpliceKeeps ==
  ASSUME candidate \in Notes, SpliceStands
  PROVE  Spliced \in Notes /\ Committable(Spliced) /\ KeepsEvidence(candidate, Spliced)
<1>1. response \in Notes /\ (\A f \in Asked : MayAnswer(f))
  BY DEF SpliceStands, IsNote
<1>2. /\ \A f \in Facts : Spliced.cites[f] = IF f \in Asked THEN response.cites[f] ELSE candidate.cites[f]
      /\ Spliced.fits = response.fits
  BY DEF Spliced
<1>3. Spliced \in Notes
  BY <1>1 DEF Spliced, Notes
<1>4. Committable(Spliced)
  BY <1>3, CheckedIsCommittable DEF SpliceStands
<1>5. ASSUME NEW f \in Facts, candidate.cites[f] = "quoted" PROVE Spliced.cites[f] = "quoted"
  BY <1>2, <1>5 DEF Asked, Uncited, Misquoting
<1>6. ASSUME NEW f \in Facts, Present(candidate, f), ~Present(Spliced, f)
      PROVE  f \in Misquoting(candidate) /\ ~(f \in Instructions /\ candidate.cites[f] = "misbound")
  <2>1. f \in Asked /\ ~Present(response, f)
    BY <1>2, <1>6 DEF Present
  <2>2. request = "quotation" /\ ~(f \in Instructions /\ candidate.cites[f] = "misbound")
    BY <1>1, <2>1 DEF MayAnswer
  <2> QED BY <2>1, <2>2 DEF Asked
<1> QED BY <1>3, <1>4, <1>5, <1>6 DEF KeepsEvidence

\* Every operation starts with nothing sent, nothing reserved.
LEMMA InitInv == ASSUME Init PROVE Inv
<1>1. TypeOK
  <2>1. CASE options \in [role : {"session"}, noteRepair : BOOLEAN, chunks : 0..1, unfinished : BOOLEAN]
    <3>1. options \in [role : {"session", "fixed"}, noteRepair : BOOLEAN, chunks : Nat, unfinished : BOOLEAN]
      BY <2>1
    <3> QED BY <3>1, NoneIsAnAnswer DEF Init, TypeOK, Places, Requests
  <2>2. CASE options \in [role : {"fixed"}, noteRepair : BOOLEAN, chunks : 0..MaxChunks, unfinished : BOOLEAN]
    <3>1. options \in [role : {"session", "fixed"}, noteRepair : BOOLEAN, chunks : Nat, unfinished : BOOLEAN]
      BY <2>2, WriterAssumption
    <3> QED BY <3>1, NoneIsAnAnswer DEF Init, TypeOK, Places, Requests
  <2> QED BY <2>1, <2>2 DEF Init
<1>2. CallsSoFar /\ Outstanding /\ RepairHasCandidate /\ ReturnedIsChecked
  BY WriterAssumption, NoneIsAnAnswer
  DEF Init, CallsSoFar, Outstanding, RepairHasCandidate, ReturnedIsChecked, Extra, N
<1> QED BY <1>1, <1>2 DEF Inv

\* An error ends the operation and sends nothing.
LEMMA ThrowStep == ASSUME Inv, Throw, at \notin {"reserved", "sent"} PROVE Inv'
<1>1. TypeOK'
  BY DEF Inv, TypeOK, Throw, Go, Places
<1>2. (CallsSoFar /\ Outstanding)'
  BY DEF Inv, TypeOK, CallsSoFar, Outstanding, Throw, Go, Extra, N, Session
<1>3. (RepairHasCandidate /\ ReturnedIsChecked)'
  BY DEF Inv, RepairHasCandidate, ReturnedIsChecked, Throw, Go
<1> QED BY <1>1, <1>2, <1>3 DEF Inv

\* The first request belongs to the first chunk.
LEMMA OpenStep == ASSUME Inv, Open PROVE Inv'
<1>1. CASE Throw
  BY <1>1, ThrowStep DEF Open
<1>2. CASE /\ ~aborted /\ options.chunks > 0
           /\ request' = "generate" /\ Go("calling")
           /\ UNCHANGED <<response, candidate, chunk, repairUsed, toolCallDeclined, result>>
  <2>1. TypeOK'
    BY <1>2 DEF Inv, TypeOK, Go, Places, Requests
  <2>2. (CallsSoFar /\ Outstanding)'
    BY <1>2 DEF Inv, TypeOK, CallsSoFar, Outstanding, Open, Go, Extra, N, Session
  <2>3. (RepairHasCandidate /\ ReturnedIsChecked)'
    <3>1. candidate = None  BY DEF Open, Inv, RepairHasCandidate
    <3> QED BY <1>2, <3>1 DEF Inv, RepairHasCandidate, ReturnedIsChecked, Go
  <2> QED BY <2>1, <2>2, <2>3 DEF Inv
<1> QED BY <1>1, <1>2 DEF Open

\* A reservation is outstanding until it is settled.
LEMMA ReserveStep == ASSUME Inv, Reserve PROVE Inv'
<1>1. CASE Throw
  BY <1>1, ThrowStep DEF Reserve
<1>2. CASE /\ ~aborted
           /\ reserved' = reserved + 1 /\ at' = "reserved"
           /\ UNCHANGED <<options, request, response, candidate, chunk, repairUsed, toolCallDeclined,
                          writerCalls, settled, aborted, result>>
  <2>1. TypeOK'
    BY <1>2 DEF Inv, TypeOK, Places, Requests
  <2>2. (CallsSoFar /\ Outstanding /\ RepairHasCandidate /\ ReturnedIsChecked)'
    BY <1>2 DEF Inv, TypeOK, CallsSoFar, Outstanding, RepairHasCandidate, ReturnedIsChecked, Reserve, Extra, N, Session
  <2> QED BY <2>1, <2>2 DEF Inv
<1> QED BY <1>1, <1>2 DEF Reserve

\* A reserved call is sent, or settled as given up.
LEMMA SendStep == ASSUME Inv, Send PROVE Inv'
<1>1. TypeOK'
  BY DEF Inv, TypeOK, Send, Settles, Places, Requests
<1>2. (CallsSoFar /\ Outstanding /\ RepairHasCandidate /\ ReturnedIsChecked)'
  BY DEF Inv, TypeOK, CallsSoFar, Outstanding, RepairHasCandidate, ReturnedIsChecked, Send, Settles, Extra, N, Session
<1> QED BY <1>1, <1>2 DEF Inv

\* A sent call is settled, whatever the answer.
LEMMA AnswerStep == ASSUME Inv, Answer PROVE Inv'
<1>1. TypeOK'
  BY DEF Inv, TypeOK, Answer, Settles, Places, Requests
<1>2. (CallsSoFar /\ Outstanding /\ RepairHasCandidate /\ ReturnedIsChecked)'
  BY DEF Inv, TypeOK, CallsSoFar, Outstanding, RepairHasCandidate, ReturnedIsChecked, Answer, Settles, Extra, N, Session
<1> QED BY <1>1, <1>2 DEF Inv

\* The declined tool call takes the one continuation.
LEMMA DeclineStep == ASSUME Inv, declineToolCall PROVE Inv'
<1>1. TypeOK'
  BY NoneIsAnAnswer DEF Inv, TypeOK, declineToolCall, Go, Places
<1>2. (CallsSoFar /\ Outstanding /\ RepairHasCandidate /\ ReturnedIsChecked)'
  BY DEF Inv, TypeOK, CallsSoFar, Outstanding, RepairHasCandidate, ReturnedIsChecked,
         declineToolCall, MayDecline, Go, Extra, N, Session
<1> QED BY <1>1, <1>2 DEF Inv

\* The repair takes the one repair, and keeps the note it is about.
LEMMA RepairStep == ASSUME Inv, Repair PROVE Inv'
<1>1. RepairKind(response) \in Requests \ {"generate"}
  BY DEF Repair, RepairKind, Requests
<1>2. TypeOK'
  BY <1>1, NoneIsAnAnswer DEF Inv, TypeOK, Repair, IsNote, Go, Places
<1>3. RepairHasCandidate'
  BY <1>1, NoneIsAnAnswer DEF Repair, Go, IsNote, RepairHasCandidate
<1>4. (CallsSoFar /\ Outstanding /\ ReturnedIsChecked)'
  BY DEF Inv, TypeOK, CallsSoFar, Outstanding, ReturnedIsChecked, Repair, MayRepair, Go,
         Extra, N, Session
<1> QED BY <1>2, <1>3, <1>4 DEF Inv

\* A note is taken for its chunk: the last one is the result.
LEMMA TakeStep ==
  ASSUME Inv, NEW note \in Notes, TakeNote(note), Committable(note),
         candidate # None => KeepsEvidence(candidate, note)
  PROVE  Inv'
<1>1. TypeOK'
  BY NoneIsAnAnswer DEF Inv, TypeOK, TakeNote, Go, Places, Requests
<1>2. (CallsSoFar /\ Outstanding)'
  BY DEF Inv, TypeOK, CallsSoFar, Outstanding, TakeNote, Go, Extra, N, Session
<1>3. RepairHasCandidate'
  BY DEF Inv, RepairHasCandidate, TakeNote, Go
<1>4. ReturnedIsChecked'
  <2> SUFFICES ASSUME at' = "returned"
               PROVE  Committable(result)' /\ (candidate' # None => KeepsEvidence(candidate, result)')
    BY DEF ReturnedIsChecked
  <2>1. result' = note /\ candidate' = candidate /\ options' = options
    BY DEF TakeNote, Go
  <2> QED BY <2>1 DEF Committable, KeepsEvidence, Present, Misquoting
<1> QED BY <1>1, <1>2, <1>3, <1>4 DEF Inv

\* An answer that stands is a whole note, and no repair's.
LEMMA AcceptAnswerStep == ASSUME Inv, AcceptAnswer PROVE Inv'
<1>1. response \in Notes /\ Committable(response) /\ candidate = None
  BY CheckedIsCommittable DEF AcceptAnswer, AnswerStands, IsNote, Inv, RepairHasCandidate
<1> QED BY <1>1, TakeStep DEF AcceptAnswer

\* A splice that stands keeps what was not asked about.
LEMMA AcceptSplicedStep == ASSUME Inv, AcceptSpliced PROVE Inv'
<1>1. candidate \in Notes
  BY DEF AcceptSpliced, SpliceStands, SplicedKinds, Inv, TypeOK, RepairHasCandidate
<1> QED BY <1>1, SpliceKeeps, TakeStep DEF AcceptSpliced

\* A shortened note that stands keeps everything the candidate cites.
LEMMA AcceptShortenedStep == ASSUME Inv, AcceptShortened PROVE Inv'
<1>1. response \in Notes /\ Committable(response)
  BY CheckedIsCommittable DEF AcceptShortened, ShortenedStands, IsNote
<1>2. KeepsEvidence(candidate, response)
  BY DEF AcceptShortened, ShortenedStands, assertRepairPreserved, KeepsEvidence
<1> QED BY <1>1, <1>2, TakeStep DEF AcceptShortened

\* An abort changes nothing by itself.
LEMMA CancelStep == ASSUME Inv, Cancel PROVE Inv'
<1>1. TypeOK'
  BY DEF Inv, TypeOK, Cancel, Places, Requests
<1>2. (CallsSoFar /\ Outstanding /\ RepairHasCandidate /\ ReturnedIsChecked)'
  BY DEF Inv, CallsSoFar, Outstanding, RepairHasCandidate, ReturnedIsChecked, Cancel, Extra, N, Session, Committable, KeepsEvidence, Present, Misquoting
<1> QED BY <1>1, <1>2 DEF Inv

\* The invariant of the whole operation: the bounds of CallsSoFar and the
\* balance of Outstanding hold over every sequence of answers and aborts.
THEOREM Invariance == Spec => []Inv
<1>1. Init => Inv
  BY InitInv
<1>2. Inv /\ [Next]_vars => Inv'
  <2> SUFFICES ASSUME Inv, [Next]_vars PROVE Inv'
    OBVIOUS
  <2>1. CASE Refuse
    BY <2>1, ThrowStep DEF Refuse
  <2>2. CASE UNCHANGED vars
    <3>1. TypeOK'
      BY <2>2 DEF Inv, TypeOK, vars
    <3>2. (CallsSoFar /\ Outstanding /\ RepairHasCandidate /\ ReturnedIsChecked)'
      BY <2>2 DEF Inv, CallsSoFar, Outstanding, RepairHasCandidate, ReturnedIsChecked, vars, Extra, N, Session,
                  Committable, KeepsEvidence, Present, Misquoting
    <3> QED BY <3>1, <3>2 DEF Inv
  <2> QED
    BY <2>1, <2>2, OpenStep, ReserveStep, SendStep, AnswerStep, DeclineStep, RepairStep,
       AcceptAnswerStep, AcceptSplicedStep, AcceptShortenedStep, CancelStep DEF Next, Step
<1> QED BY <1>1, <1>2, PTL DEF Spec

\* Every variable keeps its type.
THEOREM TypeCorrect == Spec => []TypeOK
BY Invariance, PTL DEF Inv

\* For any number of chunks the provider is asked at most once per chunk, once
\* for a repair and once after a declined tool call.
THEOREM Bounded == Spec => []CallsAreBounded
<1>1. Inv => CallsAreBounded
  BY DEF Inv, TypeOK, CallsSoFar, CallsAreBounded, Extra, N
<1> QED BY <1>1, Invariance, PTL

\* Every reservation of the call journal is settled exactly once.
THEOREM Settlement == Spec => []ReservationsSettle
<1>1. Inv => ReservationsSettle
  BY DEF Inv, TypeOK, Outstanding, ReservationsSettle, N
<1> QED BY <1>1, Invariance, PTL

\* What writeMemory returns can be committed on whichever path it came, and has
\* lost nothing of the note that was repaired but facts whose quotation failed.
THEOREM Checked == Spec => []ReturnedIsChecked
BY Invariance, PTL DEF Inv

=============================================================================
