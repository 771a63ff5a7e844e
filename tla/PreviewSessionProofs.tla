------------------------ MODULE PreviewSessionProofs ------------------------
(***************************************************************************)
(* Proofs about PreviewSession, for every value of its constants.          *)
(***************************************************************************)
EXTENDS PreviewSession, FiniteSetTheorems, SequenceTheorems, TLAPS

(***************************************************************************)
(* What every method of the store that is no confirmation preserves: the   *)
(* attempt a that both the marker and its durable copy carry, st when they *)
(* carry its staged candidate, and the identity of the visible marker.     *)
(***************************************************************************)
Carries(s, a, st) ==
  /\ s.marker # NoMarker /\ s.synced # NoMarker
  /\ s.marker.att = a /\ s.synced.att = a
  /\ st => s.marker.staged /\ s.synced.staged

\* A claim that a power loss cannot take away.
Durable(s) == s.marker # NoMarker /\ s.synced # NoMarker

Keeps(s, t) ==
  /\ \A a \in Nat, st \in BOOLEAN : Carries(s, a, st) => Carries(t, a, st)
  /\ Durable(s) => Durable(t)

Preserves(s, t) ==
  /\ Keeps(s, t)
  /\ s.marker # NoMarker => t.marker # NoMarker /\ t.marker.att = s.marker.att

\* The results of a method: a store and an error, the store s preserved.
Good(s, r) == r.s \in Stores /\ r.err \in Codes \cup {Ok} /\ Preserves(s, r.s)

\* Ok and NoCode are no failure codes.
LEMMA Distinct == Ok \notin Codes /\ NoCode \notin Codes
  BY DEF Ok, NoCode, Codes

\* The fields of an absent marker.
LEMMA NoMarkerFacts ==
  /\ NoMarker \in Markers
  /\ NoMarker.att = 0 /\ NoMarker.staged = FALSE /\ NoMarker.state = "none"
  BY DEF NoMarker, Markers

\* Blocking a marker keeps its attempt and its staged candidate.
LEMMA BlockedType ==
  ASSUME NEW m \in Markers, NEW code \in Codes
  PROVE  /\ Blocked(m, code) \in Markers
         /\ Blocked(m, code) # NoMarker
         /\ Blocked(m, code).att = m.att /\ Blocked(m, code).staged = m.staged
         /\ Blocked(m, code).src = m.src
<1>1. m.att \in Nat /\ m.src \in Hash /\ m.staged \in BOOLEAN
  <2>1. CASE m = NoMarker  BY <2>1 DEF NoMarker, Hash
  <2>2. CASE m # NoMarker  BY <2>2 DEF Markers
  <2> QED BY <2>1, <2>2
<1> QED BY <1>1 DEF Blocked, Markers, NoMarker

\* Preserving composes: a method may call another.
LEMMA PreservesTransitive ==
  ASSUME NEW s, NEW t, NEW u, Preserves(s, t), Preserves(t, u)
  PROVE  Preserves(s, u)
  BY DEF Preserves, Keeps

\* A method that touches no file preserves everything.
LEMMA PreservesSame ==
  ASSUME NEW s, NEW t, s.marker = t.marker, s.synced = t.synced
  PROVE  Preserves(s, t)
  BY DEF Preserves, Keeps, Carries, Durable

\* forgetReadback touches no file.
LEMMA FrontierUpdate ==
  ASSUME NEW s \in Stores, NEW f \in BOOLEAN
  PROVE  /\ [s EXCEPT !.frontier = f] \in Stores
         /\ Preserves(s, [s EXCEPT !.frontier = f])
  BY PreservesSame DEF Stores

\* Updates of the fields that are not files.
LEMMA FieldUpdates ==
  ASSUME NEW s \in Stores, NEW code \in Codes \cup {NoCode}, NEW m \in Markers
  PROVE  /\ [s EXCEPT !.latched = code] \in Stores
         /\ Preserves(s, [s EXCEPT !.latched = code])
         /\ [s EXCEPT !.recovery = m] \in Stores
         /\ Preserves(s, [s EXCEPT !.recovery = m])
  BY PreservesSame DEF Stores

\* The three outcomes of writeMarker: written, not written, written but not synced.
LEMMA WriteMarker ==
  ASSUME NEW s \in Stores, NEW m \in Markers, NEW r \in writeMarker(s, m)
  PROVE  /\ r.s \in Stores /\ r.s.recovery = s.recovery
         /\ \/ r.err = Ok /\ r.s.marker = m /\ r.s.synced = m
            \/ r.err = "IO" /\ r.s = s
            \/ r.err = "IO" /\ r.s.marker = m /\ r.s.synced = s.synced
<1>1. \/ r = Result([s EXCEPT !.marker = m, !.synced = m], Ok)
      \/ r = Result(s, "IO")
      \/ r = Result([s EXCEPT !.marker = m], "IO")
  BY DEF writeMarker
<1>2. CASE r = Result([s EXCEPT !.marker = m, !.synced = m], Ok)
  <2>1. r.s = [s EXCEPT !.marker = m, !.synced = m] /\ r.err = Ok  BY <1>2 DEF Result
  <2> QED BY <2>1 DEF Stores
<1>3. CASE r = Result(s, "IO")  BY <1>3 DEF Result
<1>4. CASE r = Result([s EXCEPT !.marker = m], "IO")
  <2>1. r.s = [s EXCEPT !.marker = m] /\ r.err = "IO"  BY <1>4 DEF Result
  <2> QED BY <2>1 DEF Stores
<1> QED BY <1>1, <1>2, <1>3, <1>4

\* Reading the marker succeeds or fails with an IO code.
LEMMA MarkerReadsType == \A read \in MarkerReads : read \in {Ok, "IO"}
  BY DEF MarkerReads

\* Reading the session file succeeds or fails with an IO code.
LEMMA SessionReadsType == \A read \in SessionReads : read \in {Ok, "IO"}
  BY DEF SessionReads

\* recordFailure keeps the attempt on record.
LEMMA RecordFailure ==
  ASSUME NEW s \in Stores, NEW code \in Codes, NEW m \in Markers, NEW r \in recordFailure(s, code, m)
  PROVE  Good(s, r)
<1>1. \/ r = Result(s, "IO")
      \/ r = Result(s, Ok)
      \/ r \in writeMarker(s, Blocked(Previous(s, m), code))
  BY MarkerReadsType DEF recordFailure
<1>2. CASE r = Result(s, "IO") \/ r = Result(s, Ok)
  BY <1>2, PreservesSame DEF Result, Good, Codes
<1>3. CASE r \in writeMarker(s, Blocked(Previous(s, m), code))
  <2> DEFINE p == Previous(s, m)
             n == Blocked(p, code)
  <2>1. p \in Markers /\ (s.marker # NoMarker => p = s.marker)
    BY DEF Previous, Stores
  <2>2. n \in Markers /\ n # NoMarker /\ n.att = p.att /\ n.staged = p.staged
    BY <2>1, BlockedType
  <2> HIDE DEF n, p
  <2>3. r \in writeMarker(s, n)  BY <1>3 DEF n, p
  <2>4. /\ r.s \in Stores
        /\ \/ r.err = Ok /\ r.s.marker = n /\ r.s.synced = n
           \/ r.err = "IO" /\ r.s = s
           \/ r.err = "IO" /\ r.s.marker = n /\ r.s.synced = s.synced
    BY <2>2, <2>3, WriteMarker
  <2>5. Preserves(s, r.s)
    BY <2>1, <2>2, <2>4 DEF Preserves, Keeps, Carries, Durable
  <2> QED BY <2>4, <2>5 DEF Good, Codes
<1> QED BY <1>1, <1>2, <1>3

\* reject latches, keeps the attempt on record and throws its code.
LEMMA Reject ==
  ASSUME NEW s \in Stores, NEW code \in Codes, NEW m \in Markers, NEW r \in reject(s, code, m)
  PROVE  Good(s, r) /\ r.err = code
<1> DEFINE kept == IF m.staged THEN Blocked(m, code) ELSE s.recovery
           t == [s EXCEPT !.latched = code, !.recovery = kept]
<1>1. kept \in Markers  BY BlockedType DEF Stores
<1> HIDE DEF kept
<1>2. t \in Stores /\ t.marker = s.marker /\ t.synced = s.synced  BY <1>1 DEF Stores
<1> HIDE DEF t
<1>3. PICK q \in recordFailure(t, code, m) : r = Result(q.s, code)
  BY DEF reject, kept, t
<1>4. Good(t, q)  BY <1>2, RecordFailure
<1>5. Preserves(s, t)  BY <1>2, PreservesSame
<1>6. r.s = q.s /\ r.err = code  BY <1>3 DEF Result
<1> QED BY <1>4, <1>5, <1>6, PreservesTransitive DEF Good

\* fail keeps the attempt on record.
LEMMA StoreFail ==
  ASSUME NEW s \in Stores, NEW code \in Codes, NEW r \in fail(s, code)
  PROVE  Good(s, r)
<1> DEFINE t == [s EXCEPT !.frontier = FALSE, !.latched = code]
<1>1. t \in Stores /\ t.marker = s.marker /\ t.synced = s.synced  BY DEF Stores
<1> HIDE DEF t
<1>2. PICK q \in recordFailure(t, code, NoMarker) : r \in OrReject(q, NoMarker, {q})
  BY DEF fail, t
<1>3. Good(t, q)  BY <1>1, NoMarkerFacts, RecordFailure
<1>4. Good(q.s, r) \/ r = q
  <2>1. CASE q.err = Ok  BY <1>2, <2>1 DEF OrReject
  <2>2. CASE q.err # Ok
    BY <1>2, <1>3, <2>2, NoMarkerFacts, Reject DEF OrReject, Good
  <2> QED BY <2>1, <2>2
<1>5. Preserves(s, t)  BY <1>1, PreservesSame
<1> QED BY <1>3, <1>4, <1>5, PreservesTransitive DEF Good

\* evaluate leaves the files alone, and a marker is never ready.
LEMMA Evaluate ==
  ASSUME NEW s \in Stores, NEW latch, NEW request, NEW same,
         NEW reads \in SUBSET {Ok, "IO"}, NEW r \in evaluate(s, latch, request, same, reads)
  PROVE  /\ Good(s, r) /\ r.s.marker = s.marker /\ r.s.synced = s.synced /\ r.s.recovery = s.recovery
         /\ r.err = Ok => s.marker = NoMarker
<1> DEFINE cleared == [s EXCEPT !.frontier = s.frontier /\ ~request]
           ready   == [s EXCEPT !.frontier = request \/ s.frontier]
<1>1. /\ cleared \in Stores /\ cleared.marker = s.marker /\ cleared.synced = s.synced /\ cleared.recovery = s.recovery
      /\ ready \in Stores /\ ready.marker = s.marker /\ ready.synced = s.synced /\ ready.recovery = s.recovery
  BY DEF Stores
<1> HIDE DEF cleared, ready
<1>2. ASSUME NEW t \in Stores, t.marker = s.marker, t.synced = s.synced, t.recovery = s.recovery, NEW code \in Codes,
             r = Latch(t, latch, code)
      PROVE  Good(s, r) /\ r.s.marker = s.marker /\ r.s.synced = s.synced /\ r.s.recovery = s.recovery
             /\ r.err # Ok
  <2>1. r.s \in Stores /\ r.s.marker = s.marker /\ r.s.synced = s.synced /\ r.s.recovery = s.recovery /\ r.err = code
    BY <1>2, FieldUpdates DEF Latch, Result, Stores
  <2> QED BY <2>1, PreservesSame, Distinct DEF Good
<1>3. ASSUME NEW t \in Stores, t.marker = s.marker, t.synced = s.synced, t.recovery = s.recovery, NEW code \in Codes \cup {Ok},
             r = Result(t, code), code = Ok => s.marker = NoMarker
      PROVE  /\ Good(s, r) /\ r.s.marker = s.marker /\ r.s.synced = s.synced /\ r.s.recovery = s.recovery
             /\ r.err = Ok => s.marker = NoMarker
  BY <1>3, PreservesSame DEF Result, Good
<1>4. PICK read \in MarkerReads, session \in reads :
        r = CASE read # Ok -> Latch(s, latch, read)
              [] read = Ok /\ s.marker # NoMarker -> Result(s, s.marker.code)
              [] read = Ok /\ s.marker = NoMarker /\ s.latched # NoCode -> Result(s, s.latched)
              [] read = Ok /\ s.marker = NoMarker /\ s.latched = NoCode /\ request /\ s.frontier -> Result(s, Ok)
              [] OTHER ->
                   IF session # Ok THEN Latch(cleared, latch, session)
                   ELSE IF ~same THEN Latch(cleared, latch, "SOURCE_CHANGED")
                   ELSE Result(ready, Ok)
  BY DEF evaluate, cleared, ready
<1>5. read \in {Ok, "IO"} /\ session \in {Ok, "IO"} /\ {"IO", "SOURCE_CHANGED"} \subseteq Codes
  BY MarkerReadsType DEF Codes
<1>6. CASE read # Ok  BY <1>2, <1>4, <1>5, <1>6
<1>7. CASE read = Ok /\ s.marker # NoMarker
  <2>1. s.marker.code \in Codes  BY <1>7 DEF Stores, Markers
  <2>2. r = Result(s, s.marker.code)  BY <1>4, <1>7
  <2> QED BY <1>3, <2>1, <2>2, Distinct
<1>8. CASE read = Ok /\ s.marker = NoMarker /\ s.latched # NoCode
  <2>1. s.latched \in Codes  BY <1>8 DEF Stores
  <2>2. r = Result(s, s.latched)  BY <1>4, <1>8
  <2> QED BY <1>3, <2>1, <2>2, <1>8
<1>9. CASE read = Ok /\ s.marker = NoMarker /\ s.latched = NoCode
  <2>1. CASE request /\ s.frontier
    <3>1. r = Result(s, Ok)  BY <1>4, <1>9, <2>1
    <3> QED BY <1>3, <3>1, <1>9
  <2>2. CASE ~(request /\ s.frontier)
    <3>1. r = IF session # Ok THEN Latch(cleared, latch, session)
              ELSE IF ~same THEN Latch(cleared, latch, "SOURCE_CHANGED")
              ELSE Result(ready, Ok)
      BY <1>4, <1>9, <2>2
    <3> QED BY <1>1, <1>2, <1>3, <1>5, <1>9, <3>1
  <2> QED BY <2>1, <2>2
<1> QED BY <1>5, <1>6, <1>7, <1>8, <1>9

\* The store shows attempt a in its marker.
Shows(s, a) == s.marker # NoMarker /\ s.marker.att = a

\* The outcomes of publishing a pending marker.
LEMMA Published ==
  ASSUME NEW s \in Stores, NEW a \in Nat, NEW branch, hashEntries(branch) \in Hash,
         NEW r \in Publish(s, a, branch)
  PROVE  /\ r.s \in Stores /\ r.err \in Codes \cup {Ok}
         /\ Shows(r.s, a) \/ Preserves(s, r.s)
         /\ Durable(s) => Durable(r.s)
         /\ r.err = Ok => Carries(r.s, a, FALSE)
<1> DEFINE n == Pending(a, branch)
<1>1. n \in Markers /\ n # NoMarker /\ n.att = a
  BY DEF Pending, Markers, NoMarker, Codes
<1> HIDE DEF n
<1>2. PICK w \in writeMarker(s, n) :
        r \in OrReject(w, NoMarker, {Result([w.s EXCEPT !.recovery = NoMarker], Ok)})
  BY DEF Publish, n
<1>3. /\ w.s \in Stores
      /\ \/ w.err = Ok /\ w.s.marker = n /\ w.s.synced = n
         \/ w.err = "IO" /\ w.s = s
         \/ w.err = "IO" /\ w.s.marker = n /\ w.s.synced = s.synced
  BY <1>1, WriteMarker
<1>4. CASE w.err = Ok
  <2>1. r = Result([w.s EXCEPT !.recovery = NoMarker], Ok)  BY <1>2, <1>4 DEF OrReject
  <2>2. r.s = [w.s EXCEPT !.recovery = NoMarker] /\ r.err = Ok  BY <2>1 DEF Result
  <2>3. r.s \in Stores /\ r.s.marker = w.s.marker /\ r.s.synced = w.s.synced
    BY <1>3, <2>2, NoMarkerFacts DEF Stores
  <2>4. w.s.marker = n /\ w.s.synced = n  BY <1>3, <1>4 DEF Ok
  <2> QED BY <1>1, <2>2, <2>3, <2>4 DEF Carries, Shows, Durable
<1>5. CASE w.err # Ok
  <2>1. r \in reject(w.s, "IO", NoMarker)  BY <1>2, <1>3, <1>5 DEF OrReject
  <2>2. Good(w.s, r) /\ r.err = "IO"  BY <1>3, <2>1, NoMarkerFacts, Reject DEF Codes
  <2>3. CASE w.s = s  BY <2>2, <2>3 DEF Good, Ok, Preserves, Keeps
  <2>4. CASE w.s.marker = n /\ w.s.synced = s.synced
    <3>1. Shows(r.s, a)  BY <1>1, <2>2, <2>4 DEF Good, Preserves, Shows
    <3>2. Durable(s) => Durable(r.s)  BY <1>1, <2>2, <2>4 DEF Good, Preserves, Keeps, Durable
    <3> QED BY <2>2, <3>1, <3>2 DEF Good, Ok
  <2> QED BY <1>3, <1>5, <2>3, <2>4
<1> QED BY <1>4, <1>5

\* begin: when it succeeds, the new attempt is on record durably.
LEMMA Begin ==
  ASSUME NEW s \in Stores, NEW explicitRetry, NEW a \in Nat, NEW branch,
         hashEntries(branch) \in Hash, NEW same, NEW reads \in SUBSET {Ok, "IO"},
         NEW r \in begin(s, explicitRetry, a, branch, same, reads)
  PROVE  /\ r.s \in Stores /\ r.err \in Codes \cup {Ok}
         /\ Shows(r.s, a) \/ Preserves(s, r.s)
         /\ Durable(s) => Durable(r.s)
         /\ r.err = Ok => Carries(r.s, a, FALSE)
<1> DEFINE t       == [s EXCEPT !.frontier = FALSE]
           retried == { Result(t, IF read # Ok THEN read
                                  ELSE IF session # Ok THEN session
                                  ELSE IF ~same THEN "SOURCE_CHANGED" ELSE Ok)
                        : read \in MarkerReads, session \in reads }
           checked == IF explicitRetry THEN retried ELSE evaluate(t, TRUE, FALSE, same, reads)
<1>1. t \in Stores /\ Preserves(s, t)  BY FrontierUpdate
<1>a. begin(s, explicitRetry, a, branch, same, reads)
        = UNION { OrReject(q, NoMarker, Publish(q.s, a, branch)) : q \in checked }
  BY DEF begin
<1> HIDE DEF t
<1>2. PICK q \in checked : r \in OrReject(q, NoMarker, Publish(q.s, a, branch))
  <2> HIDE DEF checked
  <2> QED BY <1>a
<1>3. Good(t, q)
  <2>1. CASE explicitRetry
    <3>1. PICK read \in MarkerReads, session \in reads :
            q = Result(t, IF read # Ok THEN read
                          ELSE IF session # Ok THEN session
                          ELSE IF ~same THEN "SOURCE_CHANGED" ELSE Ok)
      BY <1>2, <2>1
    <3>2. q.s = t /\ q.err \in {Ok, "IO", "SOURCE_CHANGED"}
      BY <3>1, MarkerReadsType DEF Result
    <3> QED BY <1>1, <3>2, PreservesSame DEF Good, Codes
  <2>2. CASE ~explicitRetry
    <3> HIDE DEF retried
    <3>1. q \in evaluate(t, TRUE, FALSE, same, reads)  BY <1>2, <2>2
    <3> QED BY <1>1, <3>1, Evaluate
  <2> QED BY <2>1, <2>2
<1> HIDE DEF checked, retried
<1>4. q.s \in Stores /\ q.err \in Codes \cup {Ok} /\ Preserves(s, q.s)
  BY <1>1, <1>3, PreservesTransitive DEF Good
<1>5. CASE q.err = Ok
  <2>1. r \in Publish(q.s, a, branch)  BY <1>2, <1>5 DEF OrReject
  <2>2. /\ r.s \in Stores /\ r.err \in Codes \cup {Ok}
        /\ Shows(r.s, a) \/ Preserves(q.s, r.s)
        /\ Durable(q.s) => Durable(r.s)
        /\ r.err = Ok => Carries(r.s, a, FALSE)
    BY <1>4, <2>1, Published
  <2>3. Durable(s) => Durable(q.s)  BY <1>4 DEF Preserves, Keeps
  <2>4. CASE Shows(r.s, a)  BY <2>2, <2>3, <2>4
  <2>5. CASE Preserves(q.s, r.s)
    <3>1. Preserves(s, r.s)  BY <1>4, <2>5, PreservesTransitive
    <3> QED BY <2>2, <2>3, <3>1
  <2> QED BY <2>2, <2>4, <2>5
<1>6. CASE q.err # Ok
  <2>1. r \in reject(q.s, q.err, NoMarker)  BY <1>2, <1>6 DEF OrReject
  <2>2. Good(q.s, r) /\ r.err = q.err  BY <1>4, <1>6, <2>1, NoMarkerFacts, Reject
  <2> QED BY <1>4, <1>6, <2>2, PreservesTransitive DEF Good, Preserves, Keeps
<1> QED BY <1>5, <1>6

\* stage: when it succeeds, the attempt is on record with its candidate.
LEMMA Stage ==
  ASSUME NEW s \in Stores, NEW a \in Nat, NEW src, NEW branch, NEW same,
         NEW r \in stage(s, a, src, branch, same)
  PROVE  /\ Good(s, r)
         /\ r.err = Ok => Carries(r.s, a, TRUE)
<1> DEFINE t       == [s EXCEPT !.frontier = FALSE]
           checked == { Result(t, CASE read # Ok -> read
                                [] read = Ok /\ s.marker.state # "pending" -> "COMMIT_UNCONFIRMED"
                                [] OTHER ->
                                     IF s.marker.att # a \/ s.marker.src # src \/ hashEntries(branch) # src
                                       THEN "SOURCE_CHANGED"
                                     ELSE IF session # Ok THEN session
                                     ELSE IF ~same THEN "SOURCE_CHANGED" ELSE Ok)
                   : read \in MarkerReads, session \in SessionReads }
<1>1. t \in Stores /\ Preserves(s, t) /\ t.marker = s.marker /\ t.synced = s.synced
  BY FrontierUpdate DEF Stores
<1> DEFINE written(q) ==
  OrReject(q, NoMarker,
    UNION { OrReject(w, NoMarker, {w}) : w \in writeMarker(q.s, [q.s.marker EXCEPT !.staged = TRUE]) })
<1>a. stage(s, a, src, branch, same) = UNION { written(q) : q \in checked }
  BY DEF stage
<1> HIDE DEF t
<1>2. PICK q \in checked : r \in written(q)
  <2> HIDE DEF checked, written
  <2> QED BY <1>a
<1>3. /\ q.s = t /\ q.err \in Codes \cup {Ok}
      /\ q.err = Ok => s.marker.state = "pending" /\ s.marker.att = a
  <2>1. PICK read \in MarkerReads, session \in SessionReads :
          q = Result(t, CASE read # Ok -> read
                          [] read = Ok /\ s.marker.state # "pending" -> "COMMIT_UNCONFIRMED"
                          [] OTHER ->
                               IF s.marker.att # a \/ s.marker.src # src \/ hashEntries(branch) # src
                                 THEN "SOURCE_CHANGED"
                               ELSE IF session # Ok THEN session
                               ELSE IF ~same THEN "SOURCE_CHANGED" ELSE Ok)
    BY <1>2
  <2> QED BY <2>1, MarkerReadsType, SessionReadsType DEF Result, Codes, Ok
<1> HIDE DEF checked
<1>4. CASE q.err # Ok
  <2>1. r \in reject(t, q.err, NoMarker)  BY <1>2, <1>3, <1>4 DEF OrReject
  <2>2. Good(t, r) /\ r.err # Ok  BY <1>1, <1>3, <1>4, <2>1, NoMarkerFacts, Reject
  <2> QED BY <1>1, <2>2, PreservesTransitive DEF Good
<1>5. CASE q.err = Ok
  <2> DEFINE n == [t.marker EXCEPT !.staged = TRUE]
  <2>1. t.marker # NoMarker /\ t.marker.att = a  BY <1>1, <1>3, <1>5, NoMarkerFacts
  <2>2. n \in Markers /\ n # NoMarker /\ n.att = a /\ n.staged = TRUE
    BY <1>1, <2>1 DEF Stores, Markers, NoMarker
  <2> HIDE DEF n
  <2>3. PICK w \in writeMarker(t, n) : r \in OrReject(w, NoMarker, {w})
    BY <1>2, <1>3, <1>5 DEF OrReject, n
  <2>4. /\ w.s \in Stores
        /\ \/ w.err = Ok /\ w.s.marker = n /\ w.s.synced = n
           \/ w.err = "IO" /\ w.s = t
           \/ w.err = "IO" /\ w.s.marker = n /\ w.s.synced = t.synced
    BY <1>1, <2>2, <2>3, WriteMarker
  <2>5. Preserves(t, w.s)  BY <2>1, <2>2, <2>4 DEF Preserves, Keeps, Carries, Durable
  <2>6. CASE w.err = Ok
    <3>1. r = w /\ r.s.marker = n /\ r.s.synced = n  BY <2>3, <2>4, <2>6 DEF OrReject, Ok
    <3>2. Carries(r.s, a, TRUE)  BY <3>1, <2>2 DEF Carries
    <3> QED BY <1>1, <2>4, <2>5, <2>6, <3>1, <3>2, PreservesTransitive DEF Good
  <2>7. CASE w.err # Ok
    <3>1. r \in reject(w.s, "IO", NoMarker)  BY <2>3, <2>4, <2>7 DEF OrReject
    <3>2. Good(w.s, r) /\ r.err = "IO"  BY <2>4, <3>1, NoMarkerFacts, Reject DEF Codes
    <3> QED BY <1>1, <2>5, <3>2, PreservesTransitive DEF Good, Ok
  <2> QED BY <2>6, <2>7
<1> QED BY <1>4, <1>5

\* Removing the marker leaves a typed store, and a code when it failed.
LEMMA Released ==
  ASSUME NEW s \in Stores, NEW m \in Markers, NEW r \in Release(s, m)
  PROVE  r.s \in Stores /\ r.err \in Codes \cup {Ok}
<1>1. PICK u \in writeMarker(s, NoMarker) :
        r \in OrReject(u, m, {Result([u.s EXCEPT !.latched = NoCode, !.recovery = NoMarker], Ok)})
  BY DEF Release, removeMarker
<1>2. u.s \in Stores /\ u.err \in {Ok, "IO"}  BY NoMarkerFacts, WriteMarker
<1>3. CASE u.err = Ok
  <2>1. r = Result([u.s EXCEPT !.latched = NoCode, !.recovery = NoMarker], Ok)
    BY <1>1, <1>3 DEF OrReject
  <2>2. r.s = [u.s EXCEPT !.latched = NoCode, !.recovery = NoMarker] /\ r.err = Ok
    BY <2>1 DEF Result
  <2> QED BY <1>2, <2>2, NoMarkerFacts DEF Stores
<1>4. CASE u.err # Ok
  <2>1. r \in reject(u.s, "IO", m)  BY <1>1, <1>2, <1>4 DEF OrReject
  <2> QED BY <1>2, <2>1, Reject DEF Good, Codes
<1> QED BY <1>3, <1>4

\* A confirmation names the attempt it read back, or keeps what is on record.
ReadBack(s, explicitRecovery, entry, branch, disk, a) ==
  \E m \in {s.marker, s.recovery} :
    /\ m \in Markers /\ m.att = a
    /\ s.marker # NoMarker => m = s.marker
    /\ Identified(m, explicitRecovery, entry, branch)
    /\ ReadbackError(m, entry, branch, disk) = Ok

\* confirm removes only the marker whose checkpoint it has read back.
LEMMA Confirm ==
  ASSUME NEW s \in Stores, NEW explicitRecovery, NEW entry, NEW branch, NEW disk,
         NEW r \in confirm(s, explicitRecovery, entry, branch, disk)
  PROVE  /\ r.s \in Stores /\ r.err \in Codes \cup {Ok} /\ r.ver \in Nat
         /\ r.ver = 0 => Preserves(s, r.s)
         /\ r.ver # 0 => ReadBack(s, explicitRecovery, entry, branch, disk, r.ver)
<1> DEFINE t == [s EXCEPT !.frontier = FALSE]
           m == IF s.marker # NoMarker THEN s.marker
                ELSE IF explicitRecovery THEN s.recovery ELSE NoMarker
           restored == IF s.marker # NoMarker THEN {Result(t, Ok)} ELSE recordFailure(t, m.code, m)
           session(u, x) == LET err == IF x # Ok THEN x ELSE ReadbackError(m, entry, branch, disk)
                            IN  IF err = Ok THEN Confirmed(Release(u, m), m.att)
                                ELSE Confirmed(reject(u, err, m), 0)
           readback(u) == UNION { session(u, x) : x \in SessionReads }
           later(q)    == IF q.err = Ok THEN readback(q.s) ELSE Confirmed(reject(q.s, q.err, m), 0)
           answer(x)   == IF x # Ok THEN Confirmed(reject(t, x, NoMarker), 0)
                          ELSE IF ~Identified(m, explicitRecovery, entry, branch)
                            THEN Confirmed(reject(t, "COMMIT_UNCONFIRMED", m), 0)
                          ELSE UNION { later(q) : q \in restored }
           Goal == /\ r.s \in Stores /\ r.err \in Codes \cup {Ok} /\ r.ver \in Nat
                   /\ r.ver = 0 => Preserves(s, r.s)
                   /\ r.ver # 0 => ReadBack(s, explicitRecovery, entry, branch, disk, r.ver)
<1>1. confirm(s, explicitRecovery, entry, branch, disk) = UNION { answer(x) : x \in MarkerReads }
  BY DEF confirm
<1>2. t \in Stores /\ Preserves(s, t)  BY FrontierUpdate
<1>3. m \in Markers /\ (s.marker # NoMarker => m = s.marker) /\ (m = NoMarker \/ m \in {s.marker, s.recovery})
  BY NoMarkerFacts DEF Stores
<1> HIDE DEF t, m
<1>4. ASSUME NEW u \in Stores, Preserves(s, u), NEW code \in Codes, NEW n \in Markers,
             r \in Confirmed(reject(u, code, n), 0)
      PROVE  Goal
  <2>1. PICK q \in reject(u, code, n) : r = [s |-> q.s, err |-> q.err, ver |-> 0]
    BY <1>4 DEF Confirmed
  <2>2. Good(u, q)  BY Reject
  <2>3. r.s = q.s /\ r.err = q.err /\ r.ver = 0  BY <2>1
  <2> QED BY <1>4, <2>2, <2>3, PreservesTransitive DEF Good
<1>5. PICK x \in MarkerReads : r \in answer(x)
  <2> HIDE DEF answer
  <2> QED BY <1>1
<1>6. x \in {Ok, "IO"}  BY MarkerReadsType
<1>7. CASE x # Ok
  <2>1. r \in Confirmed(reject(t, "IO", NoMarker), 0)  BY <1>5, <1>6, <1>7
  <2> QED BY <1>2, <1>4, <2>1, NoMarkerFacts DEF Codes
<1>8. CASE x = Ok /\ ~Identified(m, explicitRecovery, entry, branch)
  <2>1. r \in Confirmed(reject(t, "COMMIT_UNCONFIRMED", m), 0)  BY <1>5, <1>8
  <2> QED BY <1>2, <1>3, <1>4, <2>1 DEF Codes
<1>9. CASE x = Ok /\ Identified(m, explicitRecovery, entry, branch)
  <2>1. m.att # 0 /\ m # NoMarker  BY <1>9, NoMarkerFacts DEF Identified
  <2>2. m.code \in Codes /\ m.att \in Nat  BY <1>3, <2>1 DEF Markers
  <2>3. PICK q \in restored : r \in later(q)
    <3>1. r \in UNION { later(q) : q \in restored }  BY <1>5, <1>9
    <3> HIDE DEF later, restored
    <3> QED BY <3>1
  <2>4. q.s \in Stores /\ q.err \in Codes \cup {Ok} /\ Preserves(s, q.s)
    <3>1. CASE s.marker # NoMarker
      <4>1. q = Result(t, Ok)  BY <2>3, <3>1
      <4> QED BY <1>2, <4>1 DEF Result
    <3>2. CASE s.marker = NoMarker
      <4>1. q \in recordFailure(t, m.code, m)  BY <2>3, <3>2
      <4>2. Good(t, q)  BY <1>2, <1>3, <2>2, <4>1, RecordFailure
      <4> QED BY <1>2, <4>2, PreservesTransitive DEF Good
    <3> QED BY <3>1, <3>2
  <2> HIDE DEF restored
  <2>5. CASE q.err # Ok
    <3>1. r \in Confirmed(reject(q.s, q.err, m), 0)  BY <2>3, <2>5
    <3>2. q.err \in Codes  BY <2>4, <2>5
    <3> QED BY <1>3, <1>4, <2>4, <3>1, <3>2
  <2>6. CASE q.err = Ok
    <3>1. PICK y \in SessionReads : r \in session(q.s, y)
      <4>1. r \in UNION { session(q.s, y) : y \in SessionReads }  BY <2>3, <2>6
      <4> HIDE DEF session
      <4> QED BY <4>1
    <3> DEFINE err == IF y # Ok THEN y ELSE ReadbackError(m, entry, branch, disk)
    <3>2. err \in Codes \cup {Ok}
      BY SessionReadsType DEF ReadbackError, Codes
    <3>3. CASE err # Ok
      <4>1. r \in Confirmed(reject(q.s, err, m), 0)  BY <3>1, <3>3
      <4> HIDE DEF err
      <4> QED BY <1>3, <1>4, <2>4, <3>2, <3>3, <4>1
    <3>4. CASE err = Ok
      <4>1. r \in Confirmed(Release(q.s, m), m.att)  BY <3>1, <3>4
      <4>2. ReadbackError(m, entry, branch, disk) = Ok  BY <3>4
      <4>3. PICK z \in Release(q.s, m) : r = [s |-> z.s, err |-> z.err, ver |-> m.att]
        BY <4>1 DEF Confirmed
      <4>4. z.s \in Stores /\ z.err \in Codes \cup {Ok}  BY <1>3, <2>4, Released
      <4>5. r.s = z.s /\ r.err = z.err /\ r.ver = m.att  BY <4>3
      <4>6. ReadBack(s, explicitRecovery, entry, branch, disk, r.ver)
        BY <1>3, <1>9, <2>1, <4>2, <4>5 DEF ReadBack
      <4> QED BY <2>1, <2>2, <4>4, <4>5, <4>6
    <3> QED BY <3>3, <3>4
  <2> QED BY <2>5, <2>6
<1> QED BY <1>7, <1>8, <1>9

-----------------------------------------------------------------------------
(* Branches and the file *)

\* An entry of a typed branch has typed fields.
LEMMA TokenField ==
  ASSUME NEW b \in Seq(Tokens), NEW i \in DOMAIN b
  PROVE  b[i] \in Tokens
  BY LenProperties, ElementOfSeq

\* The hash of a branch is a hash.
LEMMA HashType ==
  ASSUME NEW b \in Seq(Tokens)
  PROVE  hashEntries(b) \in Hash
<1>1. DOMAIN b = 1..Len(b) /\ Len(b) \in Nat  BY LenProperties
<1>2. \A i \in 1..Len(b) : b[i].id \in Nat /\ b[i].rev \in {0, 1}
  <2> TAKE i \in 1..Len(b)
  <2>1. b[i] \in Tokens  BY ElementOfSeq
  <2> QED BY <2>1 DEF Tokens
<1>3. hashEntries(b) \in [1..Len(b) -> Nat \X {0, 1}]
  BY <1>1, <1>2 DEF hashEntries
<1> QED BY <1>1, <1>3, SeqDef DEF Hash

\* What the disk holds for a typed branch is typed.
LEMMA OnDiskType ==
  ASSUME NEW b \in Seq(Tokens)
  PROVE  /\ OnDisk(b) \in Seq(Tokens)
         /\ DOMAIN OnDisk(b) = DOMAIN b
         /\ \A i \in DOMAIN b : /\ OnDisk(b)[i].kind = b[i].kind /\ OnDisk(b)[i].att = b[i].att
                               /\ OnDisk(b)[i].src = b[i].src
<1>1. DOMAIN b = 1..Len(b) /\ Len(b) \in Nat  BY LenProperties
<1> DEFINE f(i) == IF b[i].id \in edited THEN [b[i] EXCEPT !.rev = 1] ELSE b[i]
<1>2. ASSUME NEW i \in 1..Len(b)
      PROVE  f(i) \in Tokens /\ f(i).kind = b[i].kind /\ f(i).att = b[i].att /\ f(i).src = b[i].src
  <2>1. b[i] \in Tokens  BY ElementOfSeq
  <2> QED BY <2>1 DEF Tokens
<1>3. OnDisk(b) = [i \in 1..Len(b) |-> f(i)]  BY <1>1 DEF OnDisk
<1> HIDE DEF f
<1>4. OnDisk(b) \in [1..Len(b) -> Tokens]  BY <1>2, <1>3
<1> QED BY <1>1, <1>2, <1>3, <1>4, SeqDef

\* The entries appended to a branch, seen entry by entry.
LEMMA AppendType ==
  ASSUME NEW b \in Seq(Tokens), NEW token \in Tokens
  PROVE  /\ Append(b, token) \in Seq(Tokens)
         /\ \A i \in DOMAIN Append(b, token) :
              \/ i \in DOMAIN b /\ Append(b, token)[i] = b[i]
              \/ Append(b, token)[i] = token
  BY AppendProperties, LenProperties

-----------------------------------------------------------------------------
(* The controller's operators *)

\* What a controller call leaves, given the store it found.
GoodControl(s, c) ==
  /\ c.s \in Stores /\ Preserves(s, c.s)
  /\ c.sticky \in Codes \cup {NoCode} /\ c.observed \in Codes \cup {NoCode}

\* The controller's fail keeps the attempt on record.
LEMMA ControllerFail ==
  ASSUME NEW s \in Stores, NEW code \in Codes, NEW c \in Fail(s, code)
  PROVE  GoodControl(s, c) /\ c.err = code
<1>1. PICK r \in fail(s, code) : c = Control(r.s, IF r.err = Ok THEN code ELSE r.err, code, code)
  BY DEF Fail
<1>2. Good(s, r)  BY StoreFail
<1>3. /\ c.s = r.s /\ c.sticky = IF r.err = Ok THEN code ELSE r.err
      /\ c.observed = code /\ c.err = code
  BY <1>1 DEF Control
<1> QED BY <1>2, <1>3 DEF Good, GoodControl

\* A session is refused with a failure code.
LEMMA SessionErrorType == \A b : SessionError(b) \in Codes \cup {Ok}
  BY DEF SessionError, Codes

\* The request guard keeps the attempt on record.
LEMMA Guard ==
  ASSUME store \in Stores, sticky \in Codes \cup {NoCode}, observed \in Codes \cup {NoCode},
         NEW branch, NEW act, NEW errors \in SUBSET (Codes \cup {Ok}), NEW c \in guard(branch, act, errors)
  PROVE  GoodControl(store, c) /\ (c.err = Ok => store.marker = NoMarker)
<1>1. PICK r \in assertReady(branch), e \in errors :
        c \in Guarded(IF r.err = Ok THEN Result(r.s, e) ELSE r, act)
  BY DEF guard
<1>2. Good(store, r) /\ (r.err = Ok => store.marker = NoMarker)
  <2>1. CASE SessionError(branch) # Ok
    <3>1. r = Result(store, SessionError(branch))  BY <1>1, <2>1 DEF assertReady
    <3>2. r.s = store /\ r.err = SessionError(branch)  BY <3>1 DEF Result
    <3> QED BY <2>1, <3>2, SessionErrorType, PreservesSame DEF Good
  <2>2. CASE SessionError(branch) = Ok /\ sticky # NoCode
    <3>1. r = Result(store, sticky)  BY <1>1, <2>2 DEF assertReady
    <3>2. r.s = store /\ r.err = sticky /\ sticky \in Codes  BY <2>2, <3>1 DEF Result
    <3> QED BY <3>2, Distinct, PreservesSame DEF Good
  <2>3. CASE SessionError(branch) = Ok /\ sticky = NoCode
    <3>1. r \in evaluate(store, TRUE, TRUE, Same(branch), SessionReads)
      BY <1>1, <2>3 DEF assertReady
    <3>2. SessionReads \in SUBSET {Ok, "IO"}  BY SessionReadsType
    <3>3. PICK yes \in BOOLEAN, same \in BOOLEAN, reads \in SUBSET {Ok, "IO"} :
            r \in evaluate(store, yes, yes, same, reads)
      BY <3>1, <3>2 DEF Same
    <3> QED BY <3>3, Evaluate
  <2> QED BY <2>1, <2>2, <2>3
<1> DEFINE q == IF r.err = Ok THEN Result(r.s, e) ELSE r
<1>3. /\ q.s = r.s /\ q.err \in Codes \cup {Ok}
      /\ q.err = Ok => store.marker = NoMarker
  BY <1>2 DEF Result, Good
<1>4. c \in Guarded(q, act)  BY <1>1
<1> HIDE DEF q
<1>5. r.s \in Stores /\ Preserves(store, r.s)  BY <1>2 DEF Good
<1>6. CASE c = Control(q.s, sticky, observed, q.err)
  <2>1. c.s = q.s /\ c.sticky = sticky /\ c.observed = observed /\ c.err = q.err
    BY <1>6 DEF Control
  <2> QED BY <1>3, <1>5, <2>1 DEF GoodControl
<1>7. CASE q.err # Ok /\ c \in Fail(q.s, q.err)
  <2>1. GoodControl(q.s, c) /\ c.err = q.err  BY <1>3, <1>5, <1>7, ControllerFail
  <2> QED BY <1>3, <1>5, <1>7, <2>1, PreservesTransitive DEF GoodControl
<1> QED BY <1>4, <1>6, <1>7 DEF Guarded

-----------------------------------------------------------------------------
(* The parts of the invariant that concern the file and its claims *)

FreshAttempts ==
  \A b \in stored : \A i \in DOMAIN b :
    b[i].att <= attempts /\ (b[i].kind = "memory" => b[i].att # 0)

FileInv ==
  /\ stored \subseteq Seq(Tokens) /\ known \subseteq Seq(Tokens) /\ leaf \in Seq(Tokens)
  /\ MemoryIsStored
  /\ FreshAttempts
  /\ UnconfirmedStaysOnRecord /\ UnseenIsClaimed

\* The store step keeps what is on record, and nothing settled is unsettled.
RecordStep ==
  /\ store \in Stores /\ store' \in Stores /\ Keeps(store, store')
  /\ Settled \subseteq Settled'
  /\ attempts \in Nat /\ attempts' \in Nat /\ attempts <= attempts'

\* What a method preserves stays on record.
LEMMA OnRecordKept ==
  ASSUME store \in Stores, Keeps(store, store'), NEW a \in Nat, OnRecord(a)
  PROVE  OnRecord(a)'
<1>1. Carries(store, a, TRUE)  BY NoMarkerFacts DEF OnRecord, Carries
<1>2. Carries(store', a, TRUE)  BY <1>1 DEF Keeps
<1> QED BY <1>2 DEF OnRecord, Carries

\* The attempt a method preserves is still the one on record.
LEMMA AttemptKept ==
  ASSUME store \in Stores, Keeps(store, store'), NEW a \in Nat \ {0},
         \A m \in {store.marker, store.synced} : m.att = a
  PROVE  \A m \in {store'.marker, store'.synced} : m.att = a
<1>1. Carries(store, a, FALSE)  BY NoMarkerFacts DEF Carries
<1>2. Carries(store', a, FALSE)  BY <1>1 DEF Keeps
<1> QED BY <1>2 DEF Carries

\* A step that preserves the record and leaves the file alone.
LEMMA FileUnchanged ==
  ASSUME FileInv, RecordStep, stored' = stored, known' = known, leaf' \in known
  PROVE  FileInv'
<1>1. \A b \in stored : \A i \in DOMAIN b : b[i] \in Tokens /\ b[i].att \in Nat
  BY TokenField DEF FileInv, Tokens
<1>2. FreshAttempts'
  BY <1>1 DEF FileInv, FreshAttempts, RecordStep
<1>3. UnconfirmedStaysOnRecord'
  BY <1>1, OnRecordKept DEF FileInv, RecordStep, UnconfirmedStaysOnRecord
<1>4. UnseenIsClaimed'
  BY DEF FileInv, RecordStep, UnseenIsClaimed, Keeps, Durable
<1> QED BY <1>2, <1>3, <1>4 DEF FileInv, MemoryIsStored

\* A step that preserves the record and appends an entry.
LEMMA FileAppended ==
  ASSUME FileInv, RecordStep, NEW token \in Tokens, Append_(token), token.att <= attempts,
         token.kind = "memory" => token.att # 0 /\ OnRecord(token.att)
  PROVE  FileInv'
<1> DEFINE b0 == Append(leaf, token)
<1>1. b0 \in Seq(Tokens) /\ leaf \in stored /\ leaf \in known
  BY AppendType DEF FileInv, MemoryIsStored
<1>a. b0 # <<>>  BY AppendProperties DEF FileInv
<1>2. \A i \in DOMAIN b0 : (i \in DOMAIN leaf /\ b0[i] = leaf[i]) \/ b0[i] = token
  BY AppendType DEF FileInv
<1>3. stored' = stored \cup {b0} /\ known' = known \cup {b0} /\ leaf' = b0
  BY DEF Append_
<1> HIDE DEF b0
<1>4. \A b \in stored : \A i \in DOMAIN b : b[i] \in Tokens /\ b[i].att \in Nat
  BY TokenField DEF FileInv, Tokens
<1>5. token.att \in Nat  BY DEF Tokens
<1>6. \A b \in stored' : \A i \in DOMAIN b :
        b[i] = token \/ \E c \in stored : \E j \in DOMAIN c : c[j] = b[i]
  BY <1>1, <1>2, <1>3
<1>7. MemoryIsStored'
  BY <1>a, <1>3, FS_AddElement DEF FileInv, MemoryIsStored
<1>8. FreshAttempts'
  BY <1>4, <1>5, <1>6 DEF FileInv, FreshAttempts, RecordStep
<1>9. UnconfirmedStaysOnRecord'
  BY <1>4, <1>5, <1>6, OnRecordKept DEF FileInv, RecordStep, UnconfirmedStaysOnRecord
<1>10. UnseenIsClaimed'
  <2>1. CASE \E b \in stored : Holds(b, "memory")
    BY <1>3, <2>1 DEF FileInv, RecordStep, UnseenIsClaimed, Keeps, Durable
  <2>2. CASE ~\E b \in stored : Holds(b, "memory")
    BY <1>3, <2>2 DEF UnseenIsClaimed
  <2> QED BY <2>1, <2>2
<1> QED BY <1>1, <1>3, <1>7, <1>8, <1>9, <1>10 DEF FileInv

-----------------------------------------------------------------------------
(* The other parts of the invariant *)

TypeRest ==
  /\ store \in Stores /\ saved \in Seq(Tokens) /\ source \in Hash
  /\ edited \subseteq Nat /\ edits \in Nat /\ attempts \in Nat /\ attempt \in Nat
  /\ up \in BOOLEAN /\ active \in BOOLEAN /\ staged \in BOOLEAN
  /\ aborted \in BOOLEAN /\ inflight \in BOOLEAN
  /\ sticky \in Codes \cup {NoCode} /\ observed \in Codes \cup {NoCode}
  /\ phase \in {"starting", "idle", "writing", "returned", "appended", "failing"}
  /\ verified \subseteq Nat /\ superseded \subseteq Nat /\ served \subseteq Nat

ControlInv ==
  /\ attempt <= attempts
  /\ phase \in {"writing", "returned"} => attempt # 0
  /\ WriterRunsOnRecord /\ ReturnedIsStaged /\ NoRequestOnUnconfirmed

\* The invariant by parts.
LEMMA InvParts == Inv <=> FileInv /\ TypeRest /\ ControlInv
  BY DEF Inv, FileInv, TypeRest, ControlInv, TypeOK, AttemptsAreFresh, FreshAttempts

\* The invariant by parts, in the next state.
LEMMA InvPartsNext == Inv' <=> FileInv' /\ TypeRest' /\ ControlInv'
  BY DEF Inv, FileInv, TypeRest, ControlInv, TypeOK, AttemptsAreFresh, FreshAttempts

\* The host's compaction does not move.
LEMMA ControlKept ==
  ASSUME TypeRest, ControlInv, RecordStep, attempt' = attempt, phase' = phase, served' = served
  PROVE  ControlInv'
<1>1. attempt' <= attempts' /\ (phase' \in {"writing", "returned"} => attempt' # 0)
  BY DEF TypeRest, ControlInv, RecordStep
<1>2. WriterRunsOnRecord'
  BY AttemptKept DEF TypeRest, ControlInv, RecordStep, WriterRunsOnRecord
<1>3. ReturnedIsStaged'
  <2> SUFFICES ASSUME phase' = "returned" PROVE OnRecord(attempt)'  BY DEF ReturnedIsStaged
  <2>1. PICK a \in Nat : a = attempt /\ OnRecord(a)
    BY DEF TypeRest, ControlInv, ReturnedIsStaged, OnRecord
  <2>2. OnRecord(a)'  BY <2>1, OnRecordKept DEF RecordStep
  <2> QED BY <2>1, <2>2 DEF OnRecord
<1>4. NoRequestOnUnconfirmed'
  BY DEF ControlInv, RecordStep, NoRequestOnUnconfirmed
<1> QED BY <1>1, <1>2, <1>3, <1>4 DEF ControlInv

\* The host's compaction is over, or not in the writer's part.
LEMMA ControlOver ==
  ASSUME TypeRest, ControlInv, Settled \subseteq Settled', attempts' \in Nat, attempts <= attempts',
         phase' \notin {"writing", "returned"}, attempt' \in {0, attempt}, served' = served
  PROVE  ControlInv'
<1>1. attempt' <= attempts'  BY DEF TypeRest, ControlInv
<1> QED BY <1>1 DEF ControlInv, WriterRunsOnRecord, ReturnedIsStaged, NoRequestOnUnconfirmed

\* A message is an entry.
LEMMA MessageType ==
  ASSUME NEW id \in Nat, NEW kind \in Kinds
  PROVE  /\ Message(id, kind) \in Tokens /\ Message(id, kind).att = 0
         /\ Message(id, kind).kind = kind
<1>1. <<>> \in Hash  BY EmptySeq DEF Hash
<1> QED BY <1>1 DEF Message, Entry, Tokens

\* The next id is a number.
LEMMA NextIdType == ASSUME FileInv PROVE NextId \in Nat
<1>1. Cardinality(stored) \in Nat  BY FS_CardinalityType DEF FileInv, MemoryIsStored
<1> QED BY <1>1 DEF NextId

\* Entries that are no checkpoint, with a store step that keeps the record.
LEMMA MessageAppended ==
  ASSUME FileInv, RecordStep, NEW kind \in Kinds \ {"memory"}, Append_(Message(NextId, kind))
  PROVE  FileInv'
  BY NextIdType, MessageType, FileAppended DEF RecordStep

\* A step that leaves the store alone preserves the record.
LEMMA SameRecord ==
  ASSUME TypeRest, store' = store, attempts' = attempts, Settled \subseteq Settled'
  PROVE  RecordStep
  BY PreservesSame DEF RecordStep, TypeRest, Preserves

-----------------------------------------------------------------------------
(* The actions *)

\* A durable claim stays, unless its own staged checkpoint was read back.
ClaimKept ==
  Durable(store) =>
    \/ store'.marker # NoMarker
    \/ store.marker.staged /\ store.marker.att \in verified'

\* A step that preserves the record keeps every claim.
LEMMA RecordClaim == RecordStep => ClaimKept
  BY DEF RecordStep, Keeps, Durable, ClaimKept

\* Prompt keeps the invariant and every claim.
LEMMA PromptStep == Inv /\ Prompt => Inv' /\ ClaimKept
<1> SUFFICES ASSUME Inv, Prompt PROVE Inv' /\ ClaimKept  OBVIOUS
<1>0. FileInv /\ TypeRest /\ ControlInv  BY InvParts
<1>1. PICK kind \in {"user", "image"} : Append_(Message(NextId, kind))
  BY DEF Prompt
<1>2. /\ UNCHANGED <<store, up, sticky, observed, active, staged, inflight>>
      /\ UNCHANGED <<phase, attempt, source, saved, aborted, attempts, verified, superseded, served>>
  BY DEF Prompt, HostUnchanged, processVars, hostVars, history
<1>3. RecordStep  BY <1>0, <1>2, SameRecord DEF Settled
<1>4. FileInv'  BY <1>0, <1>1, <1>3, MessageAppended DEF Kinds
<1>5. TypeRest'  BY <1>0, <1>1, <1>2 DEF TypeRest, Append_
<1>6. ControlInv'  BY <1>0, <1>2, <1>3, ControlKept
<1> QED BY <1>3, <1>4, <1>5, <1>6, InvPartsNext, RecordClaim

\* AppendCustom keeps the invariant and every claim.
LEMMA AppendCustomStep == Inv /\ AppendCustom => Inv' /\ ClaimKept
<1> SUFFICES ASSUME Inv, AppendCustom PROVE Inv' /\ ClaimKept  OBVIOUS
<1>0. FileInv /\ TypeRest /\ ControlInv  BY InvParts
<1>1. Append_(Message(NextId, "custom"))  BY DEF AppendCustom
<1>2. /\ UNCHANGED <<store, up, sticky, observed, active, staged, inflight>>
      /\ UNCHANGED <<phase, attempt, source, saved, aborted, attempts, verified, superseded, served>>
  BY DEF AppendCustom, HostUnchanged, processVars, hostVars, history
<1>3. RecordStep  BY <1>0, <1>2, SameRecord DEF Settled
<1>4. FileInv'  BY <1>0, <1>1, <1>3, MessageAppended DEF Kinds
<1>5. TypeRest'  BY <1>0, <1>1, <1>2 DEF TypeRest, Append_
<1>6. ControlInv'  BY <1>0, <1>2, <1>3, ControlKept
<1> QED BY <1>3, <1>4, <1>5, <1>6, InvPartsNext, RecordClaim

\* A request without a marker carries only settled checkpoints.
LEMMA ServedSettled ==
  ASSUME FileInv, store.marker = NoMarker \/ ~Holds(leaf, "memory")
  PROVE  AttemptsOn(leaf) \subseteq Settled /\ AttemptsOn(leaf) \subseteq Nat
<1>1. leaf \in stored  BY DEF FileInv, MemoryIsStored
<1>2. \A i \in DOMAIN leaf : leaf[i].att \in Nat  BY TokenField DEF FileInv, Tokens
<1>3. ASSUME NEW i \in DOMAIN leaf, leaf[i].kind = "memory" PROVE leaf[i].att \in Settled
  <2>1. store.marker = NoMarker  BY <1>3 DEF Holds
  <2>2. ~OnRecord(leaf[i].att)  BY <2>1, NoMarkerFacts DEF OnRecord
  <2> QED BY <1>1, <1>3, <2>2 DEF FileInv, UnconfirmedStaysOnRecord
<1> QED BY <1>2, <1>3 DEF AttemptsOn

\* Request keeps the invariant and every claim.
LEMMA RequestStep == Inv /\ Request => Inv' /\ ClaimKept
<1> SUFFICES ASSUME Inv, Request PROVE Inv' /\ ClaimKept  OBVIOUS
<1>0. FileInv /\ TypeRest /\ ControlInv  BY InvParts
<1>1. /\ UNCHANGED <<stored, edited, edits, known, leaf, up, active, staged>>
      /\ UNCHANGED <<phase, attempt, source, saved, attempts, verified, superseded>>
  BY DEF Request, fileVars, processVars
<1>2. /\ store' \in Stores /\ Keeps(store, store')
      /\ sticky' \in Codes \cup {NoCode} /\ observed' \in Codes \cup {NoCode}
      /\ aborted' \in BOOLEAN /\ inflight' \in BOOLEAN
      /\ \/ served' = served
         \/ /\ served' = served \cup AttemptsOn(leaf)
            /\ store.marker = NoMarker \/ ~Holds(leaf, "memory")
  <2>1. CASE inactive /\ inflight' = TRUE /\ served' = served \cup AttemptsOn(leaf)
             /\ UNCHANGED <<store, processVars, aborted>>
    <3>1. ~Holds(leaf, "memory")
      BY <1>0, <2>1 DEF inactive, protected, FileInv, MemoryIsStored
    <3> QED BY <1>0, <2>1, <3>1, PreservesSame DEF TypeRest, processVars, Preserves
  <2>2. CASE \E c \in guard(leaf, active, RequestErrors) :
               /\ Becomes(c)
               /\ inflight' = (c.err = Ok)
               /\ IF c.err = Ok THEN /\ served' = served \cup AttemptsOn(leaf)
                                    /\ UNCHANGED aborted
                  ELSE AbortCompaction /\ UNCHANGED served
    <3>1. PICK c \in guard(leaf, active, RequestErrors) :
               /\ Becomes(c)
               /\ inflight' = (c.err = Ok)
               /\ IF c.err = Ok THEN /\ served' = served \cup AttemptsOn(leaf)
                                    /\ UNCHANGED aborted
                  ELSE AbortCompaction /\ UNCHANGED served
      BY <2>2
    <3>2. RequestErrors \in SUBSET (Codes \cup {Ok})  BY DEF RequestErrors, Codes
    <3>3. GoodControl(store, c) /\ (c.err = Ok => store.marker = NoMarker)
      BY <1>0, <3>1, <3>2, Guard DEF TypeRest
    <3>4. aborted' \in BOOLEAN  BY <1>0, <3>1 DEF AbortCompaction, TypeRest
    <3> QED BY <3>1, <3>3, <3>4 DEF Becomes, GoodControl, Preserves
  <2> QED BY <2>1, <2>2 DEF Request
<1>3. RecordStep  BY <1>0, <1>1, <1>2 DEF RecordStep, TypeRest, Settled
<1>4. FileInv'  BY <1>0, <1>1, <1>3, FileUnchanged DEF FileInv, MemoryIsStored
<1>5. (AttemptsOn(leaf) \subseteq Settled /\ AttemptsOn(leaf) \subseteq Nat) \/ served' = served
  BY <1>0, <1>2, ServedSettled
<1>6. TypeRest'  BY <1>0, <1>1, <1>2, <1>5 DEF TypeRest
<1>7. ControlInv'
  <2>1. served' \subseteq Settled'
    BY <1>0, <1>1, <1>2, <1>5 DEF ControlInv, NoRequestOnUnconfirmed, Settled
  <2>2. WriterRunsOnRecord' /\ ReturnedIsStaged' /\ attempt' <= attempts'
        /\ (phase' \in {"writing", "returned"} => attempt' # 0)
    <3>1. (WriterRunsOnRecord)'
      BY <1>0, <1>1, <1>3, AttemptKept DEF TypeRest, ControlInv, RecordStep, WriterRunsOnRecord
    <3>2. ReturnedIsStaged'
      <4> SUFFICES ASSUME phase' = "returned" PROVE OnRecord(attempt)'  BY DEF ReturnedIsStaged
      <4>1. PICK a \in Nat : a = attempt /\ OnRecord(a)
        BY <1>0, <1>1 DEF TypeRest, ControlInv, ReturnedIsStaged, OnRecord
      <4>2. OnRecord(a)'  BY <1>3, <4>1, OnRecordKept DEF RecordStep
      <4> QED BY <1>1, <4>1, <4>2 DEF OnRecord
    <3> QED BY <1>0, <1>1, <3>1, <3>2 DEF ControlInv
  <2> QED BY <2>1, <2>2 DEF ControlInv, NoRequestOnUnconfirmed
<1> QED BY <1>3, <1>4, <1>6, <1>7, InvPartsNext, RecordClaim

\* Respond keeps the invariant and every claim.
LEMMA RespondStep == Inv /\ Respond => Inv' /\ ClaimKept
<1> SUFFICES ASSUME Inv, Respond PROVE Inv' /\ ClaimKept  OBVIOUS
<1>0. FileInv /\ TypeRest /\ ControlInv  BY InvParts
<1>1. Append_(Message(NextId, "done")) \/ UNCHANGED <<stored, edited, edits, known, leaf>>
  BY DEF Respond, fileVars
<1>2. /\ UNCHANGED <<store, up, sticky, observed, active, staged>> /\ inflight' = FALSE
      /\ UNCHANGED <<phase, attempt, source, saved, aborted, attempts, verified, superseded, served>>
  BY DEF Respond, HostUnchanged, processVars, hostVars, history
<1>3. RecordStep  BY <1>0, <1>2, SameRecord DEF Settled
<1>4. FileInv'
  <2>1. CASE Append_(Message(NextId, "done"))  BY <1>0, <1>3, <2>1, MessageAppended DEF Kinds
  <2>2. CASE UNCHANGED <<stored, edited, edits, known, leaf>>
    BY <1>0, <1>3, <2>2, FileUnchanged DEF FileInv, MemoryIsStored
  <2> QED BY <1>1, <2>1, <2>2
<1>5. TypeRest'  BY <1>0, <1>1, <1>2 DEF TypeRest, Append_
<1>6. ControlInv'  BY <1>0, <1>2, <1>3, ControlKept
<1> QED BY <1>3, <1>4, <1>5, <1>6, InvPartsNext, RecordClaim

\* Only the frontier of the store moves.
LEMMA FrontierRecord ==
  ASSUME TypeRest, NEW f \in BOOLEAN, store' = [store EXCEPT !.frontier = f], attempts' = attempts,
         verified' = verified, superseded' = superseded
  PROVE  RecordStep
<1>1. store' \in Stores /\ Preserves(store, store')  BY FrontierUpdate DEF TypeRest
<1> QED BY <1>1 DEF RecordStep, TypeRest, Settled, Preserves

\* Navigate keeps the invariant and every claim.
LEMMA NavigateStep == Inv /\ Navigate => Inv' /\ ClaimKept
<1> SUFFICES ASSUME Inv, Navigate PROVE Inv' /\ ClaimKept  OBVIOUS
<1>0. FileInv /\ TypeRest /\ ControlInv  BY InvParts
<1>1. /\ leaf' \in known /\ store' = [store EXCEPT !.frontier = FALSE]
      /\ UNCHANGED <<stored, edited, edits, known, up, sticky, observed, active, staged, inflight>>
      /\ UNCHANGED <<phase, attempt, source, saved, aborted, attempts, verified, superseded, served>>
  BY DEF Navigate, HostUnchanged, fileVars, processVars, hostVars, history
<1>2. RecordStep  BY <1>0, <1>1, FrontierRecord
<1>3. FileInv'  BY <1>0, <1>1, <1>2, FileUnchanged
<1>4. TypeRest'  BY <1>0, <1>1, <1>2 DEF TypeRest, RecordStep
<1>5. ControlInv'  BY <1>0, <1>1, <1>2, ControlKept
<1> QED BY <1>2, <1>3, <1>4, <1>5, InvPartsNext, RecordClaim

\* NativeCompaction keeps the invariant and every claim.
LEMMA NativeCompactionStep == Inv /\ NativeCompaction => Inv' /\ ClaimKept
<1> SUFFICES ASSUME Inv, NativeCompaction PROVE Inv' /\ ClaimKept  OBVIOUS
<1>0. FileInv /\ TypeRest /\ ControlInv  BY InvParts
<1>1. /\ Append_(Message(NextId, "foreign")) /\ store' = [store EXCEPT !.frontier = FALSE]
      /\ UNCHANGED <<up, sticky, observed, active, staged, inflight>>
      /\ UNCHANGED <<phase, attempt, source, saved, aborted, attempts, verified, superseded, served>>
  BY DEF NativeCompaction, HostUnchanged, processVars, hostVars, history
<1>2. RecordStep  BY <1>0, <1>1, FrontierRecord
<1>3. FileInv'  BY <1>0, <1>1, <1>2, MessageAppended DEF Kinds
<1>4. TypeRest'  BY <1>0, <1>1, <1>2 DEF TypeRest, RecordStep, Append_
<1>5. ControlInv'  BY <1>0, <1>1, <1>2, ControlKept
<1> QED BY <1>2, <1>3, <1>4, <1>5, InvPartsNext, RecordClaim

\* The store after the checks of compact() and store.begin.
BegunStore(s, t, a) ==
  /\ t \in Stores
  /\ Shows(t, a) \/ Preserves(s, t)
  /\ Durable(s) => Durable(t)

\* The stores and codes with which compact() may come to its first await.
LEMMA BegunResults ==
  ASSUME FileInv, TypeRest, NEW reason, NEW queued, NEW r \in Begun(reason, queued)
  PROVE  /\ BegunStore(store, r.s, attempts + 1) /\ r.err \in Codes \cup {Ok}
         /\ r.err = Ok => Carries(r.s, attempts + 1, FALSE)
<1> DEFINE t == [store EXCEPT !.frontier = FALSE]
           status == IF sticky # NoCode THEN {Result(t, sticky)}
                     ELSE evaluate(t, TRUE, FALSE, Same(leaf), SessionReads)
           allowed(st) == (completed(leaf) \/ (st.err # Ok /\ terminated(leaf))) /\ ~queued
           started(st) == IF allowed(st)
                            THEN begin(st.s, reason = "manual", attempts + 1, leaf, Same(leaf),
                                       IF st.err = Ok THEN {Ok} ELSE SessionReads)
                            ELSE {Result(st.s, "REFUSED")}
<1>1. t \in Stores /\ Preserves(store, t)  BY FrontierUpdate DEF TypeRest
<1>2. Begun(reason, queued) =
        IF SessionError(leaf) # Ok THEN {Result(t, SessionError(leaf))}
        ELSE IF reason = "overflow" THEN {Result(t, "REFUSED")}
        ELSE UNION { started(st) : st \in status }
  BY DEF Begun
<1> HIDE DEF t
<1>3. ASSUME NEW u \in Stores, Preserves(store, u), NEW code \in Codes, r = Result(u, code)
      PROVE  /\ BegunStore(store, r.s, attempts + 1) /\ r.err \in Codes \cup {Ok}
             /\ r.err = Ok => Carries(r.s, attempts + 1, FALSE)
  <2>1. r.s = u /\ r.err = code  BY <1>3 DEF Result
  <2> QED BY <1>3, <2>1, Distinct DEF BegunStore, Preserves, Keeps
<1>4. CASE SessionError(leaf) # Ok
  <2>1. r = Result(t, SessionError(leaf)) /\ SessionError(leaf) \in Codes
    BY <1>2, <1>4, SessionErrorType
  <2> QED BY <1>1, <1>3, <2>1
<1>5. CASE SessionError(leaf) = Ok /\ reason = "overflow"
  <2>1. r = Result(t, "REFUSED")  BY <1>2, <1>5
  <2> QED BY <1>1, <1>3, <2>1 DEF Codes
<1>6. CASE SessionError(leaf) = Ok /\ reason # "overflow"
  <2>1. PICK st \in status : r \in started(st)
    <3> HIDE DEF status, started
    <3> QED BY <1>2, <1>6
  <2>2. st.s \in Stores /\ Preserves(store, st.s)
    <3>1. CASE sticky # NoCode
      <4>1. st = Result(t, sticky)  BY <2>1, <3>1
      <4> QED BY <1>1, <4>1 DEF Result
    <3>2. CASE sticky = NoCode
      <4>1. st \in evaluate(t, TRUE, FALSE, Same(leaf), SessionReads)  BY <2>1, <3>2
      <4>2. SessionReads \in SUBSET {Ok, "IO"}  BY SessionReadsType
      <4>3. PICK yes \in BOOLEAN, no \in BOOLEAN, same \in BOOLEAN, reads \in SUBSET {Ok, "IO"} :
              st \in evaluate(t, yes, no, same, reads)
        BY <4>1, <4>2 DEF Same
      <4>4. Good(t, st)  BY <1>1, <4>3, Evaluate
      <4> QED BY <1>1, <4>4, PreservesTransitive DEF Good
    <3> QED BY <3>1, <3>2
  <2> HIDE DEF status
  <2>3. CASE ~allowed(st)
    <3>1. r = Result(st.s, "REFUSED")  BY <2>1, <2>3
    <3> QED BY <1>3, <2>2, <3>1 DEF Codes
  <2>4. CASE allowed(st)
    <3>1. r \in begin(st.s, reason = "manual", attempts + 1, leaf, Same(leaf),
                       IF st.err = Ok THEN {Ok} ELSE SessionReads)
      BY <2>1, <2>4
    <3>2. (IF st.err = Ok THEN {Ok} ELSE SessionReads) \in SUBSET {Ok, "IO"}
      BY SessionReadsType
    <3>a. PICK reads \in SUBSET {Ok, "IO"} :
            r \in begin(st.s, reason = "manual", attempts + 1, leaf, Same(leaf), reads)
      BY <3>1, <3>2
    <3>b. PICK manual \in BOOLEAN, same \in BOOLEAN :
            r \in begin(st.s, manual, attempts + 1, leaf, same, reads)
      BY <3>a DEF Same
    <3>3. PICK a \in Nat : a = attempts + 1 /\ r \in begin(st.s, manual, a, leaf, same, reads)
      BY <3>b DEF TypeRest
    <3>4. hashEntries(leaf) \in Hash  BY HashType DEF FileInv
    <3>5. /\ r.s \in Stores /\ r.err \in Codes \cup {Ok}
          /\ Shows(r.s, a) \/ Preserves(st.s, r.s)
          /\ Durable(st.s) => Durable(r.s)
          /\ r.err = Ok => Carries(r.s, a, FALSE)
      BY <2>2, <3>3, <3>4, Begin
    <3>6. Durable(store) => Durable(r.s)  BY <2>2, <3>5 DEF Preserves, Keeps
    <3>7. Shows(r.s, a) \/ Preserves(store, r.s)  BY <2>2, <3>5, PreservesTransitive
    <3> QED BY <3>3, <3>5, <3>6, <3>7 DEF BegunStore
  <2> QED BY <2>3, <2>4
<1> QED BY <1>4, <1>5, <1>6

\* BeginCompaction keeps the invariant and every claim.
LEMMA BeginCompactionStep ==
  ASSUME Inv, NEW reason, BeginCompaction(reason)
  PROVE  Inv' /\ ClaimKept
<1>0. FileInv /\ TypeRest /\ ControlInv  BY InvParts
<1>1. /\ UNCHANGED <<stored, edited, edits, known, leaf, up, saved, inflight, verified, served>>
      /\ attempts' = attempts + 1 /\ active' = TRUE /\ staged' = FALSE
      /\ superseded' = superseded \cup Replaced
  BY DEF BeginCompaction, fileVars
<1> DEFINE A(r) == IF r.err = Ok
         THEN /\ store' = r.s /\ observed' = NoCode /\ phase' = "writing"
              /\ attempt' = attempts + 1 /\ source' = hashEntries(leaf) /\ aborted' = FALSE
              /\ UNCHANGED sticky
         ELSE /\ \E c \in Fail(r.s, r.err) : Becomes(c)
              /\ phase' = "failing" /\ aborted' = TRUE
              /\ EndOfCompact
<1>a. PICK queued \in BOOLEAN : \E r \in Begun(reason, queued) : A(r)
  BY DEF BeginCompaction
<1>2. PICK r \in Begun(reason, queued) : A(r)
  BY <1>a
<1>3. /\ BegunStore(store, r.s, attempts + 1) /\ r.err \in Codes \cup {Ok}
      /\ r.err = Ok => Carries(r.s, attempts + 1, FALSE)
  BY <1>0, BegunResults
<1>4. attempts \in Nat /\ attempts' \in Nat /\ attempts <= attempts' /\ attempts' # 0
  BY <1>0, <1>1 DEF TypeRest
<1>5. /\ BegunStore(store, store', attempts')
      /\ sticky' \in Codes \cup {NoCode} /\ observed' \in Codes \cup {NoCode}
      /\ source' \in Hash /\ aborted' \in BOOLEAN
      /\ \/ phase' = "failing" /\ attempt' = 0
         \/ phase' = "writing" /\ attempt' = attempts' /\ Carries(store', attempts', FALSE)
  <2>1. CASE r.err = Ok
    <3>1. hashEntries(leaf) \in Hash  BY <1>0, HashType DEF FileInv
    <3> QED BY <1>0, <1>1, <1>2, <1>3, <2>1, <3>1 DEF TypeRest
  <2>2. CASE r.err # Ok
    <3>1. PICK c \in Fail(r.s, r.err) : Becomes(c)  BY <1>2, <2>2
    <3>2. r.s \in Stores /\ r.err \in Codes  BY <1>3, <2>2 DEF BegunStore
    <3>3. GoodControl(r.s, c)  BY <3>1, <3>2, ControllerFail
    <3>4. /\ c.s \in Stores /\ Preserves(r.s, c.s) /\ store' = c.s
          /\ sticky' \in Codes \cup {NoCode} /\ observed' \in Codes \cup {NoCode}
      BY <3>1, <3>3 DEF GoodControl, Becomes
    <3>5. Shows(store', attempts') \/ Preserves(store, store')
      <4>1. CASE Shows(r.s, attempts + 1)  BY <1>1, <3>4, <4>1 DEF Shows, Preserves
      <4>2. CASE Preserves(store, r.s)  BY <3>4, <4>2, PreservesTransitive
      <4> QED BY <1>3, <4>1, <4>2 DEF BegunStore
    <3>6. Durable(store) => Durable(store')  BY <1>3, <3>4 DEF BegunStore, Preserves, Keeps
    <3>7. <<>> \in Hash  BY EmptySeq DEF Hash
    <3> QED BY <1>2, <2>2, <3>4, <3>5, <3>6, <3>7 DEF BegunStore, EndOfCompact
  <2> QED BY <2>1, <2>2
<1> HIDE DEF A
<1>6. /\ store \in Stores /\ store' \in Stores /\ Replaced \subseteq Nat
      /\ Settled \subseteq Settled' /\ (Durable(store) => Durable(store'))
  <2>1. \A m \in Markers : m.att \in Nat  BY DEF Markers, NoMarker
  <2> QED BY <1>0, <1>1, <1>5, <2>1 DEF TypeRest, BegunStore, Settled, Replaced, Stores
<1>7. UnconfirmedStaysOnRecord'
  <2> SUFFICES ASSUME NEW b \in stored, NEW i \in DOMAIN b, b[i].kind = "memory", b[i].att \notin Settled'
               PROVE  OnRecord(b[i].att)'
    BY <1>1 DEF UnconfirmedStaysOnRecord
  <2>1. PICK a \in Nat : a = b[i].att /\ a # 0 /\ a <= attempts /\ OnRecord(a)
    <3>1. b[i] \in Tokens  BY <1>0, TokenField DEF FileInv
    <3> QED BY <1>0, <1>6, <3>1 DEF FileInv, FreshAttempts, UnconfirmedStaysOnRecord, Tokens
  <2>2. ~Shows(store', attempts')
    <3> SUFFICES ASSUME Shows(store', attempts') PROVE FALSE  OBVIOUS
    <3>1. store'.marker.att # a  BY <1>1, <1>4, <2>1 DEF Shows
    <3>2. a \in Replaced  BY <2>1, <3>1 DEF Replaced, OnRecord
    <3> QED BY <1>1, <2>1, <3>2 DEF Settled
  <2>3. Keeps(store, store')  BY <1>5, <2>2 DEF BegunStore, Preserves
  <2>4. OnRecord(a)'  BY <1>6, <2>1, <2>3, OnRecordKept
  <2> QED BY <2>1, <2>4 DEF OnRecord
<1>8. FileInv'
  <2>1. FreshAttempts'
    <3>1. \A b \in stored : \A i \in DOMAIN b : b[i].att \in Nat
      BY <1>0, TokenField DEF FileInv, Tokens
    <3> QED BY <1>0, <1>1, <1>4, <3>1 DEF FileInv, FreshAttempts
  <2>2. UnseenIsClaimed'  BY <1>0, <1>1, <1>6 DEF FileInv, UnseenIsClaimed, Durable
  <2>3. stored' = stored /\ known' = known /\ leaf' = leaf  BY <1>1
  <2>4. MemoryIsStored'  BY <1>0, <2>3 DEF FileInv, MemoryIsStored
  <2> QED BY <1>0, <1>7, <2>1, <2>2, <2>3, <2>4 DEF FileInv
<1>9. TypeRest'
  <2>a. attempt' \in {0, attempts'} /\ phase' \in {"failing", "writing"}  BY <1>5
  <2>1. attempt' \in Nat /\ phase' \in {"starting", "idle", "writing", "returned", "appended", "failing"}
    BY <1>4, <2>a
  <2>2. superseded' \subseteq Nat  BY <1>0, <1>1, <1>6 DEF TypeRest
  <2> QED BY <1>0, <1>1, <1>4, <1>5, <1>6, <2>1, <2>2 DEF TypeRest
<1>10. ControlInv'
  <2>1. NoRequestOnUnconfirmed'  BY <1>0, <1>1, <1>6 DEF ControlInv, NoRequestOnUnconfirmed
  <2> QED BY <1>4, <1>5, <2>1 DEF ControlInv, WriterRunsOnRecord, ReturnedIsStaged, Carries
<1>11. ClaimKept  BY <1>6 DEF ClaimKept, Durable
<1> QED BY <1>8, <1>9, <1>10, <1>11, InvPartsNext

\* UserAbort keeps the invariant and every claim.
LEMMA UserAbortStep == Inv /\ UserAbort => Inv' /\ ClaimKept
<1> SUFFICES ASSUME Inv, UserAbort PROVE Inv' /\ ClaimKept  OBVIOUS
<1>0. FileInv /\ TypeRest /\ ControlInv  BY InvParts
<1>1. /\ UNCHANGED <<store, stored, edited, edits, known, leaf, up, sticky, observed, active, staged>>
      /\ UNCHANGED <<phase, attempt, source, saved, inflight, attempts, verified, superseded, served>>
      /\ aborted' = TRUE
  BY DEF UserAbort, fileVars, processVars, history
<1>2. RecordStep  BY <1>0, <1>1, SameRecord DEF Settled
<1>3. FileInv'  BY <1>0, <1>1, <1>2, FileUnchanged DEF FileInv, MemoryIsStored
<1>4. TypeRest'  BY <1>0, <1>1 DEF TypeRest
<1>5. ControlInv'  BY <1>0, <1>1, <1>2, ControlKept
<1> QED BY <1>2, <1>3, <1>4, <1>5, InvPartsNext, RecordClaim

\* The stores and codes with which staging may end.
LEMMA StagedResults ==
  ASSUME TypeRest, NEW outcome \in Codes \cup {Ok}, NEW r \in Staged(outcome)
  PROVE  Good(store, r) /\ (r.err = Ok => Carries(r.s, attempt, TRUE))
<1>1. CASE outcome # Ok
  <2>1. r = Result(store, outcome)  BY <1>1 DEF Staged
  <2>2. r.s = store /\ r.err = outcome  BY <2>1 DEF Result
  <2> QED BY <1>1, <2>2, PreservesSame DEF Good, TypeRest
<1>2. CASE outcome = Ok /\ hashEntries(leaf) # source
  <2>1. r = Result(store, "SOURCE_CHANGED")  BY <1>2 DEF Staged
  <2>2. r.s = store /\ r.err = "SOURCE_CHANGED"  BY <2>1 DEF Result
  <2> QED BY <2>2, PreservesSame DEF Good, TypeRest, Codes, Ok
<1>3. CASE outcome = Ok /\ hashEntries(leaf) = source
  <2>1. r \in stage(store, attempt, source, leaf, Same(leaf))  BY <1>3 DEF Staged
  <2>2. PICK same \in BOOLEAN : r \in stage(store, attempt, source, leaf, same)
    BY <2>1 DEF Same
  <2> QED BY <2>2, Stage DEF TypeRest
<1> QED BY <1>1, <1>2, <1>3

\* WriterReturns keeps the invariant and every claim.
LEMMA WriterReturnsStep == Inv /\ WriterReturns => Inv' /\ ClaimKept
<1> SUFFICES ASSUME Inv, WriterReturns PROVE Inv' /\ ClaimKept  OBVIOUS
<1>0. FileInv /\ TypeRest /\ ControlInv  BY InvParts
<1>1. /\ UNCHANGED <<stored, edited, edits, known, leaf, up, active, saved, inflight>>
      /\ UNCHANGED <<attempts, verified, superseded, served>> /\ phase = "writing"
  BY DEF WriterReturns, fileVars, history
<1> DEFINE A(r) ==
       IF r.err = Ok
         THEN /\ store' = r.s /\ staged' = TRUE /\ phase' = "returned"
              /\ UNCHANGED <<sticky, observed, aborted, attempt, source>>
         ELSE /\ \E c \in Fail(r.s, r.err) : Becomes(c)
              /\ phase' = "failing" /\ aborted' = TRUE
              /\ EndOfCompact /\ UNCHANGED staged
<1>2. PICK outcome \in WriterOutcomes : \E r \in Staged(outcome) : A(r)
  BY DEF WriterReturns
<1>3. PICK r \in Staged(outcome) : A(r)  BY <1>2
<1>4. outcome \in Codes \cup {Ok}  BY DEF WriterOutcomes, Codes
<1>5. Good(store, r) /\ (r.err = Ok => Carries(r.s, attempt, TRUE))
  BY <1>0, <1>4, StagedResults
<1>6. /\ store' \in Stores /\ Keeps(store, store')
      /\ sticky' \in Codes \cup {NoCode} /\ observed' \in Codes \cup {NoCode}
      /\ source' \in Hash /\ aborted' \in BOOLEAN /\ staged' \in BOOLEAN
      /\ \/ phase' = "failing" /\ attempt' = 0
         \/ phase' = "returned" /\ attempt' = attempt /\ Carries(store', attempt, TRUE)
  <2>1. CASE r.err = Ok
    BY <1>0, <1>3, <1>5, <2>1 DEF Good, Preserves, TypeRest
  <2>2. CASE r.err # Ok
    <3>1. PICK c \in Fail(r.s, r.err) : Becomes(c)  BY <1>3, <2>2
    <3>2. GoodControl(r.s, c)  BY <1>5, <2>2, <3>1, ControllerFail DEF Good
    <3>3. Preserves(store, c.s)  BY <1>5, <3>2, PreservesTransitive DEF Good, GoodControl
    <3>4. <<>> \in Hash  BY EmptySeq DEF Hash
    <3> QED BY <1>0, <1>3, <2>2, <3>1, <3>2, <3>3, <3>4
            DEF GoodControl, Becomes, Preserves, EndOfCompact, TypeRest
  <2> QED BY <2>1, <2>2
<1> HIDE DEF A
<1>7. RecordStep  BY <1>0, <1>1, <1>6 DEF RecordStep, TypeRest, Settled
<1>8. FileInv'  BY <1>0, <1>1, <1>7, FileUnchanged DEF FileInv, MemoryIsStored
<1>9. TypeRest'
  <2>1. attempt' \in {0, attempt} /\ phase' \in {"failing", "returned"}  BY <1>6
  <2> QED BY <1>0, <1>1, <1>6, <2>1 DEF TypeRest
<1>10. ControlInv'
  <2>1. CASE phase' = "failing" /\ attempt' = 0
    BY <1>0, <1>1, <1>7, <2>1, ControlOver DEF RecordStep
  <2>2. CASE phase' = "returned" /\ attempt' = attempt /\ Carries(store', attempt, TRUE)
    <3>1. WriterRunsOnRecord' /\ ReturnedIsStaged'
      BY <2>2 DEF Carries, WriterRunsOnRecord, ReturnedIsStaged, OnRecord
    <3> QED BY <1>0, <1>1, <2>2, <3>1 DEF ControlInv, NoRequestOnUnconfirmed, Settled
  <2> QED BY <1>6, <2>1, <2>2
<1> QED BY <1>7, <1>8, <1>9, <1>10, InvPartsNext, RecordClaim

\* The checkpoint of a returned candidate is on record as staged.
LEMMA CheckpointEntryFacts ==
  ASSUME Inv, phase = "returned"
  PROVE  /\ CheckpointEntry \in Tokens /\ CheckpointEntry.att # 0 /\ CheckpointEntry.att <= attempts
         /\ CheckpointEntry.att = attempt /\ OnRecord(CheckpointEntry.att)
<1>0. FileInv /\ TypeRest /\ ControlInv  BY InvParts
<1>1. NextId \in Nat  BY <1>0, NextIdType
<1>2. CheckpointEntry.att = attempt  BY DEF CheckpointEntry, Entry
<1>3. CheckpointEntry \in Tokens  BY <1>0, <1>1 DEF CheckpointEntry, Entry, Tokens, TypeRest, Kinds
<1>4. OnRecord(attempt) /\ attempt # 0 /\ attempt <= attempts
  BY <1>0 DEF ControlInv, ReturnedIsStaged
<1> QED BY <1>2, <1>3, <1>4

\* HostAppends keeps the invariant and every claim.
LEMMA HostAppendsStep == Inv /\ HostAppends => Inv' /\ ClaimKept
<1> SUFFICES ASSUME Inv, HostAppends PROVE Inv' /\ ClaimKept  OBVIOUS
<1>0. FileInv /\ TypeRest /\ ControlInv  BY InvParts
<1>1. /\ UNCHANGED <<store, up, sticky, observed, active, staged, aborted, inflight>>
      /\ UNCHANGED <<attempts, verified, superseded, served>>
      /\ phase = "returned" /\ phase' = "appended" /\ saved' = leaf'
      /\ attempt' = 0 /\ source' = <<>>
  BY DEF HostAppends, processVars, history, EndOfCompact
<1>2. PICK token \in {CheckpointEntry} \cup {Message(NextId, "foreign")} : Append_(token)
  BY DEF HostAppends
<1>3. RecordStep  BY <1>0, <1>1, SameRecord DEF Settled
<1>4. FileInv'
  <2>1. CASE token = CheckpointEntry
    BY <1>0, <1>1, <1>2, <1>3, <2>1, CheckpointEntryFacts, FileAppended
  <2>2. CASE token = Message(NextId, "foreign")
    BY <1>0, <1>2, <1>3, <2>2, MessageAppended DEF Kinds
  <2> QED BY <1>2, <2>1, <2>2
<1>5. TypeRest'
  <2>1. saved' \in Seq(Tokens)  BY <1>1, <1>4 DEF FileInv
  <2>2. source' \in Hash  BY <1>1, EmptySeq DEF Hash
  <2>3. UNCHANGED <<edited, edits>>  BY <1>2 DEF Append_
  <2> QED BY <1>0, <1>1, <2>1, <2>2, <2>3 DEF TypeRest
<1>6. ControlInv'  BY <1>0, <1>1, <1>3, ControlOver DEF RecordStep
<1> QED BY <1>3, <1>4, <1>5, <1>6, InvPartsNext, RecordClaim

\* Bytes of the checkpoint left in the file, unknown to Pi, are claimed.
LEMMA HostAppendFailsStep == Inv /\ HostAppendFails => Inv' /\ ClaimKept
<1> SUFFICES ASSUME Inv, HostAppendFails PROVE Inv' /\ ClaimKept  OBVIOUS
<1>0. FileInv /\ TypeRest /\ ControlInv  BY InvParts
<1>1. /\ UNCHANGED <<store, edited, edits, known, leaf, up, sticky, observed, active, staged>>
      /\ UNCHANGED <<saved, aborted, inflight, attempts, verified, superseded, served>>
      /\ phase = "returned" /\ phase' = "failing" /\ attempt' = 0 /\ source' = <<>>
  BY DEF HostAppendFails, processVars, history, EndOfCompact
<1> DEFINE b0 == Append(leaf, CheckpointEntry)
<1>2. stored' = stored \/ stored' = stored \cup {b0}  BY DEF HostAppendFails
<1>3. /\ CheckpointEntry \in Tokens /\ CheckpointEntry.att # 0 /\ CheckpointEntry.att <= attempts
      /\ OnRecord(CheckpointEntry.att)
  BY <1>1, CheckpointEntryFacts
<1>4. b0 \in Seq(Tokens) /\ b0 # <<>> /\ leaf \in stored
  BY <1>0, <1>3, AppendProperties DEF FileInv, MemoryIsStored
<1>5. \A i \in DOMAIN b0 : (i \in DOMAIN leaf /\ b0[i] = leaf[i]) \/ b0[i] = CheckpointEntry
  BY <1>0, <1>3, AppendType DEF FileInv
<1> HIDE DEF b0
<1>6. \A b \in stored' : \A i \in DOMAIN b :
        b[i] = CheckpointEntry \/ \E c \in stored : \E j \in DOMAIN c : c[j] = b[i]
  BY <1>2, <1>4, <1>5
<1>7. MemoryIsStored'
  BY <1>0, <1>1, <1>2, <1>4, FS_AddElement DEF FileInv, MemoryIsStored
<1>8. FreshAttempts'
  BY <1>0, <1>1, <1>3, <1>6 DEF FileInv, FreshAttempts
<1>9. UnconfirmedStaysOnRecord'
  <2>1. \A a : OnRecord(a) <=> OnRecord(a)'  BY <1>1 DEF OnRecord
  <2>2. Settled' = Settled  BY <1>1 DEF Settled
  <2> SUFFICES ASSUME NEW b \in stored', NEW i \in DOMAIN b, b[i].kind = "memory", b[i].att \notin Settled
               PROVE  OnRecord(b[i].att)
    BY <2>2, <1>1 DEF UnconfirmedStaysOnRecord, OnRecord
  <2> QED BY <1>0, <1>3, <1>6 DEF FileInv, UnconfirmedStaysOnRecord
<1>10. UnseenIsClaimed'
  <2>1. store.marker # NoMarker /\ store.synced # NoMarker
    BY <1>3, NoMarkerFacts DEF OnRecord
  <2> QED BY <1>1, <2>1 DEF UnseenIsClaimed
<1>11. FileInv'
  <2>1. stored' \subseteq Seq(Tokens)  BY <1>0, <1>2, <1>4 DEF FileInv
  <2> QED BY <1>0, <1>1, <1>7, <1>8, <1>9, <1>10, <2>1 DEF FileInv
<1>12. TypeRest'
  <2>1. source' \in Hash  BY <1>1, EmptySeq DEF Hash
  <2> QED BY <1>0, <1>1, <2>1 DEF TypeRest
<1>13. ControlInv'  BY <1>0, <1>1, ControlOver DEF TypeRest, Settled
<1>c. ClaimKept  BY <1>1 DEF ClaimKept, Durable
<1> QED BY <1>c, <1>11, <1>12, <1>13, InvPartsNext

\* HostCancels keeps the invariant and every claim.
LEMMA HostCancelsStep == Inv /\ HostCancels => Inv' /\ ClaimKept
<1> SUFFICES ASSUME Inv, HostCancels PROVE Inv' /\ ClaimKept  OBVIOUS
<1>0. FileInv /\ TypeRest /\ ControlInv  BY InvParts
<1>1. /\ UNCHANGED <<store, stored, edited, edits, known, leaf, up, sticky, observed, active, staged>>
      /\ UNCHANGED <<saved, inflight, attempts, verified, superseded, served>>
      /\ phase' = "failing" /\ aborted' = TRUE /\ attempt' = 0 /\ source' = <<>>
  BY DEF HostCancels, fileVars, processVars, history, EndOfCompact
<1>2. RecordStep  BY <1>0, <1>1, SameRecord DEF Settled
<1>3. FileInv'  BY <1>0, <1>1, <1>2, FileUnchanged DEF FileInv, MemoryIsStored
<1>4. TypeRest'
  <2>1. source' \in Hash  BY <1>1, EmptySeq DEF Hash
  <2> QED BY <1>0, <1>1, <2>1 DEF TypeRest
<1>5. ControlInv'  BY <1>0, <1>1, <1>2, ControlOver DEF RecordStep
<1> QED BY <1>2, <1>3, <1>4, <1>5, InvPartsNext, RecordClaim

\* A confirmation keeps the record, or settles the one attempt on record.
LEMMA FileConfirmed ==
  ASSUME FileInv, TypeRest, store' \in Stores, NEW ver \in Nat, NEW explicitRecovery, NEW entry, NEW disk,
         verified' = verified \cup ({ver} \ {0}), superseded' = superseded, attempts' = attempts,
         stored' = stored, known' = known, leaf' = leaf,
         ver = 0 => Preserves(store, store'),
         ver # 0 => ReadBack(store, explicitRecovery, entry, leaf, disk, ver)
  PROVE  FileInv' /\ ClaimKept /\ Settled \subseteq Settled' /\ verified' \subseteq Nat
<1>1. Settled \subseteq Settled' /\ verified' \subseteq Nat  BY DEF Settled, TypeRest
<1>2. CASE ver = 0
  <2>1. RecordStep  BY <1>1, <1>2 DEF RecordStep, TypeRest, Preserves
  <2> QED BY <1>1, <2>1, FileUnchanged, RecordClaim DEF FileInv, MemoryIsStored
<1>3. CASE ver # 0
  <2>1. PICK m \in {store.marker, store.recovery} :
          /\ m.att = ver /\ (store.marker # NoMarker => m = store.marker)
          /\ Identified(m, explicitRecovery, entry, leaf)
    BY <1>3 DEF ReadBack
  <2>2. UnconfirmedStaysOnRecord'
    <3> SUFFICES ASSUME NEW b \in stored, NEW i \in DOMAIN b, b[i].kind = "memory",
                        b[i].att \notin Settled'
                 PROVE  FALSE
      BY DEF UnconfirmedStaysOnRecord
    <3>1. OnRecord(b[i].att)  BY <1>1 DEF FileInv, UnconfirmedStaysOnRecord
    <3>2. store.marker # NoMarker /\ store.marker.att = b[i].att
      BY <3>1, NoMarkerFacts DEF OnRecord
    <3>3. b[i].att = ver  BY <2>1, <3>2
    <3> QED BY <1>3, <3>3 DEF Settled
  <2>3. UnseenIsClaimed'
    <3>1. leaf \in known /\ leaf # <<>> /\ leaf \in Seq(Tokens)  BY DEF FileInv, MemoryIsStored
    <3>2. Len(leaf) \in DOMAIN leaf  BY <3>1, LenProperties, EmptySeq
    <3>3. leaf[Len(leaf)].kind = "memory"  BY <2>1 DEF Identified, IsCandidate, Checkpoint
    <3>4. Holds(leaf, "memory")  BY <3>2, <3>3 DEF Holds
    <3> QED BY <3>1, <3>4 DEF UnseenIsClaimed
  <2>4. MemoryIsStored'  BY DEF FileInv, MemoryIsStored
  <2>5. FreshAttempts'  BY DEF FileInv, FreshAttempts
  <2>6. ClaimKept  BY <1>3, <2>1 DEF ClaimKept, Durable, Identified
  <2> QED BY <1>1, <2>2, <2>3, <2>4, <2>5, <2>6 DEF FileInv
<1> QED BY <1>2, <1>3

\* Committed keeps the invariant and every claim.
LEMMA CommittedStep == Inv /\ Committed => Inv' /\ ClaimKept
<1> SUFFICES ASSUME Inv, Committed PROVE Inv' /\ ClaimKept  OBVIOUS
<1>0. FileInv /\ TypeRest /\ ControlInv  BY InvParts
<1>1. /\ UNCHANGED <<stored, edited, edits, known, leaf, up>>
      /\ UNCHANGED <<attempt, source, inflight, attempts, superseded, served>>
      /\ active' = FALSE /\ staged' = FALSE /\ phase' = "idle" /\ saved' = <<>> /\ aborted' = FALSE
  BY DEF Committed, fileVars, EndOfEvent
<1>2. CommitError \in Codes \cup {Ok}  BY SessionErrorType DEF CommitError, Codes
<1>3. \E ver \in Nat :
        /\ store' \in Stores
        /\ sticky' \in Codes \cup {NoCode} /\ observed' \in Codes \cup {NoCode}
        /\ verified' = verified \cup ({ver} \ {0})
        /\ ver = 0 => Preserves(store, store')
        /\ ver # 0 => ReadBack(store, FALSE, saved, leaf, OnDisk(saved), ver)
  <2>1. CASE CommitError # Ok
    <3>1. PICK c \in Fail(store, CommitError) : Becomes(c)  BY <2>1 DEF Committed
    <3>2. GoodControl(store, c)  BY <1>0, <1>2, <2>1, <3>1, ControllerFail DEF TypeRest
    <3>3. verified' = verified  BY <2>1 DEF Committed
    <3>4. verified' = verified \cup ({0} \ {0})  BY <3>3
    <3>5. /\ store' \in Stores /\ Preserves(store, store')
          /\ sticky' \in Codes \cup {NoCode} /\ observed' \in Codes \cup {NoCode}
      BY <3>1, <3>2 DEF GoodControl, Becomes
    <3> QED BY <3>4, <3>5
  <2>2. CASE CommitError = Ok
    <3>1. PICK r \in confirm(store, FALSE, saved, leaf, OnDisk(saved)) : Settle(r)
      BY <2>2 DEF Committed
    <3>a. PICK no \in BOOLEAN : no = FALSE /\ r \in confirm(store, no, saved, leaf, OnDisk(saved))
      BY <3>1
    <3>2. /\ r.s \in Stores /\ r.err \in Codes \cup {Ok} /\ r.ver \in Nat
          /\ r.ver = 0 => Preserves(store, r.s)
          /\ r.ver # 0 => ReadBack(store, no, saved, leaf, OnDisk(saved), r.ver)
      BY <1>0, <3>a, Confirm DEF TypeRest
    <3>3. verified' = verified \cup ({r.ver} \ {0})  BY <3>1 DEF Settle
    <3>4. /\ store' \in Stores /\ (r.ver = 0 => Preserves(store, store'))
          /\ sticky' \in Codes \cup {NoCode} /\ observed' \in Codes \cup {NoCode}
      <4>1. CASE r.err = Ok  BY <3>1, <3>2, <4>1 DEF Settle
      <4>2. CASE r.err # Ok
        <5>1. PICK c \in Fail(r.s, r.err) : Becomes(c)  BY <3>1, <4>2 DEF Settle
        <5>2. GoodControl(r.s, c)  BY <3>2, <4>2, <5>1, ControllerFail
        <5> QED BY <3>2, <5>1, <5>2, PreservesTransitive DEF GoodControl, Becomes
      <4> QED BY <4>1, <4>2
    <3> QED BY <3>a, <3>2, <3>3, <3>4
  <2> QED BY <2>1, <2>2
<1>4. FileInv' /\ ClaimKept /\ Settled \subseteq Settled' /\ verified' \subseteq Nat
  BY <1>0, <1>1, <1>3, FileConfirmed
<1>5. TypeRest'
  <2>1. saved' \in Seq(Tokens)  BY <1>1, EmptySeq
  <2> QED BY <1>0, <1>1, <1>3, <1>4, <2>1 DEF TypeRest
<1>6. ControlInv'  BY <1>0, <1>1, <1>4, ControlOver DEF TypeRest
<1> QED BY <1>4, <1>5, <1>6, InvPartsNext

\* CompactionFailed keeps the invariant and every claim.
LEMMA CompactionFailedStep == Inv /\ CompactionFailed => Inv' /\ ClaimKept
<1> SUFFICES ASSUME Inv, CompactionFailed PROVE Inv' /\ ClaimKept  OBVIOUS
<1>0. FileInv /\ TypeRest /\ ControlInv  BY InvParts
<1>1. /\ UNCHANGED <<stored, edited, edits, known, leaf, up>>
      /\ UNCHANGED <<attempt, source, inflight, attempts, verified, superseded, served>>
      /\ active' = FALSE /\ staged' = FALSE /\ phase' = "idle" /\ saved' = <<>> /\ aborted' = FALSE
  BY DEF CompactionFailed, fileVars, EndOfEvent, history
<1>2. FailureCode \in Codes  BY <1>0 DEF FailureCode, Codes, TypeRest
<1>3. PICK c \in Fail(store, FailureCode) : Becomes(c)  BY DEF CompactionFailed
<1>4. GoodControl(store, c)  BY <1>0, <1>2, <1>3, ControllerFail DEF TypeRest
<1>5. /\ store' \in Stores /\ Preserves(store, store')
      /\ sticky' \in Codes \cup {NoCode} /\ observed' \in Codes \cup {NoCode}
  BY <1>3, <1>4 DEF GoodControl, Becomes
<1>6. RecordStep  BY <1>0, <1>1, <1>5 DEF RecordStep, TypeRest, Settled, Preserves
<1>7. FileInv'  BY <1>0, <1>1, <1>6, FileUnchanged DEF FileInv, MemoryIsStored
<1>8. TypeRest'
  <2>1. saved' \in Seq(Tokens)  BY <1>1, EmptySeq
  <2> QED BY <1>0, <1>1, <1>5, <2>1 DEF TypeRest
<1>9. ControlInv'  BY <1>0, <1>1, <1>6, ControlOver DEF RecordStep
<1> QED BY <1>6, <1>7, <1>8, <1>9, InvPartsNext, RecordClaim

\* Recover keeps the invariant and every claim.
LEMMA RecoverStep == Inv /\ Recover => Inv' /\ ClaimKept
<1> SUFFICES ASSUME Inv, Recover PROVE Inv' /\ ClaimKept  OBVIOUS
<1>0. FileInv /\ TypeRest /\ ControlInv  BY InvParts
<1>1. /\ UNCHANGED <<stored, edited, edits, known, leaf, up, active, phase, attempt, source>>
      /\ UNCHANGED <<saved, aborted, inflight, attempts, superseded, served>>
      /\ phase \in {"idle", "failing"}
  BY DEF Recover, fileVars, hostVars
<1>2. \E ver \in Nat, yes \in BOOLEAN :
        /\ store' \in Stores /\ staged' \in BOOLEAN
        /\ sticky' \in Codes \cup {NoCode} /\ observed' \in Codes \cup {NoCode}
        /\ verified' = verified \cup ({ver} \ {0})
        /\ ver = 0 => Preserves(store, store')
        /\ ver # 0 => ReadBack(store, yes, leaf, leaf, OnDisk(leaf), ver)
  <2>1. CASE ~RecoverAllowed
    <3>1. store' = [store EXCEPT !.frontier = FALSE] /\ UNCHANGED <<sticky, observed, staged, verified>>
      BY <2>1 DEF Recover
    <3>2. store' \in Stores /\ Preserves(store, store')  BY <1>0, <3>1, FrontierUpdate DEF TypeRest
    <3>3. verified' = verified \cup ({0} \ {0})  BY <3>1
    <3> QED BY <1>0, <3>1, <3>2, <3>3 DEF TypeRest
  <2>2. CASE RecoverAllowed
    <3>1. PICK r \in confirm(store, TRUE, leaf, leaf, OnDisk(leaf)) :
             /\ verified' = verified \cup ({r.ver} \ {0})
             /\ store' = r.s
             /\ IF r.err = Ok THEN sticky' = NoCode /\ observed' = NoCode /\ staged' = FALSE
                ELSE UNCHANGED <<sticky, observed, staged>>
      BY <2>2 DEF Recover
    <3>2. PICK yes \in BOOLEAN : r \in confirm(store, yes, leaf, leaf, OnDisk(leaf))
      BY <3>1
    <3>3. /\ r.s \in Stores /\ r.ver \in Nat
          /\ r.ver = 0 => Preserves(store, r.s)
          /\ r.ver # 0 => ReadBack(store, yes, leaf, leaf, OnDisk(leaf), r.ver)
      BY <1>0, <3>2, Confirm DEF TypeRest
    <3>4. sticky' \in Codes \cup {NoCode} /\ observed' \in Codes \cup {NoCode} /\ staged' \in BOOLEAN
      BY <1>0, <3>1 DEF TypeRest
    <3> QED BY <3>1, <3>3, <3>4
  <2> QED BY <2>1, <2>2
<1>3. FileInv' /\ ClaimKept /\ Settled \subseteq Settled' /\ verified' \subseteq Nat
  BY <1>0, <1>1, <1>2, FileConfirmed
<1>4. TypeRest'  BY <1>0, <1>1, <1>2, <1>3 DEF TypeRest
<1>5. ControlInv'  BY <1>0, <1>1, <1>3, ControlOver DEF TypeRest
<1> QED BY <1>3, <1>4, <1>5, InvPartsNext

\* Crash keeps the invariant and every claim.
LEMMA CrashStep == Inv /\ Crash => Inv' /\ ClaimKept
<1> SUFFICES ASSUME Inv, Crash PROVE Inv' /\ ClaimKept  OBVIOUS
<1>0. FileInv /\ TypeRest /\ ControlInv  BY InvParts
<1>1. /\ UNCHANGED <<stored, edited, edits, known, leaf, attempts, verified, superseded, served>>
      /\ up' = FALSE /\ inflight' = FALSE /\ attempt' = 0 /\ source' = <<>>
      /\ phase' = "idle" /\ saved' = <<>> /\ aborted' = FALSE
      /\ sticky' = NoCode /\ observed' = NoCode /\ active' = FALSE /\ staged' = FALSE
  BY DEF Crash, fileVars, EndOfCompact, EndOfEvent, history
<1>2. PICK m \in {store.marker, store.synced} : store' = FreshStore(m)  BY DEF Crash
<1>3. store \in Stores /\ m \in Markers  BY <1>0 DEF TypeRest, Stores
<1>4. store'.marker = m /\ store'.synced = m  BY <1>2 DEF FreshStore
<1>5. store' \in Stores  BY <1>2, <1>3, NoMarkerFacts DEF FreshStore, Stores
<1>6. Keeps(store, store')
  <2>1. ASSUME NEW a \in Nat, NEW st \in BOOLEAN, Carries(store, a, st)
        PROVE  Carries(store', a, st)
    <3>1. CASE m = store.marker  BY <1>4, <2>1, <3>1 DEF Carries
    <3>2. CASE m = store.synced  BY <1>4, <2>1, <3>2 DEF Carries
    <3> QED BY <1>2, <3>1, <3>2
  <2>2. Durable(store) => Durable(store')  BY <1>2, <1>4 DEF Durable
  <2> QED BY <2>1, <2>2 DEF Keeps
<1>7. RecordStep  BY <1>0, <1>1, <1>5, <1>6 DEF RecordStep, TypeRest, Settled
<1>8. FileInv'  BY <1>0, <1>1, <1>7, FileUnchanged DEF FileInv, MemoryIsStored
<1>9. TypeRest'
  <2>1. saved' \in Seq(Tokens) /\ source' \in Hash  BY <1>1, EmptySeq DEF Hash
  <2> QED BY <1>0, <1>1, <1>5, <2>1 DEF TypeRest
<1>10. ControlInv'  BY <1>0, <1>1, <1>7, ControlOver DEF RecordStep
<1> QED BY <1>7, <1>8, <1>9, <1>10, InvPartsNext, RecordClaim

\* What Pi loads is what the file holds: the same kinds and attempts.
LEMMA OpenStep == Inv /\ Open => Inv' /\ ClaimKept
<1> SUFFICES ASSUME Inv, Open PROVE Inv' /\ ClaimKept  OBVIOUS
<1>0. FileInv /\ TypeRest /\ ControlInv  BY InvParts
<1>1. /\ UNCHANGED <<store, edits, sticky, observed, active, staged, attempt, source, saved, aborted>>
      /\ UNCHANGED <<inflight, attempts, verified, superseded, served>>
      /\ up' = TRUE /\ phase' = "starting" /\ edited' = {}
      /\ stored' = {OnDisk(b) : b \in stored} /\ known' = stored'
  BY DEF Open, processVars, history
<1>2. PICK b0 \in stored : leaf' = OnDisk(b0)  BY DEF Open
<1>3. ASSUME NEW b \in stored
      PROVE  /\ OnDisk(b) \in Seq(Tokens) /\ DOMAIN OnDisk(b) = DOMAIN b /\ OnDisk(b) # <<>>
             /\ \A i \in DOMAIN b : OnDisk(b)[i].kind = b[i].kind /\ OnDisk(b)[i].att = b[i].att
  <2>1. b \in Seq(Tokens) /\ b # <<>>  BY <1>0 DEF FileInv, MemoryIsStored
  <2>2. /\ OnDisk(b) \in Seq(Tokens) /\ DOMAIN OnDisk(b) = DOMAIN b
        /\ \A i \in DOMAIN b : OnDisk(b)[i].kind = b[i].kind /\ OnDisk(b)[i].att = b[i].att
    BY <2>1, OnDiskType
  <2>3. 1 \in DOMAIN b /\ 1 \notin DOMAIN <<>>  BY <2>1, LenProperties, EmptySeq
  <2> QED BY <2>2, <2>3
<1>4. IsFiniteSet(stored')
  <2> DEFINE f == [b \in stored |-> OnDisk(b)]
  <2>1. f \in Surjection(stored, stored')  BY <1>1 DEF Surjection
  <2>2. IsFiniteSet(stored)  BY <1>0 DEF FileInv, MemoryIsStored
  <2> HIDE DEF f
  <2> QED BY <2>1, <2>2, FS_Surjection
<1>5. MemoryIsStored'  BY <1>1, <1>2, <1>3, <1>4 DEF MemoryIsStored
<1>6. FreshAttempts'  BY <1>0, <1>1, <1>3 DEF FileInv, FreshAttempts
<1>7. UnconfirmedStaysOnRecord'
  <2> SUFFICES ASSUME NEW b \in stored, NEW i \in DOMAIN b, OnDisk(b)[i].kind = "memory",
                      OnDisk(b)[i].att \notin Settled
               PROVE  OnRecord(OnDisk(b)[i].att)
    BY <1>1, <1>3 DEF UnconfirmedStaysOnRecord, OnRecord, Settled
  <2> QED BY <1>0, <1>3 DEF FileInv, UnconfirmedStaysOnRecord
<1>8. UnseenIsClaimed'  BY <1>1 DEF UnseenIsClaimed
<1>9. FileInv'
  <2>1. stored' \subseteq Seq(Tokens) /\ leaf' \in Seq(Tokens)  BY <1>1, <1>2, <1>3
  <2> QED BY <1>1, <1>5, <1>6, <1>7, <1>8, <2>1 DEF FileInv
<1>10. TypeRest'  BY <1>0, <1>1 DEF TypeRest
<1>11. ControlInv'  BY <1>0, <1>1, ControlOver DEF TypeRest, Settled
<1>c. ClaimKept  BY <1>1 DEF ClaimKept, Durable
<1> QED BY <1>c, <1>9, <1>10, <1>11, InvPartsNext

\* SessionStart keeps the invariant and every claim.
LEMMA SessionStartStep == Inv /\ SessionStart => Inv' /\ ClaimKept
<1> SUFFICES ASSUME Inv, SessionStart PROVE Inv' /\ ClaimKept  OBVIOUS
<1>0. FileInv /\ TypeRest /\ ControlInv  BY InvParts
<1>1. /\ UNCHANGED <<stored, edited, edits, known, leaf, up, active, staged, attempt, source, saved>>
      /\ UNCHANGED <<aborted, inflight, attempts, verified, superseded, served>>
      /\ phase' = "idle"
  BY DEF SessionStart, fileVars, history
<1>2. /\ store' \in Stores /\ Keeps(store, store')
      /\ sticky' \in Codes \cup {NoCode} /\ observed' \in Codes \cup {NoCode}
  <2>1. CASE UNCHANGED <<store, sticky, observed>>
    BY <1>0, <2>1, PreservesSame DEF TypeRest, Preserves
  <2>2. CASE \E c \in guard(leaf, active, {Ok}) : Becomes(c)
    <3>1. PICK c \in guard(leaf, active, {Ok}) : Becomes(c)  BY <2>2
    <3>2. {Ok} \in SUBSET (Codes \cup {Ok})  OBVIOUS
    <3>3. GoodControl(store, c)  BY <1>0, <3>1, <3>2, Guard DEF TypeRest
    <3> QED BY <3>1, <3>3 DEF Becomes, GoodControl, Preserves
  <2> QED BY <2>1, <2>2 DEF SessionStart
<1>3. RecordStep  BY <1>0, <1>1, <1>2 DEF RecordStep, TypeRest, Settled
<1>4. FileInv'  BY <1>0, <1>1, <1>3, FileUnchanged DEF FileInv, MemoryIsStored
<1>5. TypeRest'  BY <1>0, <1>1, <1>2 DEF TypeRest
<1>6. ControlInv'  BY <1>0, <1>1, <1>3, ControlOver DEF RecordStep
<1> QED BY <1>3, <1>4, <1>5, <1>6, InvPartsNext, RecordClaim

\* Edit keeps the invariant and every claim.
LEMMA EditStep == Inv /\ Edit => Inv' /\ ClaimKept
<1> SUFFICES ASSUME Inv, Edit PROVE Inv' /\ ClaimKept  OBVIOUS
<1>0. FileInv /\ TypeRest /\ ControlInv  BY InvParts
<1>1. /\ UNCHANGED <<stored, known, leaf, up, sticky, observed, active, staged, inflight>>
      /\ UNCHANGED <<phase, attempt, source, saved, aborted, attempts, verified, superseded, served>>
      /\ edits' = edits + 1
  BY DEF Edit, HostUnchanged, processVars, hostVars, history
<1>2. PICK sameLength \in BOOLEAN : store' = [store EXCEPT !.frontier = store.frontier /\ sameLength]
  BY DEF Edit
<1>3. PICK f \in BOOLEAN : store' = [store EXCEPT !.frontier = f]  BY <1>2
<1>4. RecordStep  BY <1>0, <1>1, <1>3, FrontierRecord
<1>5. FileInv'  BY <1>0, <1>1, <1>4, FileUnchanged DEF FileInv, MemoryIsStored
<1>6. edited' \subseteq Nat
  <2>1. PICK b \in stored : \E i \in DOMAIN b : edited' = edited \cup {b[i].id}  BY DEF Edit
  <2>2. PICK i \in DOMAIN b : edited' = edited \cup {b[i].id}  BY <2>1
  <2>3. b[i] \in Tokens  BY <1>0, TokenField DEF FileInv
  <2> QED BY <1>0, <2>2, <2>3 DEF TypeRest, Tokens
<1>7. TypeRest'
  <2>1. store' \in Stores /\ edits' \in Nat  BY <1>0, <1>1, <1>4 DEF RecordStep, TypeRest
  <2> QED BY <1>0, <1>1, <1>6, <2>1 DEF TypeRest
<1>8. ControlInv'  BY <1>0, <1>1, <1>4, ControlKept
<1> QED BY <1>4, <1>5, <1>7, <1>8, InvPartsNext, RecordClaim

\* Stuttering keeps the invariant.
LEMMA StutterStep == Inv /\ UNCHANGED vars => Inv' /\ ClaimKept
<1> SUFFICES ASSUME Inv, UNCHANGED vars PROVE Inv' /\ ClaimKept  OBVIOUS
<1>0. FileInv /\ TypeRest /\ ControlInv  BY InvParts
<1>1. /\ UNCHANGED <<store, stored, edited, edits, known, leaf, up, sticky, observed, active, staged>>
      /\ UNCHANGED <<phase, attempt, source, saved, aborted, inflight, attempts, verified, superseded, served>>
  BY DEF vars, fileVars, processVars, hostVars, history
<1>2. RecordStep  BY <1>0, <1>1, SameRecord DEF Settled
<1>3. FileInv'  BY <1>0, <1>1, <1>2, FileUnchanged DEF FileInv, MemoryIsStored
<1>4. TypeRest'  BY <1>0, <1>1 DEF TypeRest
<1>5. ControlInv'  BY <1>0, <1>1, <1>2, ControlKept
<1> QED BY <1>2, <1>3, <1>4, <1>5, InvPartsNext, RecordClaim

-----------------------------------------------------------------------------
(* The theorems *)

\* The invariant holds initially.
LEMMA InitInv == Init => Inv
<1> SUFFICES ASSUME Init PROVE Inv  OBVIOUS
<1>1. Message(1, "done") \in Tokens /\ Message(1, "done").att = 0 /\ Message(1, "done").kind = "done"
  BY MessageType DEF Kinds
<1>2. /\ FirstTurn \in Seq(Tokens) /\ FirstTurn # <<>> /\ DOMAIN FirstTurn = {1}
      /\ FirstTurn[1] = Message(1, "done")
  BY <1>1 DEF FirstTurn
<1>3. <<>> \in Hash /\ <<>> \in Seq(Tokens)  BY EmptySeq DEF Hash
<1>4. store \in Stores  BY NoMarkerFacts DEF Init, FreshStore, Stores
<1>5. MemoryIsStored  BY <1>2, FS_Singleton DEF Init, MemoryIsStored
<1>6. FreshAttempts  BY <1>1, <1>2 DEF Init, FreshAttempts
<1>7. UnconfirmedStaysOnRecord  BY <1>1, <1>2 DEF Init, UnconfirmedStaysOnRecord
<1>8. UnseenIsClaimed  BY DEF Init, UnseenIsClaimed
<1>9. FileInv  BY <1>2, <1>5, <1>6, <1>7, <1>8 DEF Init, FileInv
<1>10. TypeRest  BY <1>3, <1>4 DEF Init, TypeRest
<1>11. ControlInv
  BY DEF Init, ControlInv, WriterRunsOnRecord, ReturnedIsStaged, NoRequestOnUnconfirmed
<1> QED BY <1>9, <1>10, <1>11, InvParts

\* Every step keeps the invariant and every claim.
LEMMA NextInv == Inv /\ [Next]_vars => Inv' /\ ClaimKept
<1> SUFFICES ASSUME Inv, [Next]_vars PROVE Inv' /\ ClaimKept  OBVIOUS
<1>1. ASSUME NEW reason, BeginCompaction(reason) PROVE Inv' /\ ClaimKept  BY <1>1, BeginCompactionStep
<1> QED BY <1>1, PromptStep, AppendCustomStep, RequestStep, RespondStep, NavigateStep,
           NativeCompactionStep, UserAbortStep, WriterReturnsStep, HostAppendsStep,
           HostAppendFailsStep, HostCancelsStep, CommittedStep, CompactionFailedStep, RecoverStep,
           CrashStep, OpenStep, SessionStartStep, EditStep, StutterStep DEF Next

(***************************************************************************)
(* The inductive invariant holds of every behaviour: begin, stage, append, *)
(* commit, failures, crashes and restarts in any order, for every fault    *)
(* set, environment and bound.                                             *)
(***************************************************************************)
THEOREM Invariance == Spec => []Inv
  BY InitInv, NextInv, PTL DEF Spec

\* Every variable of the commit protocol keeps its type.
THEOREM TypeCorrect == Spec => []TypeOK
<1>1. Inv => TypeOK  BY DEF Inv
<1> QED BY <1>1, Invariance, PTL

\* A checkpoint that reached the session file and was never confirmed stays
\* on record in the marker file (failure-store.ts recordFailure, reject).
THEOREM RecordSafety == Spec => []UnconfirmedStaysOnRecord
<1>1. Inv => UnconfirmedStaysOnRecord  BY DEF Inv
<1> QED BY <1>1, Invariance, PTL

\* No provider request is built on a checkpoint that was not confirmed
\* (controller.ts assertReady, context, beforeRequest).
THEOREM RequestSafety == Spec => []NoRequestOnUnconfirmed
<1>1. Inv => NoRequestOnUnconfirmed  BY DEF Inv
<1> QED BY <1>1, Invariance, PTL

\* While the writer runs its attempt is on record, durably (failure-store.ts
\* begin).
THEOREM WriterSafety == Spec => []WriterRunsOnRecord
<1>1. Inv => WriterRunsOnRecord  BY DEF Inv
<1> QED BY <1>1, Invariance, PTL

\* A durable claim goes away only in the step that read its checkpoint back
\* (failure-store.ts confirm).
THEOREM ClaimSafety == Spec => ClaimsOutliveFailures
<1>1. Inv /\ [Next]_vars =>
        [store.marker # NoMarker /\ store.synced # NoMarker =>
           \/ store'.marker # NoMarker
           \/ store.marker.staged /\ store.marker.att \in verified']_vars
  BY NextInv DEF ClaimKept, Durable
<1> QED BY <1>1, Invariance, PTL DEF Spec, ClaimsOutliveFailures

\* Pi never compacts natively a session whose files hold a claim or a
\* checkpoint of this package (controller.ts protected, inactive).
THEOREM NativeSafety == Spec => NoNativeCompactionOverClaim
<1>1. Inv /\ [Next]_vars => [NativeCompaction => ~ClaimOnDisk]_vars
  <2> SUFFICES ASSUME Inv, NativeCompaction PROVE ~ClaimOnDisk  OBVIOUS
  <2>1. ~protected(store, sticky, active)  BY DEF NativeCompaction, inactive
  <2> QED BY <2>1 DEF protected, markerPresent, ClaimOnDisk, Inv, UnseenIsClaimed
<1> QED BY <1>1, Invariance, PTL DEF Spec, NoNativeCompactionOverClaim


-----------------------------------------------------------------------------
(***************************************************************************)
(* First causes and sources.  A failure that is durable and not settled is *)
(* also the visible one, or it has been replaced by a younger attempt that *)
(* has staged nothing; and everything that names an attempt, in the marker *)
(* file, in the process or in the session file, names the same source.     *)
(***************************************************************************)
Origin(m) == <<m.att, m.src>>

\* The origin of a marker that carries no attempt.
Nobody == <<0, <<>>>>

Origins(s) == {Origin(s.marker), Origin(s.synced), Origin(s.recovery)}

Causes(s, settled) ==
  s.synced.state = "blocked" /\ s.synced.att \notin settled =>
    \/ s.marker # NoMarker /\ s.marker.att # s.synced.att /\ ~s.marker.staged
    \/ s.marker.state = "blocked" /\ s.marker.att = s.synced.att /\ s.marker.code = s.synced.code

Steady(s, settled, P) == Causes(s, settled) /\ Origins(s) \subseteq P

\* A recorded failure is not written over.
Firm(s, t) == s.marker.state = "blocked" => t.marker = s.marker

\* The origin of an absent marker, and of a blocked one.
LEMMA OriginFacts ==
  /\ Origin(NoMarker) = Nobody
  /\ \A m \in Markers, code \in Codes : Origin(Blocked(m, code)) = Origin(m)
<1>1. Origin(NoMarker) = Nobody  BY DEF Origin, NoMarker, Nobody
<1> QED BY <1>1, BlockedType DEF Origin

\* A method that touches no file keeps first causes.
LEMMA SteadySame ==
  ASSUME NEW s, NEW t, NEW settled, NEW P, Steady(s, settled, P),
         s.marker = t.marker, s.synced = t.synced, Origin(t.recovery) \in P
  PROVE  Steady(t, settled, P) /\ Firm(s, t)
  BY DEF Steady, Causes, Origins, Firm

\* What is settled may grow.
LEMMA SteadyGrows ==
  ASSUME NEW s, NEW settled, NEW more, NEW P, Steady(s, settled, P), settled \subseteq more
  PROVE  Steady(s, more, P)
  BY DEF Steady, Causes

\* A marker written for the same attempt keeps first causes.
LEMMA WriteSteady ==
  ASSUME NEW s \in Stores, NEW m \in Markers, NEW r \in writeMarker(s, m),
         NEW settled, NEW P, Steady(s, settled, P), Origin(m) \in P,
         s.marker.state # "blocked",
         s.marker # NoMarker =>
           /\ m # NoMarker /\ m.att = s.marker.att
           /\ m.staged => s.marker.staged \/ s.synced.att = s.marker.att
  PROVE  Steady(r.s, settled, P) /\ Firm(s, r.s)
<1>1. /\ r.s.recovery = s.recovery
      /\ \/ r.s.marker = m /\ r.s.synced = m
         \/ r.s = s
         \/ r.s.marker = m /\ r.s.synced = s.synced
  BY WriteMarker
<1>2. Origins(r.s) \subseteq P  BY <1>1 DEF Steady, Origins
<1>3. Causes(r.s, settled)
  <2>1. CASE r.s.marker = m /\ r.s.synced = m  BY <2>1 DEF Causes
  <2>2. CASE r.s = s  BY <2>2 DEF Steady
  <2>3. CASE r.s.marker = m /\ r.s.synced = s.synced
    <3> SUFFICES ASSUME s.synced.state = "blocked", s.synced.att \notin settled
                 PROVE  m # NoMarker /\ m.att # s.synced.att /\ ~m.staged
      BY <2>3 DEF Causes
    <3> QED BY DEF Steady, Causes
  <2> QED BY <1>1, <2>1, <2>2, <2>3
<1> QED BY <1>2, <1>3 DEF Steady, Firm

\* recordFailure keeps the first cause; when it had nothing visible to keep
\* and succeeds, the failure names the attempt it was given, durably.
LEMMA RecordFailureSteady ==
  ASSUME NEW s \in Stores, NEW code \in Codes, NEW m \in Markers, NEW r \in recordFailure(s, code, m),
         NEW settled, NEW P, Steady(s, settled, P), Origin(m) \in P
  PROVE  /\ Steady(r.s, settled, P) /\ Firm(s, r.s) /\ r.s.recovery = s.recovery
         /\ s.marker = NoMarker /\ m # NoMarker /\ r.err = Ok => r.s.synced.att = m.att
<1>1. \/ r = Result(s, "IO")
      \/ r = Result(s, Ok) /\ s.marker.state = "blocked"
      \/ r \in writeMarker(s, Blocked(Previous(s, m), code)) /\ s.marker.state # "blocked"
  BY MarkerReadsType DEF recordFailure
<1>2. CASE r = Result(s, "IO")  BY <1>2 DEF Result, Firm, Ok
<1>3. CASE r = Result(s, Ok) /\ s.marker.state = "blocked"
  BY <1>3, NoMarkerFacts DEF Result, Firm
<1>4. CASE r \in writeMarker(s, Blocked(Previous(s, m), code)) /\ s.marker.state # "blocked"
  <2> DEFINE p == Previous(s, m)
             n == Blocked(p, code)
  <2>1. /\ p \in Markers /\ (s.marker # NoMarker => p = s.marker)
        /\ s.marker = NoMarker /\ m # NoMarker => p = m
        /\ Origin(p) \in P
    BY DEF Previous, Stores, Steady, Origins
  <2>2. /\ n \in Markers /\ n # NoMarker /\ n.att = p.att /\ n.staged = p.staged
        /\ Origin(n) = Origin(p)
    BY <2>1, BlockedType, OriginFacts
  <2> HIDE DEF n, p
  <2>3. r \in writeMarker(s, n)  BY <1>4 DEF n, p
  <2>4. /\ r.s.recovery = s.recovery
        /\ r.err = Ok => r.s.synced = n
    BY <2>2, <2>3, WriteMarker DEF Ok
  <2>5. Steady(r.s, settled, P) /\ Firm(s, r.s)
    BY <1>4, <2>1, <2>2, <2>3, WriteSteady
  <2> QED BY <2>1, <2>2, <2>4, <2>5
<1> QED BY <1>1, <1>2, <1>3, <1>4

\* reject keeps the first cause.
LEMMA RejectSteady ==
  ASSUME NEW s \in Stores, NEW code \in Codes, NEW m \in Markers, NEW r \in reject(s, code, m),
         NEW settled, NEW P, Steady(s, settled, P), Origin(m) \in P
  PROVE  Steady(r.s, settled, P) /\ Firm(s, r.s)
<1> DEFINE kept == IF m.staged THEN Blocked(m, code) ELSE s.recovery
           t == [s EXCEPT !.latched = code, !.recovery = kept]
<1>1. kept \in Markers /\ Origin(kept) \in P
  BY BlockedType, OriginFacts DEF Stores, Steady, Origins
<1> HIDE DEF kept
<1>2. t \in Stores /\ t.marker = s.marker /\ t.synced = s.synced /\ t.recovery = kept
  BY <1>1 DEF Stores
<1> HIDE DEF t
<1>3. PICK q \in recordFailure(t, code, m) : r = Result(q.s, code)
  BY DEF reject, kept, t
<1>4. Steady(t, settled, P)  BY <1>1, <1>2, SteadySame
<1>5. Steady(q.s, settled, P) /\ Firm(t, q.s)  BY <1>2, <1>4, RecordFailureSteady
<1>6. r.s = q.s  BY <1>3 DEF Result
<1> QED BY <1>2, <1>5, <1>6 DEF Firm

\* fail keeps the first cause.
LEMMA StoreFailSteady ==
  ASSUME NEW s \in Stores, NEW code \in Codes, NEW r \in fail(s, code),
         NEW settled, NEW P, Steady(s, settled, P), Nobody \in P
  PROVE  Steady(r.s, settled, P) /\ Firm(s, r.s)
<1> DEFINE t == [s EXCEPT !.frontier = FALSE, !.latched = code]
<1>1. t \in Stores /\ t.marker = s.marker /\ t.synced = s.synced /\ t.recovery = s.recovery
  BY DEF Stores
<1> HIDE DEF t
<1>2. PICK q \in recordFailure(t, code, NoMarker) : r \in OrReject(q, NoMarker, {q})
  BY DEF fail, t
<1>3. Steady(t, settled, P)  BY <1>1, SteadySame DEF Steady, Origins
<1>4. Good(t, q)  BY <1>1, NoMarkerFacts, RecordFailure
<1>5. Steady(q.s, settled, P) /\ Firm(t, q.s)
  BY <1>1, <1>3, NoMarkerFacts, OriginFacts, RecordFailureSteady
<1>6. CASE q.err = Ok
  <2>1. r = q  BY <1>2, <1>6 DEF OrReject
  <2> QED BY <1>1, <1>5, <2>1 DEF Firm
<1>7. CASE q.err # Ok
  <2>1. r \in reject(q.s, q.err, NoMarker)  BY <1>2, <1>7 DEF OrReject
  <2>2. q.s \in Stores /\ q.err \in Codes  BY <1>4, <1>7 DEF Good
  <2>3. Steady(r.s, settled, P) /\ Firm(q.s, r.s)
    BY <1>5, <2>1, <2>2, NoMarkerFacts, OriginFacts, RejectSteady
  <2> QED BY <1>1, <1>5, <2>3 DEF Firm
<1> QED BY <1>6, <1>7

\* The controller's fail keeps the first cause.
LEMMA ControllerFailSteady ==
  ASSUME NEW s \in Stores, NEW code \in Codes, NEW c \in Fail(s, code),
         NEW settled, NEW P, Steady(s, settled, P), Nobody \in P
  PROVE  Steady(c.s, settled, P) /\ Firm(s, c.s)
<1>1. PICK r \in fail(s, code) : c = Control(r.s, IF r.err = Ok THEN code ELSE r.err, code, code)
  BY DEF Fail
<1>2. c.s = r.s  BY <1>1 DEF Control
<1> QED BY <1>1, <1>2, StoreFailSteady

\* evaluate keeps the first cause.
LEMMA EvaluateSteady ==
  ASSUME NEW s \in Stores, NEW latch, NEW request, NEW same,
         NEW reads \in SUBSET {Ok, "IO"}, NEW r \in evaluate(s, latch, request, same, reads),
         NEW settled, NEW P, Steady(s, settled, P)
  PROVE  Steady(r.s, settled, P) /\ Firm(s, r.s) /\ Origins(r.s) = Origins(s)
<1>1. r.s.marker = s.marker /\ r.s.synced = s.synced /\ r.s.recovery = s.recovery
  BY Evaluate
<1>2. Origin(s.recovery) \in P  BY DEF Steady, Origins
<1> QED BY <1>1, <1>2, SteadySame DEF Origins

\* The request guard keeps the first cause.
LEMMA GuardSteady ==
  ASSUME store \in Stores, sticky \in Codes \cup {NoCode}, observed \in Codes \cup {NoCode},
         NEW branch, NEW act, NEW errors \in SUBSET (Codes \cup {Ok}), NEW c \in guard(branch, act, errors),
         NEW settled, NEW P, Steady(store, settled, P), Nobody \in P
  PROVE  Steady(c.s, settled, P) /\ Firm(store, c.s)
<1>1. PICK r \in assertReady(branch), e \in errors :
        c \in Guarded(IF r.err = Ok THEN Result(r.s, e) ELSE r, act)
  BY DEF guard
<1>2. /\ r.s \in Stores /\ r.err \in Codes \cup {Ok}
      /\ Steady(r.s, settled, P) /\ Firm(store, r.s)
  <2>1. CASE SessionError(branch) # Ok
    <3>1. r = Result(store, SessionError(branch))  BY <1>1, <2>1 DEF assertReady
    <3> QED BY <3>1, SessionErrorType DEF Result, Firm
  <2>2. CASE SessionError(branch) = Ok /\ sticky # NoCode
    <3>1. r = Result(store, sticky)  BY <1>1, <2>2 DEF assertReady
    <3> QED BY <2>2, <3>1 DEF Result, Firm
  <2>3. CASE SessionError(branch) = Ok /\ sticky = NoCode
    <3>1. r \in evaluate(store, TRUE, TRUE, Same(branch), SessionReads)
      BY <1>1, <2>3 DEF assertReady
    <3>2. SessionReads \in SUBSET {Ok, "IO"}  BY SessionReadsType
    <3>3. PICK yes \in BOOLEAN, same \in BOOLEAN, reads \in SUBSET {Ok, "IO"} :
            r \in evaluate(store, yes, yes, same, reads)
      BY <3>1, <3>2 DEF Same
    <3>4. r.s \in Stores /\ r.err \in Codes \cup {Ok}  BY <3>3, Evaluate DEF Good
    <3> QED BY <3>3, <3>4, EvaluateSteady
  <2> QED BY <2>1, <2>2, <2>3
<1> DEFINE q == IF r.err = Ok THEN Result(r.s, e) ELSE r
<1>3. q.s = r.s /\ q.err \in Codes \cup {Ok}  BY <1>2 DEF Result
<1>4. c \in Guarded(q, act)  BY <1>1
<1> HIDE DEF q
<1>5. CASE c = Control(q.s, sticky, observed, q.err)
  <2>1. c.s = q.s  BY <1>5 DEF Control
  <2> QED BY <1>2, <1>3, <2>1
<1>6. CASE q.err # Ok /\ c \in Fail(q.s, q.err)
  <2>1. Steady(c.s, settled, P) /\ Firm(r.s, c.s)
    BY <1>2, <1>3, <1>6, ControllerFailSteady
  <2> QED BY <1>2, <2>1 DEF Firm
<1> QED BY <1>4, <1>5, <1>6 DEF Guarded

\* A recorded failure stays, or the marker names the new attempt a.
Renewed(s, t, a) == Firm(s, t) \/ Shows(t, a)

\* Publishing a fresh attempt.
LEMMA PublishSteady ==
  ASSUME NEW s \in Stores, NEW a \in Nat, NEW branch, hashEntries(branch) \in Hash,
         NEW r \in Publish(s, a, branch), s.synced.att # a,
         NEW settled, NEW P, Steady(s, settled, P), Nobody \in P, <<a, hashEntries(branch)>> \in P
  PROVE  Steady(r.s, settled, P) /\ Renewed(s, r.s, a)
<1> DEFINE n == Pending(a, branch)
<1>1. /\ n \in Markers /\ n # NoMarker /\ n.att = a /\ n.state = "pending" /\ n.staged = FALSE
      /\ Origin(n) \in P
  BY DEF Pending, Markers, NoMarker, Codes, Origin
<1> HIDE DEF n
<1>2. PICK w \in writeMarker(s, n) :
        r \in OrReject(w, NoMarker, {Result([w.s EXCEPT !.recovery = NoMarker], Ok)})
  BY DEF Publish, n
<1>3. /\ w.s \in Stores /\ w.s.recovery = s.recovery
      /\ \/ w.err = Ok /\ w.s.marker = n /\ w.s.synced = n
         \/ w.err = "IO" /\ w.s = s
         \/ w.err = "IO" /\ w.s.marker = n /\ w.s.synced = s.synced
  BY <1>1, <1>2, WriteMarker
<1>4. CASE w.err = Ok
  <2>1. r = Result([w.s EXCEPT !.recovery = NoMarker], Ok)  BY <1>2, <1>4 DEF OrReject
  <2>2. r.s = [w.s EXCEPT !.recovery = NoMarker]  BY <2>1 DEF Result
  <2>3. r.s.marker = n /\ r.s.synced = n /\ r.s.recovery = NoMarker
    BY <1>3, <1>4, <2>2 DEF Stores, Ok
  <2> QED BY <1>1, <2>3, OriginFacts DEF Steady, Causes, Origins, Renewed, Shows
<1>5. CASE w.err # Ok
  <2>1. r \in reject(w.s, "IO", NoMarker)  BY <1>2, <1>3, <1>5 DEF OrReject
  <2>2. Good(w.s, r)  BY <1>3, <2>1, NoMarkerFacts, Reject DEF Codes
  <2>3. Steady(w.s, settled, P)
    <3>1. CASE w.s = s  BY <3>1
    <3>2. CASE w.s.marker = n /\ w.s.synced = s.synced
      BY <1>1, <1>3, <3>2 DEF Steady, Causes, Origins
    <3> QED BY <1>3, <1>5, <3>1, <3>2
  <2>4. Steady(r.s, settled, P) /\ Firm(w.s, r.s)
    BY <1>3, <2>1, <2>3, NoMarkerFacts, OriginFacts, RejectSteady DEF Codes
  <2>5. CASE w.s = s  BY <2>4, <2>5 DEF Renewed
  <2>6. CASE w.s.marker = n
    BY <1>1, <2>2, <2>4, <2>6 DEF Good, Preserves, Renewed, Shows
  <2> QED BY <1>3, <1>5, <2>4, <2>5, <2>6
<1> QED BY <1>4, <1>5

\* begin keeps first causes: only a fresh attempt replaces a failure.
LEMMA BeginSteady ==
  ASSUME NEW s \in Stores, NEW explicitRetry, NEW a \in Nat, NEW branch,
         hashEntries(branch) \in Hash, NEW same, NEW reads \in SUBSET {Ok, "IO"},
         NEW r \in begin(s, explicitRetry, a, branch, same, reads),
         NEW settled, NEW P, Steady(s, settled, P), Nobody \in P, <<a, hashEntries(branch)>> \in P,
         s.synced.att # a
  PROVE  Steady(r.s, settled, P) /\ Renewed(s, r.s, a)
<1> DEFINE t       == [s EXCEPT !.frontier = FALSE]
           retried == { Result(t, IF read # Ok THEN read
                                  ELSE IF session # Ok THEN session
                                  ELSE IF ~same THEN "SOURCE_CHANGED" ELSE Ok)
                        : read \in MarkerReads, session \in reads }
           checked == IF explicitRetry THEN retried ELSE evaluate(t, TRUE, FALSE, same, reads)
<1>1. t \in Stores /\ t.marker = s.marker /\ t.synced = s.synced /\ t.recovery = s.recovery
  BY FrontierUpdate DEF Stores
<1>2. begin(s, explicitRetry, a, branch, same, reads)
        = UNION { OrReject(q, NoMarker, Publish(q.s, a, branch)) : q \in checked }
  BY DEF begin
<1> HIDE DEF t
<1>3. PICK q \in checked : r \in OrReject(q, NoMarker, Publish(q.s, a, branch))
  <2> HIDE DEF checked
  <2> QED BY <1>2
<1>4. Steady(t, settled, P)  BY <1>1, SteadySame DEF Steady, Origins
<1>5. /\ q.s \in Stores /\ q.err \in Codes \cup {Ok}
      /\ Steady(q.s, settled, P) /\ q.s.marker = s.marker /\ q.s.synced = s.synced
  <2>1. CASE explicitRetry
    <3>1. PICK read \in MarkerReads, session \in reads :
            q = Result(t, IF read # Ok THEN read
                          ELSE IF session # Ok THEN session
                          ELSE IF ~same THEN "SOURCE_CHANGED" ELSE Ok)
      BY <1>3, <2>1
    <3>2. q.s = t /\ q.err \in {Ok, "IO", "SOURCE_CHANGED"}
      BY <3>1, MarkerReadsType DEF Result
    <3> QED BY <1>1, <1>4, <3>2 DEF Codes
  <2>2. CASE ~explicitRetry
    <3> HIDE DEF retried
    <3>1. q \in evaluate(t, TRUE, FALSE, same, reads)  BY <1>3, <2>2
    <3>2. PICK yes \in BOOLEAN, no \in BOOLEAN : q \in evaluate(t, yes, no, same, reads)  BY <3>1
    <3>3. Good(t, q) /\ q.s.marker = t.marker /\ q.s.synced = t.synced  BY <1>1, <3>2, Evaluate
    <3>4. Steady(q.s, settled, P)  BY <1>1, <1>4, <3>2, EvaluateSteady
    <3> QED BY <1>1, <3>3, <3>4 DEF Good
  <2> QED BY <2>1, <2>2
<1> HIDE DEF checked, retried
<1>6. CASE q.err = Ok
  <2>1. r \in Publish(q.s, a, branch)  BY <1>3, <1>6 DEF OrReject
  <2>2. Steady(r.s, settled, P) /\ Renewed(q.s, r.s, a)
    BY <1>5, <2>1, PublishSteady
  <2> QED BY <1>5, <2>2 DEF Renewed, Firm
<1>7. CASE q.err # Ok
  <2>1. r \in reject(q.s, q.err, NoMarker)  BY <1>3, <1>7 DEF OrReject
  <2>2. Steady(r.s, settled, P) /\ Firm(q.s, r.s)
    BY <1>5, <1>7, <2>1, NoMarkerFacts, OriginFacts, RejectSteady
  <2> QED BY <1>5, <2>2 DEF Renewed, Firm
<1> QED BY <1>6, <1>7

\* compact() up to its first await keeps first causes.
LEMMA BegunSteady ==
  ASSUME FileInv, TypeRest, NEW reason, NEW queued, NEW r \in Begun(reason, queued),
         NEW settled, NEW P, Steady(store, settled, P), Nobody \in P,
         <<attempts + 1, hashEntries(leaf)>> \in P, store.synced.att # attempts + 1
  PROVE  Steady(r.s, settled, P) /\ Renewed(store, r.s, attempts + 1)
<1> DEFINE t == [store EXCEPT !.frontier = FALSE]
           status == IF sticky # NoCode THEN {Result(t, sticky)}
                     ELSE evaluate(t, TRUE, FALSE, Same(leaf), SessionReads)
           allowed(st) == (completed(leaf) \/ (st.err # Ok /\ terminated(leaf))) /\ ~queued
           started(st) == IF allowed(st)
                            THEN begin(st.s, reason = "manual", attempts + 1, leaf, Same(leaf),
                                       IF st.err = Ok THEN {Ok} ELSE SessionReads)
                            ELSE {Result(st.s, "REFUSED")}
<1>1. t \in Stores /\ t.marker = store.marker /\ t.synced = store.synced /\ t.recovery = store.recovery
  BY FrontierUpdate DEF TypeRest, Stores
<1>2. Begun(reason, queued) =
        IF SessionError(leaf) # Ok THEN {Result(t, SessionError(leaf))}
        ELSE IF reason = "overflow" THEN {Result(t, "REFUSED")}
        ELSE UNION { started(st) : st \in status }
  BY DEF Begun
<1> HIDE DEF t
<1>3. Steady(t, settled, P)  BY <1>1, SteadySame DEF Steady, Origins
<1>4. ASSUME NEW u, Steady(u, settled, P), u.marker = store.marker, NEW code, r = Result(u, code)
      PROVE  Steady(r.s, settled, P) /\ Renewed(store, r.s, attempts + 1)
  BY <1>4 DEF Result, Renewed, Firm
<1>5. CASE SessionError(leaf) # Ok
  <2>1. r = Result(t, SessionError(leaf))  BY <1>2, <1>5
  <2> QED BY <1>1, <1>3, <1>4, <2>1
<1>6. CASE SessionError(leaf) = Ok /\ reason = "overflow"
  <2>1. r = Result(t, "REFUSED")  BY <1>2, <1>6
  <2> QED BY <1>1, <1>3, <1>4, <2>1
<1>7. CASE SessionError(leaf) = Ok /\ reason # "overflow"
  <2>1. PICK st \in status : r \in started(st)
    <3> HIDE DEF status, started
    <3> QED BY <1>2, <1>7
  <2>2. /\ st.s \in Stores /\ Steady(st.s, settled, P)
        /\ st.s.marker = store.marker /\ st.s.synced = store.synced
    <3>1. CASE sticky # NoCode
      <4>1. st = Result(t, sticky)  BY <2>1, <3>1
      <4> QED BY <1>1, <1>3, <4>1 DEF Result
    <3>2. CASE sticky = NoCode
      <4>1. st \in evaluate(t, TRUE, FALSE, Same(leaf), SessionReads)  BY <2>1, <3>2
      <4>2. SessionReads \in SUBSET {Ok, "IO"}  BY SessionReadsType
      <4>3. PICK yes \in BOOLEAN, no \in BOOLEAN, same \in BOOLEAN, reads \in SUBSET {Ok, "IO"} :
              st \in evaluate(t, yes, no, same, reads)
        BY <4>1, <4>2 DEF Same
      <4>4. Good(t, st) /\ st.s.marker = t.marker /\ st.s.synced = t.synced  BY <1>1, <4>3, Evaluate
      <4>5. Steady(st.s, settled, P)  BY <1>1, <1>3, <4>3, EvaluateSteady
      <4> QED BY <1>1, <4>4, <4>5 DEF Good
    <3> QED BY <3>1, <3>2
  <2> HIDE DEF status
  <2>3. CASE ~allowed(st)
    <3>1. r = Result(st.s, "REFUSED")  BY <2>1, <2>3
    <3> QED BY <1>4, <2>2, <3>1
  <2>4. CASE allowed(st)
    <3>1. r \in begin(st.s, reason = "manual", attempts + 1, leaf, Same(leaf),
                       IF st.err = Ok THEN {Ok} ELSE SessionReads)
      BY <2>1, <2>4
    <3>2. (IF st.err = Ok THEN {Ok} ELSE SessionReads) \in SUBSET {Ok, "IO"}
      BY SessionReadsType
    <3>3. PICK reads \in SUBSET {Ok, "IO"} :
            r \in begin(st.s, reason = "manual", attempts + 1, leaf, Same(leaf), reads)
      BY <3>1, <3>2
    <3>4. PICK manual \in BOOLEAN, same \in BOOLEAN :
            r \in begin(st.s, manual, attempts + 1, leaf, same, reads)
      BY <3>3 DEF Same
    <3>5. PICK a \in Nat : a = attempts + 1 /\ r \in begin(st.s, manual, a, leaf, same, reads)
      BY <3>4 DEF TypeRest
    <3>6. hashEntries(leaf) \in Hash  BY HashType DEF FileInv
    <3>7. <<a, hashEntries(leaf)>> \in P /\ st.s.synced.att # a  BY <2>2, <3>5
    <3>8. Steady(r.s, settled, P) /\ Renewed(st.s, r.s, a)
      BY <2>2, <3>5, <3>6, <3>7, BeginSteady
    <3> QED BY <2>2, <3>5, <3>8 DEF Renewed, Firm
  <2> QED BY <2>3, <2>4
<1> QED BY <1>5, <1>6, <1>7

\* stage keeps the first cause: it writes only over its own pending marker.
LEMMA StageSteady ==
  ASSUME NEW s \in Stores, NEW a \in Nat, NEW src, NEW branch, NEW same,
         NEW r \in stage(s, a, src, branch, same), s.synced.att = s.marker.att,
         NEW settled, NEW P, Steady(s, settled, P), Nobody \in P
  PROVE  Steady(r.s, settled, P) /\ Firm(s, r.s)
<1> DEFINE t       == [s EXCEPT !.frontier = FALSE]
           checked == { Result(t, CASE read # Ok -> read
                                [] read = Ok /\ s.marker.state # "pending" -> "COMMIT_UNCONFIRMED"
                                [] OTHER ->
                                     IF s.marker.att # a \/ s.marker.src # src \/ hashEntries(branch) # src
                                       THEN "SOURCE_CHANGED"
                                     ELSE IF session # Ok THEN session
                                     ELSE IF ~same THEN "SOURCE_CHANGED" ELSE Ok)
                   : read \in MarkerReads, session \in SessionReads }
           written(q) ==
  OrReject(q, NoMarker,
    UNION { OrReject(w, NoMarker, {w}) : w \in writeMarker(q.s, [q.s.marker EXCEPT !.staged = TRUE]) })
<1>1. t \in Stores /\ t.marker = s.marker /\ t.synced = s.synced /\ t.recovery = s.recovery
  BY FrontierUpdate DEF Stores
<1>2. stage(s, a, src, branch, same) = UNION { written(q) : q \in checked }
  BY DEF stage
<1> HIDE DEF t
<1>3. PICK q \in checked : r \in written(q)
  <2> HIDE DEF checked, written
  <2> QED BY <1>2
<1>4. /\ q.s = t /\ q.err \in Codes \cup {Ok}
      /\ q.err = Ok => s.marker.state = "pending"
  <2>1. PICK read \in MarkerReads, session \in SessionReads :
          q = Result(t, CASE read # Ok -> read
                          [] read = Ok /\ s.marker.state # "pending" -> "COMMIT_UNCONFIRMED"
                          [] OTHER ->
                               IF s.marker.att # a \/ s.marker.src # src \/ hashEntries(branch) # src
                                 THEN "SOURCE_CHANGED"
                               ELSE IF session # Ok THEN session
                               ELSE IF ~same THEN "SOURCE_CHANGED" ELSE Ok)
    BY <1>3
  <2> QED BY <2>1, MarkerReadsType, SessionReadsType DEF Result, Codes, Ok
<1> HIDE DEF checked
<1>5. Steady(t, settled, P)  BY <1>1, SteadySame DEF Steady, Origins
<1>6. CASE q.err # Ok
  <2>1. r \in reject(t, q.err, NoMarker)  BY <1>3, <1>4, <1>6 DEF OrReject
  <2>2. Steady(r.s, settled, P) /\ Firm(t, r.s)
    BY <1>1, <1>4, <1>5, <1>6, <2>1, NoMarkerFacts, OriginFacts, RejectSteady
  <2> QED BY <1>1, <2>2 DEF Firm
<1>7. CASE q.err = Ok
  <2> DEFINE n == [t.marker EXCEPT !.staged = TRUE]
  <2>1. t.marker # NoMarker /\ t.marker.state = "pending"  BY <1>1, <1>4, <1>7, NoMarkerFacts
  <2>2. n \in Markers /\ n # NoMarker /\ n.att = t.marker.att /\ Origin(n) = Origin(t.marker)
    BY <1>1, <2>1 DEF Stores, Markers, NoMarker, Origin
  <2> HIDE DEF n
  <2>3. PICK w \in writeMarker(t, n) : r \in OrReject(w, NoMarker, {w})
    BY <1>3, <1>4, <1>7 DEF OrReject, n
  <2>4. w.s \in Stores /\ w.err \in {Ok, "IO"}  BY <1>1, <2>2, <2>3, WriteMarker
  <2>5. Origin(n) \in P  BY <1>5, <2>2 DEF Steady, Origins
  <2>6. t.marker.state # "blocked" /\ t.synced.att = t.marker.att  BY <1>1, <2>1
  <2>7. Steady(w.s, settled, P) /\ Firm(t, w.s)
    BY <1>1, <1>5, <2>2, <2>3, <2>5, <2>6, WriteSteady
  <2>8. CASE w.err = Ok
    <3>1. r = w  BY <2>3, <2>8 DEF OrReject
    <3> QED BY <1>1, <2>7, <3>1 DEF Firm
  <2>9. CASE w.err # Ok
    <3>1. r \in reject(w.s, "IO", NoMarker)  BY <2>3, <2>4, <2>9 DEF OrReject
    <3>2. Steady(r.s, settled, P) /\ Firm(w.s, r.s)
      BY <2>4, <2>7, <3>1, NoMarkerFacts, OriginFacts, RejectSteady DEF Codes
    <3> QED BY <1>1, <2>7, <3>2 DEF Firm
  <2> QED BY <2>8, <2>9
<1> QED BY <1>6, <1>7

\* Staging keeps the first cause.
LEMMA StagedSteady ==
  ASSUME TypeRest, NEW outcome \in Codes \cup {Ok}, NEW r \in Staged(outcome),
         store.synced.att = store.marker.att,
         NEW settled, NEW P, Steady(store, settled, P), Nobody \in P
  PROVE  Steady(r.s, settled, P) /\ Firm(store, r.s)
<1>1. CASE outcome # Ok
  <2>1. r = Result(store, outcome)  BY <1>1 DEF Staged
  <2> QED BY <2>1 DEF Result, Firm
<1>2. CASE outcome = Ok /\ hashEntries(leaf) # source
  <2>1. r = Result(store, "SOURCE_CHANGED")  BY <1>2 DEF Staged
  <2> QED BY <2>1 DEF Result, Firm
<1>3. CASE outcome = Ok /\ hashEntries(leaf) = source
  <2>1. r \in stage(store, attempt, source, leaf, Same(leaf))  BY <1>3 DEF Staged
  <2>2. PICK same \in BOOLEAN : r \in stage(store, attempt, source, leaf, same)
    BY <2>1 DEF Same
  <2>3. PICK a \in Nat : r \in stage(store, a, source, leaf, same)  BY <2>2 DEF TypeRest
  <2>4. store \in Stores  BY DEF TypeRest
  <2> QED BY <2>3, <2>4, StageSteady
<1> QED BY <1>1, <1>2, <1>3

\* Removing a marker keeps first causes when what is durable is settled.
LEMMA ReleaseSteady ==
  ASSUME NEW s \in Stores, NEW m \in Markers, NEW r \in Release(s, m),
         NEW settled, NEW P, Origins(s) \subseteq P, Nobody \in P, Origin(m) \in P,
         s.synced.state = "blocked" => s.synced.att \in settled
  PROVE  Steady(r.s, settled, P)
<1>1. PICK u \in writeMarker(s, NoMarker) :
        r \in OrReject(u, m, {Result([u.s EXCEPT !.latched = NoCode, !.recovery = NoMarker], Ok)})
  BY DEF Release, removeMarker
<1>2. /\ u.s \in Stores /\ u.s.recovery = s.recovery /\ u.err \in {Ok, "IO"}
      /\ u.s.marker \in {NoMarker, s.marker} /\ u.s.synced \in {NoMarker, s.synced}
  BY NoMarkerFacts, WriteMarker
<1>3. Steady(u.s, settled, P)
  <2>1. Origins(u.s) \subseteq P  BY <1>2, OriginFacts DEF Origins
  <2>2. u.s.synced.state = "blocked" => u.s.synced.att \in settled  BY <1>2, NoMarkerFacts
  <2> QED BY <2>1, <2>2 DEF Steady, Causes
<1>4. CASE u.err = Ok
  <2>1. r = Result([u.s EXCEPT !.latched = NoCode, !.recovery = NoMarker], Ok)
    BY <1>1, <1>4 DEF OrReject
  <2>2. r.s = [u.s EXCEPT !.latched = NoCode, !.recovery = NoMarker]
    BY <2>1 DEF Result
  <2>3. r.s.marker = u.s.marker /\ r.s.synced = u.s.synced /\ r.s.recovery = NoMarker
    BY <1>2, <2>2 DEF Stores
  <2> QED BY <1>3, <2>3, OriginFacts, SteadySame
<1>5. CASE u.err # Ok
  <2>1. r \in reject(u.s, "IO", m)  BY <1>1, <1>2, <1>5 DEF OrReject
  <2> QED BY <1>2, <1>3, <2>1, RejectSteady DEF Codes
<1> QED BY <1>4, <1>5

\* confirm keeps first causes, but for the attempt it has read back.
LEMMA ConfirmSteady ==
  ASSUME NEW s \in Stores, NEW explicitRecovery, NEW entry, NEW branch, NEW disk,
         NEW r \in confirm(s, explicitRecovery, entry, branch, disk),
         NEW settled, NEW P, Steady(s, settled, P), Nobody \in P
  PROVE  /\ Steady(r.s, settled \cup ({r.ver} \ {0}), P)
         /\ r.ver = 0 => Firm(s, r.s)
<1> DEFINE t == [s EXCEPT !.frontier = FALSE]
           m == IF s.marker # NoMarker THEN s.marker
                ELSE IF explicitRecovery THEN s.recovery ELSE NoMarker
           restored == IF s.marker # NoMarker THEN {Result(t, Ok)} ELSE recordFailure(t, m.code, m)
           session(u, x) == LET err == IF x # Ok THEN x ELSE ReadbackError(m, entry, branch, disk)
                            IN  IF err = Ok THEN Confirmed(Release(u, m), m.att)
                                ELSE Confirmed(reject(u, err, m), 0)
           readback(u) == UNION { session(u, x) : x \in SessionReads }
           later(q)    == IF q.err = Ok THEN readback(q.s) ELSE Confirmed(reject(q.s, q.err, m), 0)
           answer(x)   == IF x # Ok THEN Confirmed(reject(t, x, NoMarker), 0)
                          ELSE IF ~Identified(m, explicitRecovery, entry, branch)
                            THEN Confirmed(reject(t, "COMMIT_UNCONFIRMED", m), 0)
                          ELSE UNION { later(q) : q \in restored }
           Goal == /\ Steady(r.s, settled \cup ({r.ver} \ {0}), P)
                   /\ r.ver = 0 => Firm(s, r.s)
<1>1. confirm(s, explicitRecovery, entry, branch, disk) = UNION { answer(x) : x \in MarkerReads }
  BY DEF confirm
<1>2. /\ t \in Stores /\ t.marker = s.marker /\ t.synced = s.synced /\ t.recovery = s.recovery
      /\ Steady(t, settled, P)
  <2>1. t \in Stores /\ t.marker = s.marker /\ t.synced = s.synced /\ t.recovery = s.recovery
    BY FrontierUpdate DEF Stores
  <2> HIDE DEF t
  <2> QED BY <2>1, SteadySame DEF Steady, Origins
<1>3. m \in Markers /\ (s.marker # NoMarker => m = s.marker) /\ Origin(m) \in P
  BY NoMarkerFacts, OriginFacts DEF Stores, Steady, Origins
<1> HIDE DEF t, m
<1>4. ASSUME NEW u \in Stores, Steady(u, settled, P), Firm(s, u), NEW code \in Codes,
             NEW n \in Markers, Origin(n) \in P, r \in Confirmed(reject(u, code, n), 0)
      PROVE  Goal
  <2>1. PICK q \in reject(u, code, n) : r = [s |-> q.s, err |-> q.err, ver |-> 0]
    BY <1>4 DEF Confirmed
  <2>2. Steady(q.s, settled, P) /\ Firm(u, q.s)  BY <1>4, <2>1, RejectSteady
  <2>3. r.s = q.s /\ r.ver = 0  BY <2>1
  <2>4. Steady(r.s, settled \cup ({r.ver} \ {0}), P)  BY <2>2, <2>3, SteadyGrows
  <2> QED BY <1>4, <2>2, <2>3, <2>4 DEF Firm
<1>5. PICK x \in MarkerReads : r \in answer(x)
  <2> HIDE DEF answer
  <2> QED BY <1>1
<1>6. x \in {Ok, "IO"}  BY MarkerReadsType
<1>a. Firm(s, t)  BY <1>2 DEF Firm
<1>7. CASE x # Ok
  <2>1. r \in Confirmed(reject(t, "IO", NoMarker), 0)  BY <1>5, <1>6, <1>7
  <2> QED BY <1>2, <1>a, <1>4, <2>1, NoMarkerFacts, OriginFacts DEF Codes
<1>8. CASE x = Ok /\ ~Identified(m, explicitRecovery, entry, branch)
  <2>1. r \in Confirmed(reject(t, "COMMIT_UNCONFIRMED", m), 0)  BY <1>5, <1>8
  <2> QED BY <1>2, <1>3, <1>a, <1>4, <2>1 DEF Codes
<1>9. CASE x = Ok /\ Identified(m, explicitRecovery, entry, branch)
  <2>1. m.att # 0 /\ m # NoMarker /\ m.staged  BY <1>9, NoMarkerFacts DEF Identified
  <2>2. m.code \in Codes /\ m.att \in Nat  BY <1>3, <2>1 DEF Markers
  <2>3. PICK q \in restored : r \in later(q)
    <3>1. r \in UNION { later(q) : q \in restored }  BY <1>5, <1>9
    <3> HIDE DEF later, restored
    <3> QED BY <3>1
  <2>4. /\ q.s \in Stores /\ q.err \in Codes \cup {Ok}
        /\ Steady(q.s, settled, P) /\ Firm(s, q.s)
        /\ q.err = Ok /\ q.s.synced.state = "blocked" => q.s.synced.att \in settled \cup {m.att}
    <3>1. CASE s.marker # NoMarker
      <4>1. q = Result(t, Ok)  BY <2>3, <3>1
      <4>2. q.s = t /\ q.err = Ok  BY <4>1 DEF Result
      <4>3. t.marker = m  BY <1>2, <1>3, <3>1
      <4>4. t.synced.state = "blocked" => t.synced.att \in settled \cup {m.att}
        BY <1>2, <2>1, <4>3 DEF Steady, Causes
      <4> QED BY <1>2, <1>a, <4>2, <4>4
    <3>2. CASE s.marker = NoMarker
      <4>1. q \in recordFailure(t, m.code, m)  BY <2>3, <3>2
      <4>2. Good(t, q)  BY <1>2, <1>3, <2>2, <4>1, RecordFailure
      <4>3. /\ Steady(q.s, settled, P) /\ Firm(t, q.s)
            /\ t.marker = NoMarker /\ m # NoMarker /\ q.err = Ok => q.s.synced.att = m.att
        BY <1>2, <1>3, <2>2, <4>1, RecordFailureSteady
      <4> QED BY <1>2, <2>1, <3>2, <4>2, <4>3 DEF Good, Firm
    <3> QED BY <3>1, <3>2
  <2> HIDE DEF restored
  <2>5. CASE q.err # Ok
    <3>1. r \in Confirmed(reject(q.s, q.err, m), 0)  BY <2>3, <2>5
    <3>2. q.err \in Codes  BY <2>4, <2>5
    <3> QED BY <1>3, <1>4, <2>4, <3>1, <3>2
  <2>6. CASE q.err = Ok
    <3>1. PICK y \in SessionReads : r \in session(q.s, y)
      <4>1. r \in UNION { session(q.s, y) : y \in SessionReads }  BY <2>3, <2>6
      <4> HIDE DEF session
      <4> QED BY <4>1
    <3> DEFINE err == IF y # Ok THEN y ELSE ReadbackError(m, entry, branch, disk)
    <3>2. err \in Codes \cup {Ok}
      BY SessionReadsType DEF ReadbackError, Codes
    <3>3. CASE err # Ok
      <4>1. r \in Confirmed(reject(q.s, err, m), 0)  BY <3>1, <3>3
      <4> HIDE DEF err
      <4> QED BY <1>3, <1>4, <2>4, <3>2, <3>3, <4>1
    <3>4. CASE err = Ok
      <4>1. r \in Confirmed(Release(q.s, m), m.att)  BY <3>1, <3>4
      <4>2. PICK z \in Release(q.s, m) : r = [s |-> z.s, err |-> z.err, ver |-> m.att]
        BY <4>1 DEF Confirmed
      <4>3. r.s = z.s /\ r.ver = m.att  BY <4>2
      <4> DEFINE more == settled \cup {m.att}
      <4>4. Origins(q.s) \subseteq P /\ (q.s.synced.state = "blocked" => q.s.synced.att \in more)
        BY <2>4, <2>6 DEF Steady
      <4> HIDE DEF more
      <4>5. Steady(z.s, more, P)  BY <1>3, <2>4, <4>2, <4>4, ReleaseSteady
      <4>6. more = settled \cup ({r.ver} \ {0})  BY <2>1, <4>3 DEF more
      <4> QED BY <2>1, <4>3, <4>5, <4>6
    <3> QED BY <3>3, <3>4
  <2> QED BY <2>5, <2>6
<1> QED BY <1>7, <1>8, <1>9

(***************************************************************************)
(* Everything that names an attempt: the markers, the compaction under     *)
(* way, and the checkpoints of the session file.                           *)
(***************************************************************************)
CheckpointsOf(b) == {<<b[i].att, b[i].src>> : i \in {j \in DOMAIN b : b[j].kind = "memory"}}

Known == Origins(store) \cup {<<attempt, source>>} \cup UNION {CheckpointsOf(b) : b \in stored}

\* Attempt numbers are fresh, and one attempt has one source.
OneSource ==
  /\ \A p \in Known : p[1] <= attempts
  /\ \A p, q \in Known : p[1] = q[1] /\ p[1] # 0 => p[2] = q[2]

CauseInv == Causes(store, verified) /\ OneSource

\* The step properties, as predicates of a step.
FirstCauseStep ==
  /\ store.marker.state = "blocked" /\ store'.marker.state = "blocked"
  /\ store.marker.att = store'.marker.att /\ store.marker.att \notin verified'
  => store.marker.code = store'.marker.code

ReadBackStep ==
  \A a \in verified' \ verified :
    /\ leaf \in stored /\ Same(leaf)
    /\ Checkpoint(leaf).kind = "memory" /\ Checkpoint(leaf).att = a /\ Checkpoint(leaf).rev = 0
    /\ Checkpoint(leaf).src = hashEntries(Sources(leaf))

\* What a step must show.
CauseKept == CauseInv' /\ FirstCauseStep /\ ReadBackStep

\* An origin is a number and a hash.
LEMMA OriginType ==
  /\ \A m \in Markers : Origin(m) \in Nat \X Hash
  /\ Nobody \in Nat \X Hash
<1>1. <<>> \in Hash  BY EmptySeq DEF Hash
<1> QED BY <1>1 DEF Origin, Markers, NoMarker, Nobody

\* Everything known is a number and a hash.
LEMMA KnownType ==
  ASSUME FileInv, TypeRest
  PROVE  Known \subseteq Nat \X Hash
<1>1. Origins(store) \subseteq Nat \X Hash  BY OriginType DEF Origins, TypeRest, Stores
<1>2. <<attempt, source>> \in Nat \X Hash  BY DEF TypeRest
<1>3. ASSUME NEW b \in stored PROVE CheckpointsOf(b) \subseteq Nat \X Hash
  <2>1. b \in Seq(Tokens)  BY DEF FileInv
  <2>2. ASSUME NEW i \in DOMAIN b PROVE <<b[i].att, b[i].src>> \in Nat \X Hash
    <3>1. b[i] \in Tokens  BY <2>1, TokenField
    <3> QED BY <3>1 DEF Tokens
  <2> QED BY <2>2 DEF CheckpointsOf
<1> QED BY <1>1, <1>2, <1>3 DEF Known

\* What a step may add to what is known: nothing, or a fresh attempt.
LEMMA OneSourceKept ==
  ASSUME FileInv, TypeRest, OneSource, NEW a \in Nat, NEW h \in Hash,
         Known' \subseteq Known \cup {Nobody, <<a, h>>},
         \/ attempts' = attempts /\ a = 0 /\ h = <<>>
         \/ attempts' = attempts + 1 /\ a = attempts + 1
  PROVE  OneSource'
<1>1. Known \subseteq Nat \X Hash  BY KnownType
<1>2. attempts \in Nat  BY DEF TypeRest
<1>3. Nobody[1] = 0 /\ <<a, h>>[1] = a  BY DEF Nobody
<1>4. \A p \in Known : p[1] \in Nat /\ p[1] <= attempts  BY <1>1 DEF OneSource
<1>5. CASE attempts' = attempts /\ a = 0 /\ h = <<>>
  <2>1. Known' \subseteq Known \cup {Nobody}  BY <1>5 DEF Nobody
  <2>2. \A p \in Known' : p[1] <= attempts'  BY <1>2, <1>3, <1>4, <1>5, <2>1
  <2>3. ASSUME NEW p \in Known', NEW q \in Known', p[1] = q[1], p[1] # 0 PROVE p[2] = q[2]
    <3>1. p \in Known /\ q \in Known  BY <1>3, <2>1, <2>3
    <3> QED BY <2>3, <3>1 DEF OneSource
  <2> QED BY <2>2, <2>3 DEF OneSource
<1>6. CASE attempts' = attempts + 1 /\ a = attempts + 1
  <2>1. \A p \in Known' : p[1] <= attempts'  BY <1>2, <1>3, <1>4, <1>6
  <2>2. ASSUME NEW p \in Known', NEW q \in Known', p[1] = q[1], p[1] # 0 PROVE p[2] = q[2]
    <3>1. CASE p \in Known
      <4>1. q \in Known  BY <1>2, <1>3, <1>4, <1>6, <2>2, <3>1
      <4> QED BY <2>2, <3>1, <4>1 DEF OneSource
    <3>2. CASE p \notin Known
      <4>1. p = <<a, h>>  BY <1>3, <2>2, <3>2
      <4>2. q \notin Known /\ q # Nobody  BY <1>2, <1>3, <1>4, <1>6, <2>2, <4>1
      <4> QED BY <4>1, <4>2
    <3> QED BY <3>1, <3>2
  <2> QED BY <2>1, <2>2 DEF OneSource
<1> QED BY <1>5, <1>6

\* The store as the methods find it.
LEMMA SteadyNow ==
  ASSUME CauseInv, NEW P, Known \subseteq P
  PROVE  Steady(store, verified, P)
  BY DEF CauseInv, Steady, Known

\* A step that begins and confirms nothing.
LEMMA QuietStep ==
  ASSUME FileInv, TypeRest, CauseInv,
         Steady(store', verified, Known \cup {Nobody}), Firm(store, store'),
         verified' = verified, attempts' = attempts,
         <<attempt', source'>> \in Known \cup {Nobody},
         \A b \in stored' : CheckpointsOf(b) \subseteq Known
  PROVE  CauseKept
<1>1. Known' \subseteq Known \cup {Nobody}
  <2>1. Known' = Origins(store') \cup {<<attempt', source'>>} \cup UNION {CheckpointsOf(b) : b \in stored'}
    BY DEF Known, CheckpointsOf, Origins, Origin
  <2> QED BY <2>1 DEF Steady
<1>2. OneSource'
  <2>1. <<>> \in Hash  BY EmptySeq DEF Hash
  <2> QED BY <1>1, <2>1, OneSourceKept DEF CauseInv
<1>3. Causes(store', verified')  BY DEF Steady
<1>4. CauseInv'  BY <1>2, <1>3 DEF CauseInv, Causes
<1> QED BY <1>4 DEF CauseKept, FirstCauseStep, ReadBackStep, Firm

\* The checkpoints of the session file are known.
LEMMA StoredKnown == \A b \in stored : CheckpointsOf(b) \subseteq Known
  BY DEF Known

\* An entry appended to the file brings no unknown checkpoint.
LEMMA AppendKnown ==
  ASSUME FileInv, NEW token \in Tokens,
         token.kind = "memory" => <<token.att, token.src>> \in Known
  PROVE  CheckpointsOf(Append(leaf, token)) \subseteq Known
<1>1. CheckpointsOf(leaf) \subseteq Known  BY StoredKnown DEF FileInv, MemoryIsStored
<1> DEFINE b0 == Append(leaf, token)
<1>2. \A i \in DOMAIN b0 : (i \in DOMAIN leaf /\ b0[i] = leaf[i]) \/ b0[i] = token
  BY AppendType DEF FileInv
<1> HIDE DEF b0
<1> QED
  <2>1. CheckpointsOf(b0) \subseteq Known  BY <1>1, <1>2 DEF CheckpointsOf
  <2> QED BY <2>1 DEF b0

\* A step that leaves the store's files and markers alone.
LEMMA FilesKept ==
  ASSUME FileInv, TypeRest, CauseInv,
         store'.marker = store.marker, store'.synced = store.synced, store'.recovery = store.recovery,
         verified' = verified, attempts' = attempts,
         <<attempt', source'>> \in Known \cup {Nobody},
         \A b \in stored' : CheckpointsOf(b) \subseteq Known
  PROVE  CauseKept
<1> DEFINE P == Known \cup {Nobody}
<1>1. Steady(store, verified, P)  BY SteadyNow
<1>2. Origin(store'.recovery) \in P  BY DEF Known, Origins
<1> HIDE DEF P
<1>3. Steady(store', verified, P) /\ Firm(store, store')  BY <1>1, <1>2, SteadySame
<1> QED BY <1>3, QuietStep DEF P

\* The compaction under way is known, and so is none.
LEMMA AttemptKnown ==
  <<attempt, source>> \in Known \cup {Nobody} /\ <<0, <<>>>> \in Known \cup {Nobody}
  BY DEF Known, Nobody

\* A message, or a custom or foreign entry, is appended.
LEMMA MessageStep ==
  ASSUME FileInv, TypeRest, CauseInv, NEW kind \in Kinds \ {"memory"}, Append_(Message(NextId, kind)),
         store'.marker = store.marker, store'.synced = store.synced, store'.recovery = store.recovery,
         verified' = verified, attempts' = attempts,
         <<attempt', source'>> \in Known \cup {Nobody}
  PROVE  CauseKept
<1>1. Message(NextId, kind) \in Tokens /\ Message(NextId, kind).kind # "memory"
  BY NextIdType, MessageType
<1>2. CheckpointsOf(Append(leaf, Message(NextId, kind))) \subseteq Known
  BY <1>1, AppendKnown
<1>3. stored' = stored \cup {Append(leaf, Message(NextId, kind))}  BY DEF Append_
<1>4. \A b \in stored' : CheckpointsOf(b) \subseteq Known  BY <1>2, <1>3, StoredKnown
<1> QED BY <1>4, FilesKept

\* A frontier update leaves files and markers alone.
LEMMA FrontierFiles ==
  ASSUME TypeRest, NEW f, store' = [store EXCEPT !.frontier = f]
  PROVE  store'.marker = store.marker /\ store'.synced = store.synced /\ store'.recovery = store.recovery
  BY DEF TypeRest, Stores

\* The steps of the user, the host and others that append a plain entry.
LEMMA PlainAppendCause ==
  ASSUME Inv, CauseInv, Prompt \/ AppendCustom \/ Respond \/ NativeCompaction
  PROVE  CauseKept
<1>0. FileInv /\ TypeRest /\ ControlInv  BY InvParts
<1>1. <<attempt, source>> \in Known \cup {Nobody}  BY AttemptKnown
<1>2. UNCHANGED <<attempt, source, attempts, verified>>
  BY DEF Prompt, AppendCustom, Respond, NativeCompaction, HostUnchanged, hostVars, history
<1>3. CASE NativeCompaction
  <2>1. Append_(Message(NextId, "foreign")) /\ store' = [store EXCEPT !.frontier = FALSE]
    BY <1>3 DEF NativeCompaction
  <2>2. "foreign" \in Kinds \ {"memory"}  BY DEF Kinds
  <2>3. store'.marker = store.marker /\ store'.synced = store.synced /\ store'.recovery = store.recovery
    BY <1>0, <2>1, FrontierFiles
  <2> QED BY <1>0, <1>1, <1>2, <2>1, <2>2, <2>3, MessageStep
<1>4. CASE Prompt \/ AppendCustom \/ Respond
  <2>1. store' = store  BY <1>4 DEF Prompt, AppendCustom, Respond
  <2>2. \/ \E kind \in Kinds \ {"memory"} : Append_(Message(NextId, kind))
        \/ stored' = stored
    BY <1>4 DEF Prompt, AppendCustom, Respond, Kinds, fileVars
  <2>3. CASE \E kind \in Kinds \ {"memory"} : Append_(Message(NextId, kind))
    BY <1>0, <1>1, <1>2, <2>1, <2>3, MessageStep
  <2>4. CASE stored' = stored
    <3>1. \A b \in stored' : CheckpointsOf(b) \subseteq Known  BY <2>4, StoredKnown
    <3> QED BY <1>0, <1>1, <1>2, <2>1, <3>1, FilesKept
  <2> QED BY <2>2, <2>3, <2>4
<1> QED BY <1>3, <1>4

\* The steps that touch neither the store's files nor the session file.
LEMMA PlainCause ==
  ASSUME Inv, CauseInv, Navigate \/ UserAbort \/ HostCancels \/ Edit \/ UNCHANGED vars
  PROVE  CauseKept
<1>0. FileInv /\ TypeRest /\ ControlInv  BY InvParts
<1>1. <<attempt', source'>> \in Known \cup {Nobody} /\ UNCHANGED <<stored, attempts, verified>>
  BY AttemptKnown
     DEF Navigate, UserAbort, HostCancels, Edit, HostUnchanged, hostVars, history, fileVars, vars, EndOfCompact
<1>2. store'.marker = store.marker /\ store'.synced = store.synced /\ store'.recovery = store.recovery
  <2>1. CASE Navigate
    <3>1. store' = [store EXCEPT !.frontier = FALSE]  BY <2>1 DEF Navigate
    <3> QED BY <1>0, <3>1, FrontierFiles
  <2>2. CASE Edit
    <3>1. PICK sameLength \in BOOLEAN : store' = [store EXCEPT !.frontier = store.frontier /\ sameLength]
      BY <2>2 DEF Edit
    <3> QED BY <1>0, <3>1, FrontierFiles
  <2>3. CASE UserAbort \/ HostCancels \/ UNCHANGED vars
    BY <2>3 DEF UserAbort, HostCancels, vars
  <2> QED BY <2>1, <2>2, <2>3
<1>3. \A b \in stored' : CheckpointsOf(b) \subseteq Known  BY <1>1, StoredKnown
<1> QED BY <1>0, <1>1, <1>2, <1>3, FilesKept

\* The checkpoint that Pi appends carries the origin of its attempt.
LEMMA HostAppendCause ==
  ASSUME Inv, CauseInv, HostAppends \/ HostAppendFails
  PROVE  CauseKept
<1>0. FileInv /\ TypeRest /\ ControlInv  BY InvParts
<1>1. /\ UNCHANGED <<store, attempts, verified>> /\ <<attempt', source'>> = <<0, <<>>>>
      /\ phase = "returned"
  BY DEF HostAppends, HostAppendFails, history, EndOfCompact
<1>2. CheckpointsOf(Append(leaf, CheckpointEntry)) \subseteq Known
  <2>1. CheckpointEntry \in Tokens  BY <1>1, CheckpointEntryFacts
  <2>2. <<CheckpointEntry.att, CheckpointEntry.src>> \in Known
    BY DEF CheckpointEntry, Entry, Known
  <2> QED BY <1>0, <2>1, <2>2, AppendKnown
<1>3. CheckpointsOf(Append(leaf, Message(NextId, "foreign"))) \subseteq Known
  <2>1. Message(NextId, "foreign") \in Tokens /\ Message(NextId, "foreign").kind = "foreign"
    BY <1>0, NextIdType, MessageType DEF Kinds
  <2> QED BY <1>0, <2>1, AppendKnown
<1>4. stored' \subseteq stored \cup {Append(leaf, CheckpointEntry), Append(leaf, Message(NextId, "foreign"))}
  BY DEF HostAppends, HostAppendFails, Append_
<1>5. \A b \in stored' : CheckpointsOf(b) \subseteq Known  BY <1>2, <1>3, <1>4, StoredKnown
<1>6. <<attempt', source'>> \in Known \cup {Nobody}  BY <1>1, AttemptKnown
<1> QED BY <1>0, <1>1, <1>5, <1>6, FilesKept

\* What Pi loads names the same attempts and sources.
LEMMA OpenCause ==
  ASSUME Inv, CauseInv, Open
  PROVE  CauseKept
<1>0. FileInv /\ TypeRest /\ ControlInv  BY InvParts
<1>1. UNCHANGED <<store, attempt, source, attempts, verified>> /\ stored' = {OnDisk(b) : b \in stored}
  BY DEF Open, history
<1>2. ASSUME NEW b \in stored PROVE CheckpointsOf(OnDisk(b)) \subseteq Known
  <2>1. b \in Seq(Tokens)  BY <1>0 DEF FileInv
  <2>2. /\ DOMAIN OnDisk(b) = DOMAIN b
        /\ \A i \in DOMAIN b : /\ OnDisk(b)[i].kind = b[i].kind /\ OnDisk(b)[i].att = b[i].att
                               /\ OnDisk(b)[i].src = b[i].src
    BY <2>1, OnDiskType
  <2>3. CheckpointsOf(OnDisk(b)) \subseteq CheckpointsOf(b)  BY <2>2 DEF CheckpointsOf
  <2> QED BY <2>3, StoredKnown
<1>3. \A b \in stored' : CheckpointsOf(b) \subseteq Known  BY <1>1, <1>2
<1> QED BY <1>0, <1>1, <1>3, AttemptKnown, FilesKept

\* A request, a session start or a failed compaction keeps first causes.
LEMMA GuardedCause ==
  ASSUME Inv, CauseInv, Request \/ SessionStart \/ CompactionFailed
  PROVE  CauseKept
<1>0. FileInv /\ TypeRest /\ ControlInv  BY InvParts
<1> DEFINE P == Known \cup {Nobody}
<1>1. Steady(store, verified, P) /\ Nobody \in P  BY SteadyNow
<1>2. UNCHANGED <<stored, attempt, source, attempts, verified>>
  BY DEF Request, SessionStart, CompactionFailed, fileVars, history
<1> HIDE DEF P
<1>3. Steady(store', verified, P) /\ Firm(store, store')
  <2>1. CASE store' = store  BY <1>1, <2>1 DEF Firm
  <2>2. CASE \E c \in guard(leaf, active, RequestErrors) \cup guard(leaf, active, {Ok}) : Becomes(c)
    <3>1. RequestErrors \in SUBSET (Codes \cup {Ok}) /\ {Ok} \in SUBSET (Codes \cup {Ok})
      BY DEF RequestErrors, Codes
    <3>2. PICK errors \in SUBSET (Codes \cup {Ok}) : \E c \in guard(leaf, active, errors) : Becomes(c)
      BY <2>2, <3>1
    <3>3. PICK c \in guard(leaf, active, errors) : Becomes(c)  BY <3>2
    <3>4. Steady(c.s, verified, P) /\ Firm(store, c.s)
      BY <1>0, <1>1, <3>3, GuardSteady DEF TypeRest
    <3> QED BY <3>3, <3>4 DEF Becomes
  <2>3. CASE \E c \in Fail(store, FailureCode) : Becomes(c)
    <3>1. PICK c \in Fail(store, FailureCode) : Becomes(c)  BY <2>3
    <3>2. FailureCode \in Codes  BY <1>0 DEF FailureCode, Codes, TypeRest
    <3>3. store \in Stores  BY <1>0 DEF TypeRest
    <3>4. Steady(c.s, verified, P) /\ Firm(store, c.s)
      BY <1>1, <3>1, <3>2, <3>3, ControllerFailSteady
    <3> QED BY <3>1, <3>4 DEF Becomes
  <2> QED BY <2>1, <2>2, <2>3 DEF Request, SessionStart, CompactionFailed
<1>4. \A b \in stored' : CheckpointsOf(b) \subseteq Known  BY <1>2, StoredKnown
<1>5. <<attempt', source'>> \in Known \cup {Nobody}  BY <1>2, AttemptKnown
<1> QED BY <1>0, <1>2, <1>3, <1>4, <1>5, QuietStep DEF P

\* The writer's answer keeps first causes.
LEMMA WriterReturnsCause ==
  ASSUME Inv, CauseInv, WriterReturns
  PROVE  CauseKept
<1>0. FileInv /\ TypeRest /\ ControlInv  BY InvParts
<1>1. UNCHANGED <<stored, attempts, verified>> /\ phase = "writing"
  BY DEF WriterReturns, fileVars, history
<1> DEFINE P == Known \cup {Nobody}
           A(r) ==
       IF r.err = Ok
         THEN /\ store' = r.s /\ staged' = TRUE /\ phase' = "returned"
              /\ UNCHANGED <<sticky, observed, aborted, attempt, source>>
         ELSE /\ \E c \in Fail(r.s, r.err) : Becomes(c)
              /\ phase' = "failing" /\ aborted' = TRUE
              /\ EndOfCompact /\ UNCHANGED staged
<1>2. PICK outcome \in WriterOutcomes : \E r \in Staged(outcome) : A(r)
  BY DEF WriterReturns
<1>3. PICK r \in Staged(outcome) : A(r)  BY <1>2
<1>4. outcome \in Codes \cup {Ok}  BY DEF WriterOutcomes, Codes
<1>5. Good(store, r)  BY <1>0, <1>4, StagedResults
<1>6. store.synced.att = store.marker.att  BY <1>0, <1>1 DEF ControlInv, WriterRunsOnRecord
<1>7. Steady(store, verified, P) /\ Nobody \in P  BY SteadyNow
<1>8. <<attempt', source'>> \in P
  BY <1>3, AttemptKnown DEF EndOfCompact
<1> HIDE DEF P
<1>9. Steady(r.s, verified, P) /\ Firm(store, r.s)  BY <1>0, <1>4, <1>6, <1>7, StagedSteady
<1>10. Steady(store', verified, P) /\ Firm(store, store')
  <2>1. CASE r.err = Ok  BY <1>3, <1>9, <2>1
  <2>2. CASE r.err # Ok
    <3>1. PICK c \in Fail(r.s, r.err) : Becomes(c)  BY <1>3, <2>2
    <3>2. r.s \in Stores /\ r.err \in Codes  BY <1>5, <2>2 DEF Good
    <3>3. Steady(c.s, verified, P) /\ Firm(r.s, c.s)
      BY <1>7, <1>9, <3>1, <3>2, ControllerFailSteady
    <3> QED BY <1>9, <3>1, <3>3 DEF Becomes, Firm
  <2> QED BY <2>1, <2>2
<1> HIDE DEF A
<1>11. \A b \in stored' : CheckpointsOf(b) \subseteq Known  BY <1>1, StoredKnown
<1> QED BY <1>0, <1>1, <1>8, <1>10, <1>11, QuietStep DEF P

\* Only a fresh attempt, begun by the user's or Pi's compaction, replaces a
\* failure, and it is new to everything that names attempts.
LEMMA BeginCompactionCause ==
  ASSUME Inv, CauseInv, NEW reason, BeginCompaction(reason)
  PROVE  CauseKept
<1>0. FileInv /\ TypeRest /\ ControlInv  BY InvParts
<1>1. UNCHANGED <<stored, verified>> /\ attempts' = attempts + 1
  BY DEF BeginCompaction, fileVars
<1> DEFINE fresh == <<attempts + 1, hashEntries(leaf)>>
           P == Known \cup {Nobody, fresh}
           A(r) == IF r.err = Ok
         THEN /\ store' = r.s /\ observed' = NoCode /\ phase' = "writing"
              /\ attempt' = attempts + 1 /\ source' = hashEntries(leaf) /\ aborted' = FALSE
              /\ UNCHANGED sticky
         ELSE /\ \E c \in Fail(r.s, r.err) : Becomes(c)
              /\ phase' = "failing" /\ aborted' = TRUE
              /\ EndOfCompact
<1>2. PICK queued \in BOOLEAN : \E r \in Begun(reason, queued) : A(r)
  BY DEF BeginCompaction
<1>3. PICK r \in Begun(reason, queued) : A(r)  BY <1>2
<1>4. BegunStore(store, r.s, attempts + 1) /\ r.err \in Codes \cup {Ok}  BY <1>0, BegunResults
<1>5. attempts \in Nat /\ attempts + 1 \in Nat /\ hashEntries(leaf) \in Hash
  BY <1>0, HashType DEF TypeRest, FileInv
<1>6. /\ store.marker.att \in Nat /\ store.marker.att <= attempts
      /\ store.synced.att \in Nat /\ store.synced.att <= attempts
  <2>1. Origin(store.marker) \in Known /\ Origin(store.synced) \in Known  BY DEF Known, Origins
  <2>2. \A p \in Known : p[1] \in Nat /\ p[1] <= attempts
    BY <1>0, KnownType DEF CauseInv, OneSource
  <2>3. Origin(store.marker)[1] = store.marker.att /\ Origin(store.synced)[1] = store.synced.att
    BY DEF Origin
  <2> QED BY <2>1, <2>2, <2>3
<1>7. store.synced.att # attempts + 1 /\ store.marker.att # attempts + 1  BY <1>5, <1>6
<1>8. Steady(store, verified, P) /\ Nobody \in P /\ fresh \in P  BY SteadyNow
<1>9. <<attempt', source'>> \in P
  BY <1>3, AttemptKnown DEF EndOfCompact, Nobody
<1> HIDE DEF P
<1>10. Steady(r.s, verified, P) /\ Renewed(store, r.s, attempts + 1)
  BY <1>0, <1>7, <1>8, BegunSteady
<1>11. Steady(store', verified, P) /\ Renewed(store, store', attempts + 1)
  <2>1. CASE r.err = Ok  BY <1>3, <1>10, <2>1
  <2>2. CASE r.err # Ok
    <3>1. PICK c \in Fail(r.s, r.err) : Becomes(c)  BY <1>3, <2>2
    <3>2. r.s \in Stores /\ r.err \in Codes  BY <1>4, <2>2 DEF BegunStore
    <3>3. Steady(c.s, verified, P) /\ Firm(r.s, c.s)
      BY <1>8, <1>10, <3>1, <3>2, ControllerFailSteady
    <3>4. Preserves(r.s, c.s)  BY <3>1, <3>2, ControllerFail DEF GoodControl
    <3>5. Renewed(store, c.s, attempts + 1)
      BY <1>10, <3>3, <3>4 DEF Renewed, Firm, Shows, Preserves
    <3> QED BY <3>1, <3>3, <3>5 DEF Becomes
  <2> QED BY <2>1, <2>2
<1> HIDE DEF A
<1>12. Known' \subseteq Known \cup {Nobody, fresh}
  <2>1. Known' = Origins(store') \cup {<<attempt', source'>>} \cup UNION {CheckpointsOf(b) : b \in stored'}
    BY DEF Known, CheckpointsOf, Origins, Origin
  <2>2. Origins(store') \subseteq P  BY <1>11 DEF Steady
  <2>3. UNION {CheckpointsOf(b) : b \in stored'} \subseteq Known  BY <1>1, StoredKnown
  <2> QED BY <1>9, <2>1, <2>2, <2>3 DEF P
<1>13. OneSource'
  BY <1>0, <1>1, <1>5, <1>12, OneSourceKept DEF CauseInv
<1>14. CauseInv'  BY <1>1, <1>11, <1>13 DEF Steady, CauseInv, Causes
<1>15. FirstCauseStep  BY <1>7, <1>11 DEF Renewed, Firm, Shows, FirstCauseStep
<1> QED BY <1>1, <1>14, <1>15 DEF CauseKept, ReadBackStep

\* A crash may bring the durable marker back: with the same cause, or it is
\* another attempt's.
LEMMA CrashCause ==
  ASSUME Inv, CauseInv, Crash
  PROVE  CauseKept
<1>0. FileInv /\ TypeRest /\ ControlInv  BY InvParts
<1>1. UNCHANGED <<stored, attempts, verified>> /\ attempt' = 0 /\ source' = <<>>
  BY DEF Crash, fileVars, EndOfCompact, history
<1>2. PICK m \in {store.marker, store.synced} : store' = FreshStore(m)  BY DEF Crash
<1>3. store'.marker = m /\ store'.synced = m /\ store'.recovery = NoMarker
  BY <1>2 DEF FreshStore
<1>4. Known' \subseteq Known \cup {Nobody}
  <2>1. Known' = Origins(store') \cup {<<attempt', source'>>} \cup UNION {CheckpointsOf(b) : b \in stored'}
    BY DEF Known, CheckpointsOf, Origins, Origin
  <2>2. Origins(store') \subseteq Known \cup {Nobody}
    BY <1>2, <1>3, OriginFacts DEF Origins, Known
  <2>3. UNION {CheckpointsOf(b) : b \in stored'} \subseteq Known  BY <1>1, StoredKnown
  <2> QED BY <1>1, <2>1, <2>2, <2>3 DEF Nobody
<1>5. OneSource'
  <2>1. <<>> \in Hash  BY EmptySeq DEF Hash
  <2> QED BY <1>0, <1>1, <1>4, <2>1, OneSourceKept DEF CauseInv
<1>6. CauseInv'  BY <1>3, <1>5 DEF CauseInv, Causes
<1>7. FirstCauseStep
  <2>1. CASE m = store.marker  BY <1>3, <2>1 DEF FirstCauseStep
  <2>2. CASE m = store.synced
    BY <1>1, <1>3, <2>2 DEF FirstCauseStep, CauseInv, Causes
  <2> QED BY <1>2, <2>1, <2>2
<1> QED BY <1>1, <1>6, <1>7 DEF CauseKept, ReadBackStep

\* A branch whose hash on disk is its hash in memory is the same on disk.
LEMMA SameByHash ==
  ASSUME NEW b \in Seq(Tokens), hashEntries(OnDisk(b)) = hashEntries(b)
  PROVE  OnDisk(b) = b
<1>1. DOMAIN OnDisk(b) = DOMAIN b  BY OnDiskType
<1>2. ASSUME NEW i \in DOMAIN b PROVE OnDisk(b)[i] = b[i]
  <2>1. b[i] \in Tokens  BY TokenField
  <2>2. OnDisk(b)[i] = IF b[i].id \in edited THEN [b[i] EXCEPT !.rev = 1] ELSE b[i]  BY DEF OnDisk
  <2>3. hashEntries(OnDisk(b))[i] = hashEntries(b)[i]  OBVIOUS
  <2>4. <<OnDisk(b)[i].id, OnDisk(b)[i].rev>> = <<b[i].id, b[i].rev>>
    BY <1>1, <2>3 DEF hashEntries
  <2>5. OnDisk(b)[i].rev = b[i].rev  BY <2>4
  <2>6. CASE b[i].id \in edited
    <3>1. OnDisk(b)[i] = [b[i] EXCEPT !.rev = 1]  BY <2>2, <2>6
    <3>2. b[i].rev = 1  BY <2>1, <2>5, <3>1 DEF Tokens
    <3> QED BY <2>1, <3>1, <3>2 DEF Tokens
  <2>7. CASE b[i].id \notin edited  BY <2>2, <2>7
  <2> QED BY <2>6, <2>7
<1>3. b = [i \in DOMAIN b |-> b[i]]  BY LenProperties
<1>4. OnDisk(b) = [i \in DOMAIN b |-> OnDisk(b)[i]]  BY DEF OnDisk
<1> QED BY <1>2, <1>3, <1>4

\* A confirmation settles the attempt it has read back; its checkpoint and
\* its marker name one source, the branch below the checkpoint.
LEMMA ConfirmedCause ==
  ASSUME FileInv, TypeRest, CauseInv, NEW ver \in Nat, NEW explicitRecovery,
         verified' = verified \cup ({ver} \ {0}),
         UNCHANGED <<stored, attempt, source, attempts>>,
         Steady(store', verified', Known \cup {Nobody}),
         ver = 0 => Firm(store, store'),
         ver # 0 => ReadBack(store, explicitRecovery, leaf, leaf, OnDisk(leaf), ver)
  PROVE  CauseKept
<1>1. Known' \subseteq Known \cup {Nobody}
  <2>1. Known' = Origins(store') \cup {<<attempt', source'>>} \cup UNION {CheckpointsOf(b) : b \in stored'}
    BY DEF Known, CheckpointsOf, Origins, Origin
  <2>2. UNION {CheckpointsOf(b) : b \in stored'} \subseteq Known  BY StoredKnown
  <2>3. <<attempt', source'>> \in Known \cup {Nobody}  BY AttemptKnown
  <2> QED BY <2>1, <2>2, <2>3 DEF Steady
<1>2. OneSource'
  <2>1. <<>> \in Hash  BY EmptySeq DEF Hash
  <2> QED BY <1>1, <2>1, OneSourceKept DEF CauseInv
<1>3. CauseInv'  BY <1>2 DEF CauseInv, Steady, Causes
<1>4. FirstCauseStep
  <2>1. CASE ver = 0  BY <2>1 DEF FirstCauseStep, Firm
  <2>2. CASE ver # 0
    <3>1. store.marker # NoMarker => store.marker.att = ver  BY <2>2 DEF ReadBack
    <3>2. ver \in verified'  BY <2>2
    <3> QED BY <3>1, <3>2, NoMarkerFacts DEF FirstCauseStep
  <2> QED BY <2>1, <2>2
<1>5. ReadBackStep
  <2> SUFFICES ASSUME NEW a \in verified' \ verified
               PROVE  /\ leaf \in stored /\ Same(leaf)
                      /\ Checkpoint(leaf).kind = "memory" /\ Checkpoint(leaf).att = a
                      /\ Checkpoint(leaf).rev = 0
                      /\ Checkpoint(leaf).src = hashEntries(Sources(leaf))
    BY DEF ReadBackStep
  <2>1. a = ver /\ ver # 0  OBVIOUS
  <2>2. PICK m \in {store.marker, store.recovery} :
          /\ m.att = ver
          /\ Identified(m, explicitRecovery, leaf, leaf)
          /\ ReadbackError(m, leaf, leaf, OnDisk(leaf)) = Ok
    BY <2>1 DEF ReadBack
  <2>3. Checkpoint(leaf).kind = "memory" /\ Checkpoint(leaf).att = ver /\ Checkpoint(leaf).rev = 0
    BY <2>2 DEF Identified, IsCandidate
  <2>4. hashEntries(Sources(OnDisk(leaf))) = m.src /\ hashEntries(OnDisk(leaf)) = hashEntries(leaf)
    BY <2>2 DEF ReadbackError, Ok
  <2>5. OnDisk(leaf) = leaf  BY <2>4, SameByHash DEF FileInv
  <2>6. leaf \in stored /\ leaf # <<>> /\ leaf \in Seq(Tokens)  BY DEF FileInv, MemoryIsStored
  <2>7. Len(leaf) \in DOMAIN leaf  BY <2>6, LenProperties, EmptySeq
  <2>8. <<Checkpoint(leaf).att, Checkpoint(leaf).src>> \in CheckpointsOf(leaf)
    BY <2>3, <2>7 DEF CheckpointsOf, Checkpoint
  <2>9. <<ver, Checkpoint(leaf).src>> \in Known  BY <2>3, <2>6, <2>8, StoredKnown
  <2>10. <<ver, m.src>> \in Known  BY <2>2 DEF Known, Origins, Origin
  <2>11. Checkpoint(leaf).src = m.src
    <3> DEFINE p == <<ver, Checkpoint(leaf).src>>
               q == <<ver, m.src>>
    <3>1. p[1] = ver /\ q[1] = ver /\ p[2] = Checkpoint(leaf).src /\ q[2] = m.src  OBVIOUS
    <3>2. p \in Known /\ q \in Known  BY <2>9, <2>10
    <3> HIDE DEF p, q
    <3> QED BY <2>1, <3>1, <3>2 DEF CauseInv, OneSource
  <2> QED BY <2>1, <2>3, <2>4, <2>5, <2>6, <2>11 DEF Same
<1> QED BY <1>3, <1>4, <1>5 DEF CauseKept

\* session_compact confirms or keeps the first cause.
LEMMA CommittedCause ==
  ASSUME Inv, CauseInv, Committed
  PROVE  CauseKept
<1>0. FileInv /\ TypeRest /\ ControlInv  BY InvParts
<1> DEFINE P == Known \cup {Nobody}
<1>1. UNCHANGED <<stored, attempt, source, attempts>>  BY DEF Committed, fileVars
<1>2. Steady(store, verified, P) /\ Nobody \in P /\ store \in Stores  BY <1>0, SteadyNow DEF TypeRest
<1> HIDE DEF P
<1>3. CASE CommitError # Ok
  <2>1. PICK c \in Fail(store, CommitError) : Becomes(c)  BY <1>3 DEF Committed
  <2>2. CommitError \in Codes  BY <1>3, SessionErrorType DEF CommitError, Codes
  <2>3. Steady(c.s, verified, P) /\ Firm(store, c.s)
    BY <1>2, <2>1, <2>2, ControllerFailSteady
  <2>4. verified' = verified /\ verified' = verified \cup ({0} \ {0})  BY <1>3 DEF Committed
  <2>5. Steady(store', verified', P) /\ Firm(store, store')  BY <2>1, <2>3, <2>4 DEF Becomes
  <2> QED BY <1>0, <1>1, <2>4, <2>5, ConfirmedCause DEF P
<1>4. CASE CommitError = Ok
  <2>1. PICK r \in confirm(store, FALSE, saved, leaf, OnDisk(saved)) : Settle(r)
    BY <1>4 DEF Committed
  <2>2. PICK no \in BOOLEAN : r \in confirm(store, no, saved, leaf, OnDisk(saved))
    BY <2>1
  <2>3. /\ r.s \in Stores /\ r.err \in Codes \cup {Ok} /\ r.ver \in Nat
        /\ r.ver # 0 => ReadBack(store, no, saved, leaf, OnDisk(saved), r.ver)
    BY <1>2, <2>2, Confirm
  <2>4. r.ver # 0 => ReadBack(store, no, leaf, leaf, OnDisk(leaf), r.ver)
    <3> SUFFICES ASSUME r.ver # 0 PROVE ReadBack(store, no, leaf, leaf, OnDisk(leaf), r.ver)  OBVIOUS
    <3>1. leaf = saved  BY <2>3 DEF ReadBack, Identified
    <3> QED BY <2>3, <3>1
  <2>5. verified' = verified \cup ({r.ver} \ {0})  BY <2>1 DEF Settle
  <2>6. Steady(r.s, verified', P) /\ (r.ver = 0 => Firm(store, r.s))
    BY <1>2, <2>2, <2>5, ConfirmSteady
  <2>7. Steady(store', verified', P) /\ (r.ver = 0 => Firm(store, store'))
    <3>1. CASE r.err = Ok  BY <2>1, <2>6, <3>1 DEF Settle
    <3>2. CASE r.err # Ok
      <4>1. PICK c \in Fail(r.s, r.err) : Becomes(c)  BY <2>1, <3>2 DEF Settle
      <4>2. r.err \in Codes  BY <2>3, <3>2
      <4> DEFINE now == verified \cup ({r.ver} \ {0})
      <4>3. Steady(r.s, now, P)  BY <2>5, <2>6
      <4> HIDE DEF now
      <4>4. Steady(c.s, now, P) /\ Firm(r.s, c.s)
        BY <1>2, <2>3, <4>1, <4>2, <4>3, ControllerFailSteady
      <4> QED BY <2>5, <2>6, <4>1, <4>4 DEF Becomes, Firm, now
    <3> QED BY <3>1, <3>2
  <2> QED BY <1>0, <1>1, <2>3, <2>4, <2>5, <2>7, ConfirmedCause DEF P
<1> QED BY <1>3, <1>4

\* recover() confirms or keeps the first cause.
LEMMA RecoverCause ==
  ASSUME Inv, CauseInv, Recover
  PROVE  CauseKept
<1>0. FileInv /\ TypeRest /\ ControlInv  BY InvParts
<1> DEFINE P == Known \cup {Nobody}
<1>1. UNCHANGED <<stored, attempt, source, attempts>>  BY DEF Recover, fileVars, hostVars
<1>2. Steady(store, verified, P) /\ Nobody \in P /\ store \in Stores  BY <1>0, SteadyNow DEF TypeRest
<1>3. CASE ~RecoverAllowed
  <2>1. store' = [store EXCEPT !.frontier = FALSE] /\ verified' = verified
    BY <1>3 DEF Recover
  <2>2. store'.marker = store.marker /\ store'.synced = store.synced /\ store'.recovery = store.recovery
    BY <1>0, <2>1, FrontierFiles
  <2>3. \A b \in stored' : CheckpointsOf(b) \subseteq Known  BY <1>1, StoredKnown
  <2>4. <<attempt', source'>> \in Known \cup {Nobody}  BY <1>1, AttemptKnown
  <2> QED BY <1>0, <1>1, <2>1, <2>2, <2>3, <2>4, FilesKept
<1> HIDE DEF P
<1>4. CASE RecoverAllowed
  <2>1. PICK r \in confirm(store, TRUE, leaf, leaf, OnDisk(leaf)) :
           verified' = verified \cup ({r.ver} \ {0}) /\ store' = r.s
    BY <1>4 DEF Recover
  <2>2. PICK yes \in BOOLEAN : r \in confirm(store, yes, leaf, leaf, OnDisk(leaf))
    BY <2>1
  <2>3. /\ r.ver \in Nat
        /\ r.ver # 0 => ReadBack(store, yes, leaf, leaf, OnDisk(leaf), r.ver)
    BY <1>2, <2>2, Confirm
  <2>4. Steady(r.s, verified', P) /\ (r.ver = 0 => Firm(store, r.s))
    BY <1>2, <2>1, <2>2, ConfirmSteady
  <2> QED BY <1>0, <1>1, <2>1, <2>3, <2>4, ConfirmedCause DEF P
<1> QED BY <1>3, <1>4

\* The strengthening holds initially.
LEMMA InitCause == Init => CauseInv
<1> SUFFICES ASSUME Init PROVE CauseInv  OBVIOUS
<1>1. store.marker = NoMarker /\ store.synced = NoMarker /\ store.recovery = NoMarker
  BY DEF Init, FreshStore
<1>2. CheckpointsOf(FirstTurn) = {}
  BY MessageType DEF CheckpointsOf, FirstTurn, Message, Entry
<1>3. Known \subseteq {Nobody}
  <2>1. Origins(store) = {Nobody}  BY <1>1, OriginFacts DEF Origins
  <2>2. <<attempt, source>> = Nobody  BY DEF Init, Nobody
  <2>3. stored = {FirstTurn}  BY DEF Init
  <2> QED BY <1>2, <2>1, <2>2, <2>3 DEF Known
<1>4. OneSource
  <2>1. Nobody[1] = 0 /\ attempts = 0  BY DEF Nobody, Init
  <2> QED BY <1>3, <2>1 DEF OneSource
<1>5. Causes(store, verified)  BY <1>1, NoMarkerFacts DEF Causes
<1> QED BY <1>4, <1>5 DEF CauseInv

\* Every step keeps the strengthening, first causes and what confirming means.
LEMMA NextCause == Inv /\ CauseInv /\ [Next]_vars => CauseKept
<1> SUFFICES ASSUME Inv, CauseInv, [Next]_vars PROVE CauseKept  OBVIOUS
<1>1. ASSUME NEW reason, BeginCompaction(reason) PROVE CauseKept  BY <1>1, BeginCompactionCause
<1> QED BY <1>1, PlainAppendCause, PlainCause, HostAppendCause, OpenCause, GuardedCause,
           WriterReturnsCause, CrashCause, CommittedCause, RecoverCause DEF Next

\* A durable failure stays the visible one or gives way to a younger attempt
\* that has staged nothing, and one attempt has one source, in the marker file,
\* in the process and in the session file (failure-store.ts recordFailure).
THEOREM CauseInvariance == Spec => []CauseInv
<1>1. Init => Inv /\ CauseInv  BY InitInv, InitCause
<1>2. Inv /\ CauseInv /\ [Next]_vars => (Inv /\ CauseInv)'  BY NextInv, NextCause DEF CauseKept
<1> QED BY <1>1, <1>2, PTL DEF Spec

\* A recorded failure keeps its first cause, also over crashes and over writes
\* that were visible and not yet durable (failure-store.ts recordFailure).
THEOREM FirstCauseSafety == Spec => FirstCauseIsKept
<1>1. Inv /\ CauseInv /\ [Next]_vars =>
        [/\ store.marker.state = "blocked" /\ store'.marker.state = "blocked"
         /\ store.marker.att = store'.marker.att /\ store.marker.att \notin verified'
         => store.marker.code = store'.marker.code]_vars
  BY NextCause DEF CauseKept, FirstCauseStep
<1> QED BY <1>1, Invariance, CauseInvariance, PTL DEF Spec, FirstCauseIsKept

\* Confirming a checkpoint means: it is the leaf, the file holds it and its
\* sources as memory does, and it sits directly on the branch its attempt was
\* begun on (failure-store.ts confirm).
THEOREM ReadBackSafety == Spec => ConfirmedMeansReadBack
<1>1. Inv /\ CauseInv /\ [Next]_vars =>
        [\A a \in verified' \ verified :
           /\ leaf \in stored /\ Same(leaf)
           /\ Checkpoint(leaf).kind = "memory" /\ Checkpoint(leaf).att = a /\ Checkpoint(leaf).rev = 0
           /\ Checkpoint(leaf).src = hashEntries(Sources(leaf))]_vars
  BY NextCause DEF CauseKept, ReadBackStep
<1> QED BY <1>1, Invariance, CauseInvariance, PTL DEF Spec, ConfirmedMeansReadBack
=============================================================================
