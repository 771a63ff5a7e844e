-------------------------- MODULE PreparationProofs ---------------------------
(***************************************************************************)
(* Preparation: paid attempts, the status summary and what checkpoints     *)
(* cover, for any faults, any branch and any number of runs, compactions,  *)
(* cancellations and crashes.                                              *)
(* PreparationInv relates the journal's complete lines to what each        *)
(* process knows of its calls and to where each writer is; CoverageInv     *)
(* says that every checkpoint of a branch, prepared, staged or recorded,   *)
(* accounts for the messages before it.  Typing gives the types, beside    *)
(* both.                                                                   *)
(***************************************************************************)
EXTENDS Preparation, WellFoundedInduction, TLAPS

----------------------------------------------------------------------------
(* The inductive invariant.                                                *)

Phases == {"off", "ready", "reserved", "sent", "written", "failed"}
WriterRec == [phase : Phases, call : Nat, made : Nat, aborted : BOOLEAN]
CallFields == {"purpose", "interval", "settled", "dispatched"}

\* What complete lines say of a call.
HasStart(lines, c) == \E i \in DOMAIN lines : lines[i].line = "start" /\ lines[i].call = c
HasJoined(lines)   == \E i \in DOMAIN lines : lines[i].line = "joined"
NotSent(lines, c)  == \E i \in DOMAIN lines :
  lines[i].line = "settled" /\ lines[i].call = c /\ ~lines[i].dispatched
Prepares(lines, c, interval) == \A i \in DOMAIN lines :
  lines[i].line = "start" /\ lines[i].call = c =>
    lines[i].purpose = "preparation" /\ lines[i].interval = interval
CallsUpTo(x, n) ==
  (x.line = "start" => x.call \in 1..n) /\ (x.line = "settled" => x.call \in 0..n)
Below(lines, n) == \A i \in DOMAIN lines : CallsUpTo(lines[i], n)

\* A load finds the call of a preparation, or nothing it can read.
Kept(lines, c, interval) ==
  Prepares(lines, c, interval) /\ (HasStart(lines, c) \/ HasJoined(lines))

\* What a process knows of a call.
KnowsPreparation(cs, c, interval) ==
  c \in DOMAIN cs /\ cs[c].purpose = "preparation" /\ cs[c].interval = interval
KnowsNotSent(cs, c) == c \in DOMAIN cs /\ cs[c].settled /\ ~cs[c].dispatched

IsSeq(f) == \E S : f \in Seq(S)

Reserved(p) == writer[p].phase = "reserved"

Shapes ==
  /\ IsSeq(file)
  /\ writer \in [Purposes -> WriterRec]
  /\ \A c \in DOMAIN calls : DOMAIN calls[c] = CallFields

\* A call has a number of its own.
Numbered ==
  /\ lastCall \in Nat
  /\ DOMAIN calls \subseteq 1..lastCall
  /\ Below(Lines(file), lastCall)
  /\ \A s \in sent : s.call \in 1..lastCall
  /\ \A p \in Purposes : writer[p].call <= lastCall

\* The requests of preparations are on record.
PaidOnRecord ==
  \A s \in sent : s.run # 0 =>
    /\ Kept(Lines(file), s.call, s.interval)
    /\ KnowsPreparation(calls, s.call, s.interval) \/ gap # "none"

\* The requests of the running preparation's interval are its own.
RunningPays ==
  /\ writer["preparation"].phase # "off" => input # None
  /\ input # None =>
       \A s \in sent : s.run # 0 /\ s.interval = checkpointInterval(input.branch) =>
         s.run = Cardinality(started)

\* A call between its start line and its request.
ReservedIsOpen ==
  /\ \A p \in Purposes : Reserved(p) =>
       /\ writer[p].call \in DOMAIN calls
       /\ \A s \in sent : s.call # writer[p].call
       /\ ~NotSent(Lines(file), writer[p].call)
       /\ ~KnowsNotSent(calls, writer[p].call)
  /\ Reserved("preparation") =>
       /\ Kept(Lines(file), writer["preparation"].call, Interval("preparation"))
       /\ KnowsPreparation(calls, writer["preparation"].call, Interval("preparation"))
  /\ Reserved("preparation") /\ Reserved("compaction") =>
       writer["preparation"].call # writer["compaction"].call

\* No request was sent for a call that counts as not sent, and one with its
\* start line on disk is known.
SentCounts ==
  \A s \in sent :
    /\ ~NotSent(Lines(file), s.call)
    /\ ~KnowsNotSent(calls, s.call)
    /\ HasStart(Lines(file), s.call) => s.call \in DOMAIN calls \/ gap # "none"

PreparationInv ==
  /\ Shapes /\ Numbered /\ PaidOnRecord /\ RunningPays /\ ReservedIsOpen /\ SentCounts
  /\ OnePaidAttemptPerInterval

----------------------------------------------------------------------------
(* The journal's lines.                                                    *)

\* Lines drops a torn last line, and only that.
LEMMA LinesAreLines == ASSUME NEW S, NEW f \in Seq(S) PROVE Lines(f) \in Seq(S)
<1>1. CASE Torn(f)
  <2>1. Lines(f) = SubSeq(f, 1, Len(f) - 1) /\ f # <<>>
    BY <1>1 DEF Lines, Front, Torn
  <2> QED BY <2>1
<1>2. CASE ~Torn(f)
  BY <1>2 DEF Lines
<1> QED BY <1>1, <1>2

\* A line put into the file: a fragment makes no line, and takes the next
\* line with it.
LEMMA PutLine ==
  ASSUME NEW S, NEW f \in Seq(S), NEW x
  PROVE  /\ Put(f, x) \in Seq(S \cup {x, Fragment, Joined})
         /\ x = Fragment => Lines(Put(f, x)) = Lines(f)
         /\ x # Fragment => \/ Lines(Put(f, x)) = Append(Lines(f), x)
                            \/ Lines(Put(f, x)) = Append(Lines(f), Joined)
<1> DEFINE T == S \cup {x, Fragment, Joined}
<1>0. f \in Seq(T) /\ x \in T /\ Fragment \in T /\ Joined \in T
  OBVIOUS
<1>1. Joined # Fragment
  <2>1. Joined.line = "joined" /\ Fragment.line = "fragment"
    BY DEF Joined, Fragment
  <2> QED BY <2>1
<1> HIDE DEF T
<1>2. ASSUME NEW g \in Seq(T), NEW y \in T
      PROVE  /\ Append(g, y) \in Seq(T) /\ g \o <<y>> = Append(g, y)
             /\ (y = Fragment => Lines(Append(g, y)) = g)
             /\ (y # Fragment => Lines(Append(g, y)) = Append(g, y))
  <2> DEFINE h == Append(g, y)
  <2>1. h \in Seq(T) /\ h # <<>> /\ Len(h) = Len(g) + 1 /\ h[Len(h)] = y /\ g \o <<y>> = h
    OBVIOUS
  <2>2. Torn(h) <=> y = Fragment
    BY <2>1 DEF Torn, Last
  <2>3. Front(h) = g
    <3>1. SubSeq(h, 1, Len(h) - 1) = g
      BY <2>1
    <3> QED BY <3>1 DEF Front
  <2> QED BY <2>1, <2>2, <2>3 DEF Lines
<1>3. CASE Torn(f)
  <2>1. Front(f) \in Seq(T) /\ Lines(f) = Front(f)
    BY <1>3, <1>0, LinesAreLines DEF Lines
  <2>2. CASE x = Fragment
    <3>0. Front(f) \o <<Fragment>> = Append(Front(f), Fragment)
      BY <2>1, <1>0, <1>2, Zenon
    <3>1. Put(f, x) = Append(Front(f), Fragment)
      BY <3>0, <1>3, <2>2 DEF Put
    <3>2. Put(f, x) \in Seq(T) /\ Lines(Put(f, x)) = Lines(f)
      BY <3>1, <2>1, <1>0, <1>2, Zenon
    <3> QED BY <3>2, <2>2 DEF T
  <2>3. CASE x # Fragment
    <3>0. Front(f) \o <<Joined>> = Append(Front(f), Joined)
      BY <2>1, <1>0, <1>2, Zenon
    <3>1. Put(f, x) = Append(Front(f), Joined)
      BY <3>0, <1>3, <2>3 DEF Put
    <3>2. Append(Front(f), Joined) \in Seq(T)
          /\ Lines(Append(Front(f), Joined)) = Append(Front(f), Joined)
      BY <2>1, <1>0, <1>1, <1>2, Zenon
    <3>3. Put(f, x) \in Seq(T) /\ Lines(Put(f, x)) = Append(Lines(f), Joined)
      BY <3>1, <3>2, <2>1
    <3> QED BY <3>3, <2>3 DEF T
  <2> QED BY <2>2, <2>3
<1>4. CASE ~Torn(f)
  <2>1. Put(f, x) = Append(f, x) /\ Lines(f) = f
    BY <1>4 DEF Put, Lines
  <2> QED BY <2>1, <1>2, <1>0 DEF T
<1> QED BY <1>3, <1>4

\* What the file says after an append of x: nothing new, x, or a line that
\* does not parse; nothing new only if the append threw.
Grown(l, m, x) == m = l \/ m = Append(l, x) \/ m = Append(l, Joined)

LEMMA AppendGrows ==
  ASSUME NEW f, IsSeq(f), NEW x, x # Fragment, NEW a \in Appends(f, x)
  PROVE  /\ IsSeq(a.file) /\ Grown(Lines(f), Lines(a.file), x)
         /\ a.threw = TRUE \/ (a.threw = FALSE /\ Lines(a.file) # Lines(f))
<1>1. PICK S : f \in Seq(S)
  BY DEF IsSeq
<1>2. /\ Lines(f) \in Seq(S)
      /\ Put(f, x) \in Seq(S \cup {x, Fragment, Joined})
      /\ Put(f, Fragment) \in Seq(S \cup {Fragment, Fragment, Joined})
      /\ Lines(Put(f, Fragment)) = Lines(f)
      /\ Lines(Put(f, x)) = Append(Lines(f), x) \/ Lines(Put(f, x)) = Append(Lines(f), Joined)
  BY <1>1, PutLine, LinesAreLines
<1>3. Append(Lines(f), x) # Lines(f) /\ Append(Lines(f), Joined) # Lines(f)
  <2>1. Len(Append(Lines(f), x)) = Len(Lines(f)) + 1 /\ Len(Append(Lines(f), Joined)) = Len(Lines(f)) + 1
        /\ Len(Lines(f)) \in Nat
    BY <1>2
  <2> QED BY <2>1
<1>4. \/ a.file = Put(f, x) /\ a.threw = FALSE
      \/ a.file \in {f, Put(f, x), Put(f, Fragment)} /\ a.threw = TRUE
  BY DEF Appends
<1>5. IsSeq(Put(f, x)) /\ IsSeq(Put(f, Fragment))
  BY <1>2 DEF IsSeq
<1> QED BY <1>2, <1>3, <1>4, <1>5 DEF Grown

LEMMA CrashKeepsLines ==
  ASSUME NEW f, IsSeq(f), NEW g \in CrashesIn(f)
  PROVE  IsSeq(g) /\ Lines(g) = Lines(f)
<1>1. PICK S : f \in Seq(S)
  BY DEF IsSeq
<1>2. /\ Put(f, Fragment) \in Seq(S \cup {Fragment, Fragment, Joined})
      /\ Lines(Put(f, Fragment)) = Lines(f)
  BY <1>1, PutLine
<1>3. g = f \/ g = Put(f, Fragment)
  BY DEF CrashesIn
<1> QED BY <1>2, <1>3 DEF IsSeq

LEMMA GrownLines ==
  ASSUME NEW l, IsSeq(l), NEW x, NEW m, Grown(l, m, x)
  PROVE  /\ \A i \in DOMAIN l : i \in DOMAIN m /\ m[i] = l[i]
         /\ \A i \in DOMAIN m : i \in DOMAIN l \/ m[i] = x \/ m[i] = Joined
         /\ m # l => \E i \in DOMAIN m : m[i] = x \/ m[i] = Joined
<1>1. PICK S : l \in Seq(S)
  BY DEF IsSeq
<1>2. CASE m = l
  BY <1>2
<1>3. CASE m # l
  <2>0. PICK y \in {x, Joined} : m = Append(l, y)
    BY <1>3 DEF Grown
  <2>1. /\ DOMAIN l = 1..Len(l) /\ DOMAIN m = 1..(Len(l) + 1) /\ Len(l) \in Nat
        /\ \A i \in 1..Len(l) : m[i] = l[i]
        /\ m[Len(l) + 1] = y
    BY <1>1, <2>0
  <2>2. \A i \in 1..(Len(l) + 1) : i \in 1..Len(l) \/ i = Len(l) + 1
    BY <2>1
  <2>3. \A i \in 1..Len(l) : i \in 1..(Len(l) + 1)
    BY <2>1
  <2>4. Len(l) + 1 \in 1..(Len(l) + 1)
    BY <2>1
  <2> QED BY <2>1, <2>2, <2>3, <2>4
<1> QED BY <1>2, <1>3

\* What lines say of a call stays said, and what is new says x.
LEMMA GrownSays ==
  ASSUME NEW l, IsSeq(l), NEW x, NEW m, Grown(l, m, x), NEW c
  PROVE  /\ HasStart(l, c) => HasStart(m, c)
         /\ HasJoined(l) => HasJoined(m)
         /\ HasStart(m, c) => HasStart(l, c) \/ (x.line = "start" /\ x.call = c)
         /\ NotSent(m, c) => NotSent(l, c) \/ (x.line = "settled" /\ x.call = c /\ ~x.dispatched)
<1>1. Joined.line = "joined"
  BY DEF Joined
<1>2. /\ \A i \in DOMAIN l : i \in DOMAIN m /\ m[i] = l[i]
      /\ \A i \in DOMAIN m : i \in DOMAIN l \/ m[i] = x \/ m[i] = Joined
  BY GrownLines
<1>3. HasStart(l, c) => HasStart(m, c)
  BY <1>2 DEF HasStart
<1>4. HasJoined(l) => HasJoined(m)
  BY <1>2 DEF HasJoined
<1>5. HasStart(m, c) => HasStart(l, c) \/ (x.line = "start" /\ x.call = c)
  BY <1>1, <1>2 DEF HasStart
<1>6. NotSent(m, c) => NotSent(l, c) \/ (x.line = "settled" /\ x.call = c /\ ~x.dispatched)
  BY <1>1, <1>2 DEF NotSent
<1> QED BY <1>3, <1>4, <1>5, <1>6

LEMMA GrownPrepares ==
  ASSUME NEW l, IsSeq(l), NEW x, NEW m, Grown(l, m, x), NEW c, NEW interval,
         Prepares(l, c, interval),
         x.line = "start" /\ x.call = c => x.purpose = "preparation" /\ x.interval = interval
  PROVE  Prepares(m, c, interval)
<1>1. Joined.line = "joined"
  BY DEF Joined
<1>2. /\ \A i \in DOMAIN l : i \in DOMAIN m /\ m[i] = l[i]
      /\ \A i \in DOMAIN m : i \in DOMAIN l \/ m[i] = x \/ m[i] = Joined
  BY GrownLines
<1> QED BY <1>1, <1>2 DEF Prepares

LEMMA GrownBelow ==
  ASSUME NEW l, IsSeq(l), NEW x, NEW m, Grown(l, m, x), NEW n \in Nat, NEW k \in Nat, n <= k,
         Below(l, n), CallsUpTo(x, k)
  PROVE  Below(m, k)
<1>1. Joined.line = "joined"
  BY DEF Joined
<1>2. /\ \A i \in DOMAIN l : i \in DOMAIN m /\ m[i] = l[i]
      /\ \A i \in DOMAIN m : i \in DOMAIN l \/ m[i] = x \/ m[i] = Joined
  BY GrownLines
<1>3. (\A c \in 1..n : c \in 1..k) /\ (\A c \in 0..n : c \in 0..k)
  OBVIOUS
<1> QED BY <1>1, <1>2, <1>3 DEF Below, CallsUpTo

\* An append that did not throw wrote the start line, or one that does not parse.
LEMMA GrownStart ==
  ASSUME NEW l, IsSeq(l), NEW x, NEW m, Grown(l, m, x), m # l, x.line = "start"
  PROVE  HasStart(m, x.call) \/ HasJoined(m)
<1>1. Joined.line = "joined"
  BY DEF Joined
<1>2. PICK i \in DOMAIN m : m[i] = x \/ m[i] = Joined
  BY GrownLines
<1> QED BY <1>1, <1>2 DEF HasStart, HasJoined

\* A call with a number above all others is new to the lines.
LEMMA NewCall ==
  ASSUME NEW l, NEW n \in Nat, Below(l, n), NEW c \in Nat, c > n, NEW interval
  PROVE  ~HasStart(l, c) /\ ~NotSent(l, c) /\ Prepares(l, c, interval)
<1>1. c \notin 1..n /\ c \notin 0..n
  OBVIOUS
<1>2. ~HasStart(l, c)
  BY <1>1 DEF HasStart, Below, CallsUpTo
<1>3. ~NotSent(l, c)
  BY <1>1 DEF NotSent, Below, CallsUpTo
<1>4. Prepares(l, c, interval)
  BY <1>1 DEF Prepares, Below, CallsUpTo
<1> QED BY <1>2, <1>3, <1>4

----------------------------------------------------------------------------
(* What a process finds when it loads the journal.                         *)

\* A call's record says what its start line says, and that it was not sent
\* only if a settlement says so.
LEMMA RecordSays ==
  ASSUME NEW lines, NEW c, NEW interval, HasStart(lines, c)
  PROVE  /\ DOMAIN RecordOf(lines, c) = CallFields
         /\ Prepares(lines, c, interval) =>
              RecordOf(lines, c).purpose = "preparation" /\ RecordOf(lines, c).interval = interval
         /\ RecordOf(lines, c).settled /\ ~RecordOf(lines, c).dispatched => NotSent(lines, c)
<1> DEFINE start == CHOOSE i \in DOMAIN lines : lines[i].line = "start" /\ lines[i].call = c
           ends == {i \in DOMAIN lines : lines[i].line = "settled" /\ lines[i].call = c}
           R == RecordOf(lines, c)
<1>1. start \in DOMAIN lines /\ lines[start].line = "start" /\ lines[start].call = c
  BY DEF HasStart
<1>2. DOMAIN R = CallFields /\ R.purpose = lines[start].purpose /\ R.interval = lines[start].interval
  BY DEF RecordOf, CallRecord, CallFields
<1>3. R.settled <=> ends # {}
  BY DEF RecordOf, CallRecord
<1>4. R.dispatched <=> \E i \in ends : lines[i].dispatched
  BY DEF RecordOf, CallRecord
<1>5. Prepares(lines, c, interval) => R.purpose = "preparation" /\ R.interval = interval
  BY <1>1, <1>2 DEF Prepares
<1>6. R.settled /\ ~R.dispatched => NotSent(lines, c)
  BY <1>3, <1>4 DEF NotSent
<1> QED BY <1>2, <1>5, <1>6

LEMMA StartsSay ==
  ASSUME NEW lines, IsSeq(lines), NEW n \in Nat, Below(lines, n)
  PROVE  /\ StartsIn(lines, Len(lines) + 1) \subseteq 1..n
         /\ \A c : c \in StartsIn(lines, Len(lines) + 1) <=> HasStart(lines, c)
<1>1. PICK S : lines \in Seq(S)
  BY DEF IsSeq
<1>2. DOMAIN lines = 1..(Len(lines) + 1 - 1)
  BY <1>1
<1>3. ASSUME NEW c PROVE c \in StartsIn(lines, Len(lines) + 1) <=> HasStart(lines, c)
  BY <1>2 DEF StartsIn, HasStart
<1>4. ASSUME NEW c \in StartsIn(lines, Len(lines) + 1) PROVE c \in 1..n
  BY <1>3 DEF HasStart, Below, CallsUpTo
<1> QED BY <1>3, <1>4

\* A load that reports no gap knows every call with a start line, and none as
\* not sent without a settlement.
LoadKnows(j, lines) ==
  /\ \A c \in DOMAIN j.calls : DOMAIN j.calls[c] = CallFields
  /\ \A c : KnowsNotSent(j.calls, c) => NotSent(lines, c)
  /\ j.gap = "none" =>
       /\ ~HasJoined(lines)
       /\ \A c : HasStart(lines, c) => c \in DOMAIN j.calls
       /\ \A c, interval : HasStart(lines, c) /\ Prepares(lines, c, interval) =>
            KnowsPreparation(j.calls, c, interval)

LEMMA LoadSays ==
  ASSUME NEW f, IsSeq(f), NEW n \in Nat, Below(Lines(f), n), NEW j \in Loads(f)
  PROVE  DOMAIN j.calls \subseteq 1..n /\ LoadKnows(j, Lines(f))
<1> DEFINE lines == Lines(f)
           all == StartsIn(lines, Len(lines) + 1)
<1>1. IsSeq(lines)
  BY LinesAreLines DEF IsSeq
<1>2. all \subseteq 1..n /\ \A c : c \in all <=> HasStart(lines, c)
  BY <1>1, StartsSay
<1>3. CASE j.calls = NoCalls /\ j.gap = "unreadable"
  <2>1. DOMAIN j.calls = {}
    BY <1>3 DEF NoCalls
  <2> QED BY <1>3, <2>1 DEF LoadKnows, KnowsNotSent
<1>4. CASE j.calls = [call \in all |-> RecordOf(lines, call)] /\ j.gap = "none" /\ Readable(lines)
  <2>1. DOMAIN j.calls = all /\ \A c \in all : j.calls[c] = RecordOf(lines, c)
    BY <1>4
  <2>2. ~HasJoined(lines)
    BY <1>4 DEF Readable, HasJoined
  <2> HIDE DEF lines, all
  <2>3. ASSUME NEW c \in all, NEW interval
        PROVE  /\ DOMAIN j.calls[c] = CallFields
               /\ (Prepares(lines, c, interval) => KnowsPreparation(j.calls, c, interval))
               /\ (KnowsNotSent(j.calls, c) => NotSent(lines, c))
    <3>1. HasStart(lines, c)
      BY <1>2
    <3> QED BY <3>1, <2>1, RecordSays DEF KnowsPreparation, KnowsNotSent
  <2>4. \A c : KnowsNotSent(j.calls, c) => NotSent(lines, c)
    BY <2>1, <2>3 DEF KnowsNotSent
  <2>5. \A c \in DOMAIN j.calls : DOMAIN j.calls[c] = CallFields
    BY <2>1, <2>3
  <2>6. \A c, interval : HasStart(lines, c) /\ Prepares(lines, c, interval) =>
          KnowsPreparation(j.calls, c, interval)
    BY <1>2, <2>3
  <2>7. LoadKnows(j, lines)
    BY <1>2, <2>1, <2>2, <2>4, <2>5, <2>6 DEF LoadKnows
  <2> QED BY <2>7, <2>1, <1>2 DEF lines
<1>5. j = Load(f) \/ j = Unreadable
  BY DEF Loads
<1> QED BY <1>3, <1>4, <1>5 DEF Load, Unreadable

----------------------------------------------------------------------------
(* The steps.                                                              *)

LEMMA Purposed == "preparation" \in Purposes /\ "compaction" \in Purposes
BY DEF Purposes

LEMMA Blank ==
  /\ Off \in WriterRec /\ Off.phase = "off" /\ Off.call = 0
  /\ Ready \in WriterRec /\ Ready.phase = "ready" /\ Ready.call = 0
<1>1. Off \in WriterRec /\ Off.phase = "off" /\ Off.call = 0
  BY DEF Off, WriterRec, Phases
<1>2. Ready = [Off EXCEPT !.phase = "ready"] /\ "ready" \in Phases
  BY DEF Ready, Phases
<1>3. ASSUME NEW w \in WriterRec, NEW phase \in Phases
      PROVE  /\ [w EXCEPT !.phase = phase] \in WriterRec
             /\ [w EXCEPT !.phase = phase].phase = phase /\ [w EXCEPT !.phase = phase].call = w.call
  BY DEF WriterRec
<1> QED BY <1>1, <1>2, <1>3

LEMMA Start == Init => PreparationInv
<1> SUFFICES ASSUME Init PROVE PreparationInv
  OBVIOUS
<1>1. file = <<>> /\ calls = NoCalls /\ sent = {} /\ lastCall = 0 /\ input = None
      /\ writer = [p \in Purposes |-> Off]
  BY DEF Init
<1>2. Lines(file) = <<>> /\ file \in Seq({}) /\ DOMAIN Lines(file) = {}
  BY <1>1 DEF Lines, Torn
<1>3. DOMAIN calls = {}
  BY <1>1 DEF NoCalls
<1>4. Off \in WriterRec /\ Off.phase = "off" /\ Off.call = 0
  BY Blank
<1>5. \A p \in Purposes : writer[p] = Off
  BY <1>1
<1>6. Shapes
  BY <1>1, <1>2, <1>3, <1>4 DEF Shapes, IsSeq
<1>7. Numbered
  BY <1>1, <1>2, <1>3, <1>4, <1>5 DEF Numbered, Below
<1>8. PaidOnRecord /\ SentCounts /\ OnePaidAttemptPerInterval
  BY <1>1 DEF PaidOnRecord, SentCounts, OnePaidAttemptPerInterval
<1>9. RunningPays /\ ReservedIsOpen
  BY <1>1, <1>4, <1>5, Purposed DEF RunningPays, ReservedIsOpen, Reserved
<1> QED BY <1>6, <1>7, <1>8, <1>9 DEF PreparationInv

\* A step that leaves the journal alone: it reserves no call, and ends a
\* preparation or goes on with it.
LetsBe ==
  /\ UNCHANGED <<journalVars, started>>
  /\ writer' \in [Purposes -> WriterRec]
  /\ \A p \in Purposes : writer'[p].call <= lastCall
  /\ \A p \in Purposes : writer'[p].phase = "reserved" =>
       writer[p].phase = "reserved" /\ writer'[p].call = writer[p].call
  /\ writer'["preparation"].phase # "off" => writer["preparation"].phase # "off"
  /\ \/ input' = input
     \/ input' = None /\ writer'["preparation"].phase = "off"

LEMMA Beside == PreparationInv /\ LetsBe => PreparationInv'
<1> SUFFICES ASSUME PreparationInv, LetsBe PROVE PreparationInv'
  OBVIOUS
<1>1. file' = file /\ calls' = calls /\ gap' = gap /\ lastCall' = lastCall /\ sent' = sent
      /\ started' = started
  BY DEF LetsBe, journalVars
<1>2. Shapes'
  BY <1>1 DEF PreparationInv, Shapes, LetsBe
<1>3. Numbered'
  BY <1>1 DEF PreparationInv, Numbered, LetsBe
<1>4. PaidOnRecord' /\ SentCounts' /\ OnePaidAttemptPerInterval'
  BY <1>1 DEF PreparationInv, PaidOnRecord, SentCounts, OnePaidAttemptPerInterval
<1>5. RunningPays'
  BY <1>1 DEF PreparationInv, RunningPays, LetsBe
<1>6. ASSUME Reserved("preparation")' PROVE Interval("preparation")' = Interval("preparation")
  BY <1>6 DEF LetsBe, Reserved, Interval
<1>7. ReservedIsOpen'
  BY <1>1, <1>6, Purposed DEF PreparationInv, ReservedIsOpen, Reserved, LetsBe
<1> QED BY <1>2, <1>3, <1>4, <1>5, <1>7 DEF PreparationInv

LEMMA AbortWriter ==
  ASSUME PreparationInv, NEW q \in Purposes
  PROVE  /\ Abort(q) \in [Purposes -> WriterRec]
         /\ \A p \in Purposes : Abort(q)[p].phase = writer[p].phase /\ Abort(q)[p].call = writer[p].call
<1>1. writer \in [Purposes -> WriterRec]
  BY DEF PreparationInv, Shapes
<1>2. (writer[q].phase # "off") \in BOOLEAN
  OBVIOUS
<1> QED BY <1>1, <1>2 DEF Abort, WriterRec

LEMMA ToWriter ==
  ASSUME PreparationInv, NEW q \in Purposes, NEW phase \in Phases
  PROVE  /\ To(q, phase) \in [Purposes -> WriterRec]
         /\ To(q, phase)[q].phase = phase
         /\ \A p \in Purposes : /\ To(q, phase)[p].call = writer[p].call
                                /\ p # q => To(q, phase)[p].phase = writer[p].phase
<1>1. writer \in [Purposes -> WriterRec]
  BY DEF PreparationInv, Shapes
<1> QED BY <1>1 DEF To, WriterRec

LEMMA SetWriter ==
  ASSUME NEW w, w \in [Purposes -> WriterRec], NEW q \in Purposes, NEW r \in {Off, Ready}
  PROVE  /\ [w EXCEPT ![q] = r] \in [Purposes -> WriterRec]
         /\ [w EXCEPT ![q] = r][q].phase = r.phase /\ [w EXCEPT ![q] = r][q].call = 0
         /\ \A p \in Purposes : p # q => [w EXCEPT ![q] = r][p] = w[p]
         /\ r.phase # "reserved"
<1>1. r \in WriterRec /\ r.call = 0 /\ r.phase # "reserved"
  BY Blank
<1> QED BY <1>1

\* The numbers of the writers' calls.
LEMMA Calls ==
  ASSUME PreparationInv
  PROVE  /\ writer \in [Purposes -> WriterRec] /\ lastCall \in Nat /\ 0 <= lastCall
         /\ \A p \in Purposes : writer[p].call <= lastCall
BY DEF PreparationInv, Shapes, Numbered

\* The steps that change no writer, or mark one as aborted.
LEMMA BesideSame ==
  ASSUME PreparationInv, UNCHANGED <<journalVars, started>>, UNCHANGED input,
         UNCHANGED writer \/ (\E q \in Purposes : writer' = Abort(q))
  PROVE  PreparationInv'
<1>1. CASE UNCHANGED writer
  <2>1. LetsBe
    BY <1>1, Calls DEF LetsBe
  <2> QED BY <2>1, Beside
<1>2. CASE \E q \in Purposes : writer' = Abort(q)
  <2>1. PICK q \in Purposes : writer' = Abort(q)
    BY <1>2
  <2>2. LetsBe
    BY <2>1, AbortWriter, Calls, Purposed DEF LetsBe
  <2> QED BY <2>2, Beside
<1> QED BY <1>1, <1>2

LEMMA SessionSteps ==
  PreparationInv /\ (Prompt \/ Reply \/ WorkNote \/ CustomEntry \/ Navigate) => PreparationInv'
<1> SUFFICES ASSUME PreparationInv, Prompt \/ Reply \/ WorkNote \/ CustomEntry \/ Navigate
             PROVE  PreparationInv'
  OBVIOUS
<1>1. UNCHANGED <<journalVars, started>> /\ UNCHANGED input /\ UNCHANGED writer
  BY DEF Prompt, Reply, WorkNote, CustomEntry, Navigate, SessionStep
<1> QED BY <1>1, BesideSame

LEMMA Cancels ==
  PreparationInv /\ (Deadline \/ invalidate \/ BeforeTree \/ UserAborts \/ recover) => PreparationInv'
<1> SUFFICES ASSUME PreparationInv, Deadline \/ invalidate \/ BeforeTree \/ UserAborts \/ recover
             PROVE  PreparationInv'
  OBVIOUS
<1>1. /\ UNCHANGED <<journalVars, started>> /\ UNCHANGED input
      /\ writer' = Abort("preparation") \/ writer' = Abort("compaction")
  BY DEF Deadline, invalidate, BeforeTree, UserAborts, recover, Invalidation, PreparationCommitted
<1> QED BY <1>1, Purposed, BesideSame

LEMMA HostSteps == PreparationInv /\ (HostAppends \/ AppendFails) => PreparationInv'
<1> SUFFICES ASSUME PreparationInv, HostAppends \/ AppendFails PROVE PreparationInv'
  OBVIOUS
<1>1. /\ UNCHANGED <<journalVars, started>> /\ UNCHANGED input
      /\ writer' = Abort("preparation") \/ UNCHANGED writer
  BY DEF HostAppends, AppendFails, PreparationCommitted
<1> QED BY <1>1, Purposed, BesideSame

LEMMA Compacts == PreparationInv /\ (CompactBegins \/ CompactWritten) => PreparationInv'
<1> SUFFICES ASSUME PreparationInv, CompactBegins \/ CompactWritten PROVE PreparationInv'
  OBVIOUS
<1>1. UNCHANGED <<journalVars, started>> /\ UNCHANGED input
  BY DEF CompactBegins, CompactWritten
<1>2. \/ writer' = Abort("preparation")
      \/ writer' = [Abort("preparation") EXCEPT !["compaction"] = Ready]
      \/ writer' = [writer EXCEPT !["compaction"] = Off]
  BY DEF CompactBegins, CompactWritten
<1>3. CASE writer' = Abort("preparation")
  BY <1>1, <1>3, Purposed, BesideSame
<1>4. ASSUME NEW w, w \in [Purposes -> WriterRec], NEW r \in {Off, Ready},
             writer' = [w EXCEPT !["compaction"] = r],
             \A p \in Purposes : w[p].phase = writer[p].phase /\ w[p].call = writer[p].call
      PROVE  PreparationInv'
  <2>1. /\ writer' \in [Purposes -> WriterRec]
        /\ writer'["compaction"].phase # "reserved" /\ writer'["compaction"].call = 0
        /\ \A p \in Purposes : p # "compaction" => writer'[p] = w[p]
    BY <1>4, SetWriter, Purposed
  <2>2. LetsBe
    BY <2>1, <1>1, <1>4, Calls, Purposed DEF LetsBe
  <2> QED BY <2>2, Beside
<1>5. CASE writer' = [Abort("preparation") EXCEPT !["compaction"] = Ready]
  BY <1>4, <1>5, AbortWriter, Purposed
<1>6. CASE writer' = [writer EXCEPT !["compaction"] = Off]
  BY <1>4, <1>6, Calls
<1> QED BY <1>2, <1>3, <1>5, <1>6

\* The run's end takes its snapshot and its writer.
LEMMA Ends == PreparationInv /\ RunEnds => PreparationInv'
<1> SUFFICES ASSUME PreparationInv, RunEnds PROVE PreparationInv'
  OBVIOUS
<1>1. /\ UNCHANGED <<journalVars, started>> /\ input' = None
      /\ writer' = [writer EXCEPT !["preparation"] = Off]
  BY DEF RunEnds
<1>2. Off.phase = "off" /\ Off \in {Off, Ready}
  BY Blank
<1>3. /\ writer' \in [Purposes -> WriterRec]
      /\ writer'["preparation"].phase = "off" /\ writer'["preparation"].call = 0
      /\ \A p \in Purposes : p # "preparation" => writer'[p] = writer[p]
  BY <1>1, <1>2, SetWriter, Purposed, Calls
<1>4. LetsBe
  BY <1>1, <1>3, Calls DEF LetsBe
<1> QED BY <1>4, Beside

\* A run starts only for an interval no paid request is on record for.
LEMMA PrepareKeeps == PreparationInv /\ prepare => PreparationInv'
<1> SUFFICES ASSUME PreparationInv, prepare PROVE PreparationInv'
  OBVIOUS
<1> DEFINE interval == checkpointInterval(branch)
<1>1. /\ UNCHANGED journalVars /\ gap = "none" /\ ~preparedIn(calls, interval)
      /\ input' = freezePreparationInput(branch, epoch)
      /\ writer' = [writer EXCEPT !["preparation"] = Ready]
  BY DEF prepare, mayStart, writable
<1>2. file' = file /\ calls' = calls /\ gap' = gap /\ lastCall' = lastCall /\ sent' = sent
  BY <1>1 DEF journalVars
<1>3. /\ writer' \in [Purposes -> WriterRec]
      /\ writer'["preparation"].phase = "ready" /\ writer'["preparation"].call = 0
      /\ \A p \in Purposes : p # "preparation" => writer'[p] = writer[p]
  BY <1>1, Blank, SetWriter, Purposed, Calls
<1>4. input'.branch = branch /\ input' # None
  <2>1. DOMAIN None = {"none"} /\ "branch" \in DOMAIN freezePreparationInput(branch, epoch)
    BY DEF None, freezePreparationInput
  <2>2. freezePreparationInput(branch, epoch).branch = branch
    BY DEF freezePreparationInput
  <2> QED BY <1>1, <2>1, <2>2
<1> HIDE DEF interval
<1>5. \A s \in sent : s.run # 0 => s.interval # interval
  BY <1>1 DEF PreparationInv, PaidOnRecord, KnowsPreparation, preparedIn
<1>6. Shapes'
  BY <1>2, <1>3 DEF PreparationInv, Shapes
<1>7. Numbered'
  BY <1>2, <1>3, Calls DEF PreparationInv, Numbered
<1>8. PaidOnRecord' /\ SentCounts' /\ OnePaidAttemptPerInterval'
  BY <1>2 DEF PreparationInv, PaidOnRecord, SentCounts, OnePaidAttemptPerInterval
<1>9. RunningPays'
  BY <1>2, <1>4, <1>5 DEF RunningPays, interval
<1>10. ReservedIsOpen'
  BY <1>2, <1>3, Purposed DEF PreparationInv, ReservedIsOpen, Reserved
<1> QED BY <1>6, <1>7, <1>8, <1>9, <1>10 DEF PreparationInv

\* A writer that moves on without a call.
LEMMA Moves ==
  ASSUME PreparationInv, NEW p \in Purposes, NEW phase \in Phases \ {"off", "reserved"},
         writer[p].phase # "off", writer' = To(p, phase),
         UNCHANGED journalVars, UNCHANGED input, UNCHANGED started
  PROVE  PreparationInv'
<1>0. phase \in Phases /\ phase # "reserved"
  OBVIOUS
<1>1. /\ writer' \in [Purposes -> WriterRec] /\ writer'[p].phase = phase
      /\ \A q \in Purposes : writer'[q].call = writer[q].call
      /\ \A q \in Purposes : q # p => writer'[q].phase = writer[q].phase
  BY <1>0, ToWriter
<1>2. UNCHANGED <<journalVars, started>>
  OBVIOUS
<1>3. LetsBe
  BY <1>0, <1>1, <1>2, Calls, Purposed DEF LetsBe
<1> QED BY <1>3, Beside

LEMMA WriterFailsKeeps ==
  ASSUME PreparationInv, NEW p \in Purposes, WriterFails(p) PROVE PreparationInv'
<1>1. /\ writer[p].phase # "off" /\ writer' = To(p, "failed") /\ "failed" \in Phases \ {"off", "reserved"}
      /\ UNCHANGED journalVars /\ UNCHANGED input /\ UNCHANGED started
  BY DEF WriterFails, CallUnchanged, Phases
<1> QED BY <1>1, Moves

\* Two writers never stand before the request of the same call.
LEMMA Apart ==
  ASSUME PreparationInv, NEW p \in Purposes, NEW q \in Purposes, p # q, Reserved(p), Reserved(q)
  PROVE  writer[p].call # writer[q].call
BY DEF PreparationInv, ReservedIsOpen, Purposes

\* The request of a reserved call goes out.
LEMMA Dispatches ==
  ASSUME PreparationInv, NEW p \in Purposes, Dispatch(p) PROVE PreparationInv'
<1> DEFINE c == writer[p].call
           request == [call |-> c, run |-> RunOf(p), interval |-> Interval(p)]
<1>1. /\ Reserved(p) /\ writer' = To(p, "sent") /\ sent' = sent \cup {request}
      /\ file' = file /\ calls' = calls /\ gap' = gap /\ lastCall' = lastCall
      /\ input' = input /\ started' = started
  BY DEF Dispatch, CallUnchanged, Reserved
<1>2. request.call = c /\ request.run = RunOf(p) /\ request.interval = Interval(p)
  OBVIOUS
<1>3. /\ writer' \in [Purposes -> WriterRec] /\ writer'[p].phase = "sent"
      /\ \A q \in Purposes : writer'[q].call = writer[q].call
      /\ \A q \in Purposes : q # p => writer'[q].phase = writer[q].phase
  BY <1>1, ToWriter DEF Phases
<1>4. /\ c \in DOMAIN calls /\ c \in 1..lastCall
      /\ ~NotSent(Lines(file), c) /\ ~KnowsNotSent(calls, c)
      /\ \A s \in sent : s.call # c
  BY <1>1 DEF PreparationInv, ReservedIsOpen, Numbered
<1>5. ASSUME RunOf(p) # 0
      PROVE  /\ p = "preparation" /\ input # None
             /\ Interval(p) = checkpointInterval(input.branch) /\ RunOf(p) = Cardinality(started)
             /\ Kept(Lines(file), c, Interval(p)) /\ KnowsPreparation(calls, c, Interval(p))
  <2>1. p = "preparation" /\ RunOf(p) = Cardinality(started)
    BY <1>5 DEF RunOf
  <2>2. writer[p].phase # "off"
    BY <1>1 DEF Reserved
  <2> QED BY <2>1, <2>2, <1>1 DEF PreparationInv, RunningPays, ReservedIsOpen, Interval
<1> HIDE DEF request, c
<1>6. Shapes'
  BY <1>1, <1>3 DEF PreparationInv, Shapes
<1>7. Numbered'
  BY <1>1, <1>2, <1>3, <1>4 DEF PreparationInv, Numbered
<1>8. PaidOnRecord'
  BY <1>1, <1>2, <1>5 DEF PreparationInv, PaidOnRecord
<1>9. RunningPays'
  <2>1. writer'["preparation"].phase # "off" => input' # None
    <3>1. writer'["preparation"].phase # "off" => writer["preparation"].phase # "off"
      BY <1>1, <1>3, Purposed DEF Reserved
    <3> QED BY <3>1, <1>1 DEF PreparationInv, RunningPays
  <2> QED BY <2>1, <1>1, <1>2, <1>5 DEF PreparationInv, RunningPays
<1>10. ReservedIsOpen'
  <2>1. ASSUME NEW q \in Purposes, Reserved(q)' PROVE q # p /\ Reserved(q) /\ writer[q].call # c
    <3>1. q # p /\ Reserved(q)
      BY <2>1, <1>3 DEF Reserved
    <3> QED BY <3>1, <1>1, Apart DEF c
  <2>2. Interval("preparation")' = Interval("preparation")
    BY <1>1 DEF Interval
  <2>3. \A q \in Purposes : Reserved(q)' =>
         /\ writer'[q].call \in DOMAIN calls'
         /\ \A s \in sent' : s.call # writer'[q].call
         /\ ~NotSent(Lines(file'), writer'[q].call)
         /\ ~KnowsNotSent(calls', writer'[q].call)
    BY <2>1, <1>1, <1>2, <1>3 DEF PreparationInv, ReservedIsOpen
  <2>4. Reserved("preparation")' =>
       /\ Kept(Lines(file'), writer'["preparation"].call, Interval("preparation"))
       /\ KnowsPreparation(calls', writer'["preparation"].call, Interval("preparation"))
    BY <2>1, <1>1, <1>3, Purposed DEF PreparationInv, ReservedIsOpen
  <2>5. ~(Reserved("preparation")' /\ Reserved("compaction")')
    BY <2>1 DEF Purposes
  <2> QED BY <2>2, <2>3, <2>4, <2>5 DEF ReservedIsOpen
<1>11. SentCounts'
  BY <1>1, <1>2, <1>4 DEF PreparationInv, SentCounts
<1>12. OnePaidAttemptPerInterval'
  <2>1. ASSUME NEW s \in sent, s.run # 0, RunOf(p) # 0, s.interval = Interval(p)
        PROVE  s.run = RunOf(p)
    BY <2>1, <1>5 DEF PreparationInv, RunningPays
  <2> QED BY <2>1, <1>1, <1>2 DEF PreparationInv, OnePaidAttemptPerInterval
<1> QED BY <1>6, <1>7, <1>8, <1>9, <1>10, <1>11, <1>12 DEF PreparationInv

\* What a start line says, and what a call's first record says.
LEMMA StartLineSays ==
  ASSUME NEW c, NEW p, NEW interval
  PROVE  /\ StartLine(c, p, interval) # Fragment
         /\ StartLine(c, p, interval).line = "start" /\ StartLine(c, p, interval).call = c
         /\ StartLine(c, p, interval).purpose = p /\ StartLine(c, p, interval).interval = interval
<1>1. Fragment.line = "fragment" /\ StartLine(c, p, interval).line = "start"
  BY DEF Fragment, StartLine
<1> QED BY <1>1 DEF StartLine

LEMMA FirstRecord ==
  ASSUME NEW p, NEW interval
  PROVE  /\ DOMAIN CallRecord(p, interval) = CallFields
         /\ CallRecord(p, interval).purpose = p /\ CallRecord(p, interval).interval = interval
         /\ ~CallRecord(p, interval).settled
BY DEF CallRecord, CallFields

\* The calls known after one more is reserved.
Extends(cs, ds, c, record) ==
  /\ DOMAIN ds \subseteq DOMAIN cs \cup {c} /\ DOMAIN cs \subseteq DOMAIN ds
  /\ \A d \in DOMAIN cs : ds[d] = cs[d]
  /\ c \in DOMAIN ds => ds[c] = record

LEMMA AddCall ==
  ASSUME NEW cs, NEW c, c \notin DOMAIN cs, NEW p, NEW interval
  PROVE  /\ Extends(cs, Reserve(cs, c, p, interval), c, CallRecord(p, interval))
         /\ c \in DOMAIN Reserve(cs, c, p, interval)
<1>1. /\ DOMAIN Reserve(cs, c, p, interval) = DOMAIN cs \cup {c}
      /\ \A d \in DOMAIN cs \cup {c} : Reserve(cs, c, p, interval)[d] =
           IF d = c THEN CallRecord(p, interval) ELSE cs[d]
  BY DEF Reserve
<1> QED BY <1>1 DEF Extends

LEMMA ReserveWriter ==
  ASSUME PreparationInv, NEW p \in Purposes, NEW c \in Nat,
         writer' = [writer EXCEPT ![p] =
                      [writer[p] EXCEPT !.phase = "reserved", !.call = c, !.made = writer[p].made + 1]]
  PROVE  /\ writer' \in [Purposes -> WriterRec]
         /\ writer'[p].phase = "reserved" /\ writer'[p].call = c
         /\ \A q \in Purposes : q # p => writer'[q] = writer[q]
<1>1. writer \in [Purposes -> WriterRec]
  BY DEF PreparationInv, Shapes
<1>3. ASSUME NEW w \in WriterRec, NEW n \in Nat
      PROVE  /\ [w EXCEPT !.phase = "reserved", !.call = c, !.made = n] \in WriterRec
             /\ [w EXCEPT !.phase = "reserved", !.call = c, !.made = n].phase = "reserved"
             /\ [w EXCEPT !.phase = "reserved", !.call = c, !.made = n].call = c
  BY DEF WriterRec, Phases
<1>4. writer[p] \in WriterRec /\ writer[p].made + 1 \in Nat
  BY <1>1 DEF WriterRec
<1> QED BY <1>1, <1>3, <1>4

\* What a step leaves that appends a call's start line: the call is reserved,
\* or its writer failed.
StartAppended(p) ==
  LET c == lastCall + 1
      x == StartLine(c, p, Interval(p))
  IN /\ IsSeq(file') /\ Grown(Lines(file), Lines(file'), x)
     /\ gap' = gap \/ gap' = "unwritable"
     /\ lastCall' = c /\ sent' = sent /\ input' = input /\ started' = started
     /\ Extends(calls, calls', c, CallRecord(p, Interval(p)))
     /\ writer[p].phase # "off"
     /\ writer' \in [Purposes -> WriterRec] /\ writer'[p].phase # "off" /\ writer'[p].call <= c
     /\ \A q \in Purposes : q # p => writer'[q] = writer[q]
     /\ writer'[p].phase = "reserved" =>
          /\ writer'[p].call = c /\ c \in DOMAIN calls'
          /\ p = "preparation" => Lines(file') # Lines(file)

LEMMA StartNumbers ==
  ASSUME PreparationInv, NEW p \in Purposes, StartAppended(p)
  PROVE  /\ lastCall + 1 \in Nat /\ lastCall + 1 > lastCall /\ IsSeq(Lines(file))
         /\ Below(Lines(file), lastCall)
         /\ \A s \in sent : s.call # lastCall + 1
         /\ \A c \in DOMAIN calls : c # lastCall + 1
         /\ \A q \in Purposes : writer[q].call # lastCall + 1
<1>1. /\ lastCall \in Nat /\ Below(Lines(file), lastCall) /\ DOMAIN calls \subseteq 1..lastCall
      /\ \A s \in sent : s.call \in 1..lastCall
      /\ \A q \in Purposes : writer[q].call <= lastCall /\ writer[q].call \in Nat
  BY DEF PreparationInv, Numbered, Shapes, WriterRec
<1>2. IsSeq(Lines(file))
  BY LinesAreLines DEF PreparationInv, Shapes, IsSeq
<1> QED BY <1>1, <1>2

\* What other calls' lines and records say stays as it is.
LEMMA StartOthers ==
  ASSUME PreparationInv, NEW p \in Purposes, StartAppended(p), NEW c, c # lastCall + 1, NEW interval
  PROVE  /\ Kept(Lines(file), c, interval) => Kept(Lines(file'), c, interval)
         /\ HasStart(Lines(file'), c) => HasStart(Lines(file), c)
         /\ NotSent(Lines(file'), c) => NotSent(Lines(file), c)
         /\ c \in DOMAIN calls => c \in DOMAIN calls' /\ calls'[c] = calls[c]
         /\ KnowsPreparation(calls, c, interval) => KnowsPreparation(calls', c, interval)
         /\ KnowsNotSent(calls', c) => KnowsNotSent(calls, c)
<1> DEFINE x == StartLine(lastCall + 1, p, Interval(p))
           l == Lines(file)
           m == Lines(file')
<1>1. x.line = "start" /\ x.call = lastCall + 1
  BY StartLineSays
<1>2. IsSeq(l) /\ Grown(l, m, x)
  BY StartNumbers DEF StartAppended
<1> HIDE DEF x, l, m
<1>3. Prepares(l, c, interval) => Prepares(m, c, interval)
  BY <1>1, <1>2, GrownPrepares
<1>4. /\ HasStart(l, c) => HasStart(m, c)
      /\ HasJoined(l) => HasJoined(m)
      /\ HasStart(m, c) => HasStart(l, c) \/ (x.line = "start" /\ x.call = c)
      /\ NotSent(m, c) => NotSent(l, c) \/ (x.line = "settled" /\ x.call = c /\ ~x.dispatched)
  BY <1>2, GrownSays
<1>5. Kept(l, c, interval) => Kept(m, c, interval)
  BY <1>3, <1>4 DEF Kept
<1>6. /\ HasStart(m, c) => HasStart(l, c)
      /\ NotSent(m, c) => NotSent(l, c)
  BY <1>1, <1>4
<1>7. /\ c \in DOMAIN calls => c \in DOMAIN calls' /\ calls'[c] = calls[c]
      /\ c \in DOMAIN calls' => c \in DOMAIN calls
  BY DEF StartAppended, Extends
<1>8. /\ KnowsPreparation(calls, c, interval) => KnowsPreparation(calls', c, interval)
      /\ KnowsNotSent(calls', c) => KnowsNotSent(calls, c)
  BY <1>7 DEF KnowsPreparation, KnowsNotSent
<1> QED BY <1>5, <1>6, <1>7, <1>8 DEF l, m

\* What they say of the new one.
LEMMA StartNew ==
  ASSUME PreparationInv, NEW p \in Purposes, StartAppended(p), writer'[p].phase = "reserved"
  PROVE  /\ ~NotSent(Lines(file'), lastCall + 1) /\ ~KnowsNotSent(calls', lastCall + 1)
         /\ p = "preparation" =>
              /\ Kept(Lines(file'), lastCall + 1, Interval(p))
              /\ KnowsPreparation(calls', lastCall + 1, Interval(p))
<1> DEFINE c == lastCall + 1
           x == StartLine(c, p, Interval(p))
           l == Lines(file)
           m == Lines(file')
<1>1. x.line = "start" /\ x.call = c /\ x.purpose = p /\ x.interval = Interval(p)
  BY StartLineSays
<1>2. IsSeq(l) /\ Grown(l, m, x) /\ Below(l, lastCall) /\ lastCall \in Nat /\ c \in Nat /\ c > lastCall
  BY StartNumbers, Calls DEF StartAppended
<1>3. c \in DOMAIN calls' /\ calls'[c] = CallRecord(p, Interval(p)) /\ (p = "preparation" => m # l)
  BY DEF StartAppended, Extends
<1> HIDE DEF c, x, l, m
<1>4. ~NotSent(l, c) /\ Prepares(l, c, Interval(p))
  BY <1>2, NewCall
<1>5. ~NotSent(m, c)
  <2>1. NotSent(m, c) => NotSent(l, c) \/ (x.line = "settled" /\ x.call = c /\ ~x.dispatched)
    BY <1>2, GrownSays
  <2> QED BY <2>1, <1>1, <1>4
<1>6. ~KnowsNotSent(calls', c)
  BY <1>3, FirstRecord DEF KnowsNotSent
<1>7. ASSUME p = "preparation" PROVE Kept(m, c, Interval(p)) /\ KnowsPreparation(calls', c, Interval(p))
  <2>1. Prepares(m, c, Interval(p))
    BY <1>1, <1>2, <1>4, <1>7, GrownPrepares
  <2>2. HasStart(m, c) \/ HasJoined(m)
    BY <1>1, <1>2, <1>3, <1>7, GrownStart
  <2>3. KnowsPreparation(calls', c, Interval(p))
    BY <1>3, <1>7, FirstRecord DEF KnowsPreparation
  <2> QED BY <2>1, <2>2, <2>3 DEF Kept
<1> QED BY <1>5, <1>6, <1>7 DEF c, m

LEMMA StartKeeps ==
  ASSUME PreparationInv, NEW p \in Purposes, StartAppended(p) PROVE PreparationInv'
<1> DEFINE c == lastCall + 1
           x == StartLine(c, p, Interval(p))
<1>1. /\ IsSeq(file') /\ Grown(Lines(file), Lines(file'), x)
      /\ gap' = gap \/ gap' = "unwritable"
      /\ lastCall' = c /\ sent' = sent /\ input' = input /\ started' = started
      /\ writer \in [Purposes -> WriterRec]
      /\ writer' \in [Purposes -> WriterRec] /\ writer'[p].call <= c
      /\ writer[p].phase # "off"
      /\ \A q \in Purposes : q # p => writer'[q] = writer[q]
  BY Calls DEF StartAppended
<1>2. /\ c \in Nat /\ c > lastCall /\ lastCall \in Nat /\ IsSeq(Lines(file)) /\ Below(Lines(file), lastCall)
      /\ \A s \in sent : s.call # c
      /\ \A q \in Purposes : writer[q].call # c
  BY StartNumbers, Calls
<1>3. gap # "none" => gap' # "none"
  BY <1>1
<1>4. Shapes'
  <2>1. \A d \in DOMAIN calls' : DOMAIN calls'[d] = CallFields
    BY FirstRecord DEF PreparationInv, Shapes, StartAppended, Extends
  <2> QED BY <2>1, <1>1 DEF Shapes
<1>5. Numbered'
  <2>1. c \in 1..c /\ \A d \in 1..lastCall : d \in 1..c
    BY <1>2
  <2>2. DOMAIN calls' \subseteq 1..c
    BY <2>1 DEF PreparationInv, Numbered, StartAppended, Extends
  <2>3. CallsUpTo(x, c)
    BY <2>1, StartLineSays DEF CallsUpTo
  <2>4. Below(Lines(file'), c)
    <3> HIDE DEF x, c
    <3>1. lastCall <= c
      BY <1>2
    <3> QED BY <3>1, <1>1, <1>2, <2>3, GrownBelow
  <2>5. \A q \in Purposes : writer'[q].call <= c
    <3> SUFFICES ASSUME NEW q \in Purposes PROVE writer'[q].call <= c
      OBVIOUS
    <3>1. writer[q].call <= lastCall /\ writer[q].call \in Nat
      BY Calls DEF WriterRec
    <3> QED BY <3>1, <1>1, <1>2
  <2> QED BY <1>1, <1>2, <2>1, <2>2, <2>4, <2>5 DEF PreparationInv, Numbered
<1> HIDE DEF x
<1>6. PaidOnRecord'
  <2> SUFFICES ASSUME NEW s \in sent, s.run # 0
               PROVE  /\ Kept(Lines(file'), s.call, s.interval)
                      /\ KnowsPreparation(calls', s.call, s.interval) \/ gap' # "none"
    BY <1>1 DEF PaidOnRecord
  <2> QED BY <1>2, <1>3, StartOthers DEF PreparationInv, PaidOnRecord
<1>7. RunningPays'
  <2>1. writer'["preparation"].phase # "off" => writer["preparation"].phase # "off"
    BY <1>1, Purposed
  <2> QED BY <2>1, <1>1 DEF PreparationInv, RunningPays
<1>8. SentCounts'
  <2> SUFFICES ASSUME NEW s \in sent
               PROVE  /\ ~NotSent(Lines(file'), s.call)
                      /\ ~KnowsNotSent(calls', s.call)
                      /\ HasStart(Lines(file'), s.call) => s.call \in DOMAIN calls' \/ gap' # "none"
    BY <1>1 DEF SentCounts
  <2> QED BY <1>2, <1>3, StartOthers DEF PreparationInv, SentCounts
<1>9. ReservedIsOpen'
  <2>0. Interval("preparation")' = Interval("preparation")
    BY <1>1 DEF Interval
  <2>1. ASSUME NEW q \in Purposes, q # p, Reserved(q)'
        PROVE  /\ Reserved(q) /\ writer'[q].call = writer[q].call /\ writer[q].call # c
               /\ writer[q].call \in DOMAIN calls'
               /\ \A s \in sent : s.call # writer[q].call
               /\ ~NotSent(Lines(file'), writer[q].call)
               /\ ~KnowsNotSent(calls', writer[q].call)
               /\ q = "preparation" =>
                    /\ Kept(Lines(file'), writer[q].call, Interval("preparation"))
                    /\ KnowsPreparation(calls', writer[q].call, Interval("preparation"))
    <3>1. Reserved(q) /\ writer'[q].call = writer[q].call /\ writer[q].call # c
      BY <1>1, <1>2, <2>1 DEF Reserved
    <3> QED BY <3>1, StartOthers DEF PreparationInv, ReservedIsOpen
  <2>2. ASSUME Reserved(p)'
        PROVE  /\ writer'[p].call = c /\ c \in DOMAIN calls'
               /\ ~NotSent(Lines(file'), c)
               /\ ~KnowsNotSent(calls', c)
               /\ p = "preparation" =>
                    /\ Kept(Lines(file'), c, Interval("preparation"))
                    /\ KnowsPreparation(calls', c, Interval("preparation"))
    <3>1. writer'[p].phase = "reserved"
      BY <2>2 DEF Reserved
    <3> QED BY <3>1, StartNew DEF StartAppended
  <2> HIDE DEF c
  <2>3. \A q \in Purposes : Reserved(q)' =>
         /\ writer'[q].call \in DOMAIN calls'
         /\ \A s \in sent' : s.call # writer'[q].call
         /\ ~NotSent(Lines(file'), writer'[q].call)
         /\ ~KnowsNotSent(calls', writer'[q].call)
    BY <1>1, <1>2, <2>1, <2>2
  <2>4. Reserved("preparation")' =>
       /\ Kept(Lines(file'), writer'["preparation"].call, Interval("preparation"))
       /\ KnowsPreparation(calls', writer'["preparation"].call, Interval("preparation"))
    BY <2>1, <2>2, Purposed
  <2>5. ASSUME Reserved("preparation")', Reserved("compaction")'
        PROVE  writer'["preparation"].call # writer'["compaction"].call
    BY <2>1, <2>2, <2>5, Purposed DEF Purposes
  <2> QED BY <2>0, <2>3, <2>4, <2>5 DEF ReservedIsOpen
<1>10. OnePaidAttemptPerInterval'
  BY <1>1 DEF PreparationInv, OnePaidAttemptPerInterval
<1> QED BY <1>4, <1>5, <1>6, <1>7, <1>8, <1>9, <1>10 DEF PreparationInv

\* A call before its request: refused, not recorded, or reserved.
LEMMA Reserves ==
  ASSUME PreparationInv, NEW p \in Purposes, beforeDispatch(p) PROVE PreparationInv'
<1> DEFINE c == lastCall + 1
           x == StartLine(c, p, Interval(p))
<1>1. input' = input /\ started' = started /\ writer[p].phase = "ready" /\ "failed" \in Phases \ {"off", "reserved"}
  BY DEF beforeDispatch, CallUnchanged, Phases
<1>2. CASE writer' = To(p, "failed") /\ UNCHANGED journalVars
  BY <1>1, <1>2, Moves
<1>3. ASSUME lastCall' = c, UNCHANGED sent, NEW a \in Appends(file, x),
             file' = a.file, gap' = IF a.threw THEN "unwritable" ELSE gap,
             IF Refused(p, a.threw)
               THEN writer' = To(p, "failed") /\ UNCHANGED calls
               ELSE /\ writer' = [writer EXCEPT ![p] =
                           [writer[p] EXCEPT !.phase = "reserved", !.call = c, !.made = writer[p].made + 1]]
                    /\ calls' = Reserve(calls, c, p, Interval(p))
      PROVE  PreparationInv'
  <2>1. /\ IsSeq(file') /\ Grown(Lines(file), Lines(file'), x)
        /\ a.threw = TRUE \/ (a.threw = FALSE /\ Lines(file') # Lines(file))
    <3>1. x # Fragment /\ IsSeq(file)
      BY StartLineSays DEF PreparationInv, Shapes
    <3> HIDE DEF x
    <3> QED BY <3>1, <1>3, AppendGrows
  <2>2. gap' = gap \/ gap' = "unwritable"
    BY <1>3
  <2>3. lastCall \in Nat /\ c \in Nat /\ c \notin DOMAIN calls
    BY Calls DEF PreparationInv, Numbered
  <2> HIDE DEF c, x
  <2>4. CASE writer' = To(p, "failed") /\ UNCHANGED calls
    <3>1. /\ writer' \in [Purposes -> WriterRec] /\ writer'[p].phase = "failed"
          /\ \A q \in Purposes : writer'[q].call = writer[q].call
          /\ \A q \in Purposes : q # p => writer'[q].phase = writer[q].phase
      BY <2>4, <1>1, ToWriter
    <3>2. \A q \in Purposes : q # p => writer'[q] = writer[q]
      BY <2>4 DEF To
    <3>3. Extends(calls, calls', c, CallRecord(p, Interval(p)))
      BY <2>3, <2>4 DEF Extends
    <3>4. writer'[p].call <= c
      <4>1. writer[p].call <= lastCall /\ writer[p].call \in Nat
        BY Calls DEF WriterRec
      <4> QED BY <4>1, <3>1, <2>3 DEF c
    <3>5. StartAppended(p)
      BY <1>1, <1>3, <2>1, <2>2, <3>1, <3>2, <3>3, <3>4 DEF StartAppended, c, x
    <3> QED BY <3>5, StartKeeps
  <2>5. CASE /\ ~Refused(p, a.threw)
             /\ writer' = [writer EXCEPT ![p] =
                      [writer[p] EXCEPT !.phase = "reserved", !.call = c, !.made = writer[p].made + 1]]
             /\ calls' = Reserve(calls, c, p, Interval(p))
    <3>1. /\ writer' \in [Purposes -> WriterRec]
          /\ writer'[p].phase = "reserved" /\ writer'[p].call = c
          /\ \A q \in Purposes : q # p => writer'[q] = writer[q]
      BY <2>3, <2>5, ReserveWriter
    <3>2. Extends(calls, calls', c, CallRecord(p, Interval(p))) /\ c \in DOMAIN calls'
      BY <2>3, <2>5, AddCall
    <3>3. p = "preparation" => Lines(file') # Lines(file)
      BY <2>1, <2>5 DEF Refused
    <3>4. c <= c
      BY <2>3
    <3>5. StartAppended(p)
      BY <1>1, <1>3, <2>1, <2>2, <3>1, <3>2, <3>3, <3>4 DEF StartAppended, c, x
    <3> QED BY <3>5, StartKeeps
  <2> QED BY <1>3, <2>4, <2>5
<1>4. \/ writer' = To(p, "failed") /\ UNCHANGED journalVars
      \/ /\ lastCall' = c /\ UNCHANGED sent
         /\ \E a \in Appends(file, x) :
              /\ file' = a.file
              /\ gap' = IF a.threw THEN "unwritable" ELSE gap
              /\ IF Refused(p, a.threw)
                   THEN writer' = To(p, "failed") /\ UNCHANGED calls
                   ELSE /\ writer' = [writer EXCEPT ![p] =
                             [writer[p] EXCEPT !.phase = "reserved", !.call = c, !.made = writer[p].made + 1]]
                        /\ calls' = Reserve(calls, c, p, Interval(p))
  BY DEF beforeDispatch
<1> QED BY <1>2, <1>3, <1>4

\* A settlement's line, and the record of the call it settles.
LEMMA SettlementSays ==
  ASSUME NEW c
  PROVE  /\ Settlement(c, TRUE) # Fragment /\ Settlement(c, FALSE) # Fragment
         /\ Settlement(c, TRUE).line = "settled" /\ Settlement(c, FALSE).line = "settled"
         /\ Settlement(c, TRUE).call = c /\ Settlement(c, FALSE).call = c
         /\ Settlement(c, TRUE).dispatched
<1>1. Fragment.line = "fragment" /\ Settlement(c, TRUE).line = "settled"
      /\ Settlement(c, FALSE).line = "settled"
  BY DEF Fragment, Settlement
<1> QED BY <1>1 DEF Settlement

Settles(cs, ds, c) ==
  /\ DOMAIN ds = DOMAIN cs
  /\ \A e \in DOMAIN cs : e # c => ds[e] = cs[e]
  /\ c \in DOMAIN cs => /\ DOMAIN ds[c] = CallFields
                        /\ ds[c].purpose = cs[c].purpose /\ ds[c].interval = cs[c].interval

LEMMA SettleCall ==
  ASSUME NEW cs, NEW c, c \in DOMAIN cs => DOMAIN cs[c] = CallFields
  PROVE  /\ Settles(cs, [cs EXCEPT ![c].settled = TRUE, ![c].dispatched = TRUE], c)
         /\ ~KnowsNotSent([cs EXCEPT ![c].settled = TRUE, ![c].dispatched = TRUE], c)
         /\ Settles(cs, [cs EXCEPT ![c].settled = TRUE, ![c].dispatched = FALSE], c)
<1>1. ASSUME NEW ds, ds = [cs EXCEPT ![c].settled = TRUE, ![c].dispatched = TRUE]
      PROVE  Settles(cs, ds, c) /\ ~KnowsNotSent(ds, c)
  BY <1>1 DEF Settles, KnowsNotSent, CallFields
<1>2. ASSUME NEW ds, ds = [cs EXCEPT ![c].settled = TRUE, ![c].dispatched = FALSE]
      PROVE  Settles(cs, ds, c)
  BY <1>2 DEF Settles, CallFields
<1> QED BY <1>1, <1>2

\* What a step leaves that appends a call's settlement x.
EndAppended(p, x) ==
  LET c == writer[p].call
  IN /\ IsSeq(file') /\ Grown(Lines(file), Lines(file'), x)
     /\ x.line = "settled" /\ x.call = c
     /\ gap' = gap \/ gap' = "unwritable"
     /\ lastCall' = lastCall /\ sent' = sent /\ input' = input /\ started' = started
     /\ calls' = calls \/ Settles(calls, calls', c)
     /\ Reserved(p) \/ (x.dispatched /\ (KnowsNotSent(calls', c) => KnowsNotSent(calls, c)))
     /\ writer[p].phase # "off"
     /\ writer' \in [Purposes -> WriterRec] /\ writer'[p].phase # "reserved"
     /\ \A q \in Purposes : writer'[q].call = writer[q].call
     /\ \A q \in Purposes : q # p => writer'[q].phase = writer[q].phase

\* A settlement leaves alone what is said of other calls, and does not turn
\* one that was sent into one that was not.
LEMMA EndOthers ==
  ASSUME PreparationInv, NEW p \in Purposes, NEW x, EndAppended(p, x),
         NEW c, c = writer[p].call => ~Reserved(p), NEW interval
  PROVE  /\ NotSent(Lines(file'), c) => NotSent(Lines(file), c)
         /\ KnowsNotSent(calls', c) => KnowsNotSent(calls, c)
<1>1. IsSeq(Lines(file))
  BY LinesAreLines DEF PreparationInv, Shapes, IsSeq
<1>2. NotSent(Lines(file'), c) =>
        NotSent(Lines(file), c) \/ (x.line = "settled" /\ x.call = c /\ ~x.dispatched)
  <2>1. Grown(Lines(file), Lines(file'), x)
    BY DEF EndAppended
  <2> QED BY <1>1, <2>1, GrownSays
<1>3. NotSent(Lines(file'), c) => NotSent(Lines(file), c)
  BY <1>2 DEF EndAppended
<1>4. CASE c = writer[p].call
  BY <1>3, <1>4 DEF EndAppended
<1>5. CASE c # writer[p].call
  BY <1>3, <1>5 DEF EndAppended, Settles, KnowsNotSent
<1> QED BY <1>4, <1>5

LEMMA EndPreparations ==
  ASSUME PreparationInv, NEW p \in Purposes, NEW x, EndAppended(p, x), NEW c, NEW interval
  PROVE  /\ Kept(Lines(file), c, interval) => Kept(Lines(file'), c, interval)
         /\ HasStart(Lines(file'), c) => HasStart(Lines(file), c)
         /\ KnowsPreparation(calls, c, interval) => KnowsPreparation(calls', c, interval)
         /\ c \in DOMAIN calls <=> c \in DOMAIN calls'
<1> DEFINE l == Lines(file)
           m == Lines(file')
<1>1. IsSeq(l) /\ Grown(l, m, x) /\ x.line = "settled"
  BY LinesAreLines DEF PreparationInv, Shapes, IsSeq, EndAppended
<1> HIDE DEF l, m
<1>2. Prepares(l, c, interval) => Prepares(m, c, interval)
  BY <1>1, GrownPrepares
<1>3. /\ HasStart(l, c) => HasStart(m, c)
      /\ HasJoined(l) => HasJoined(m)
      /\ HasStart(m, c) => HasStart(l, c) \/ (x.line = "start" /\ x.call = c)
  BY <1>1, GrownSays
<1>4. /\ Kept(l, c, interval) => Kept(m, c, interval)
      /\ HasStart(m, c) => HasStart(l, c)
  BY <1>1, <1>2, <1>3 DEF Kept
<1>5. /\ KnowsPreparation(calls, c, interval) => KnowsPreparation(calls', c, interval)
      /\ c \in DOMAIN calls <=> c \in DOMAIN calls'
  <2>1. c \in DOMAIN calls <=> c \in DOMAIN calls'
    BY DEF EndAppended, Settles
  <2>2. c \in DOMAIN calls =>
          calls'[c].purpose = calls[c].purpose /\ calls'[c].interval = calls[c].interval
    BY DEF EndAppended, Settles
  <2> QED BY <2>1, <2>2 DEF KnowsPreparation
<1> QED BY <1>4, <1>5 DEF l, m

LEMMA EndKeeps ==
  ASSUME PreparationInv, NEW p \in Purposes, NEW x, EndAppended(p, x) PROVE PreparationInv'
<1>1. /\ IsSeq(file') /\ Grown(Lines(file), Lines(file'), x)
      /\ x.line = "settled" /\ x.call = writer[p].call
      /\ gap' = gap \/ gap' = "unwritable"
      /\ lastCall' = lastCall /\ sent' = sent /\ input' = input /\ started' = started
      /\ writer' \in [Purposes -> WriterRec] /\ writer'[p].phase # "reserved" /\ writer[p].phase # "off"
      /\ \A q \in Purposes : writer'[q].call = writer[q].call
      /\ \A q \in Purposes : q # p => writer'[q].phase = writer[q].phase
      /\ writer \in [Purposes -> WriterRec]
  BY Calls DEF EndAppended
<1>2. gap # "none" => gap' # "none"
  BY <1>1
<1>3. Shapes'
  <2>1. \A d \in DOMAIN calls' : DOMAIN calls'[d] = CallFields
    BY DEF PreparationInv, Shapes, EndAppended, Settles
  <2> QED BY <2>1, <1>1 DEF Shapes
<1>4. Numbered'
  <2>1. DOMAIN calls' = DOMAIN calls
    BY DEF EndAppended, Settles
  <2>2. Below(Lines(file'), lastCall)
    <3>1. /\ lastCall \in Nat /\ lastCall <= lastCall /\ Below(Lines(file), lastCall)
          /\ CallsUpTo(x, lastCall) /\ IsSeq(Lines(file))
      <4>1. writer[p].call \in Nat /\ writer[p].call <= lastCall /\ lastCall \in Nat
        BY Calls DEF WriterRec
      <4>2. Below(Lines(file), lastCall) /\ IsSeq(Lines(file))
        BY LinesAreLines DEF PreparationInv, Numbered, Shapes, IsSeq
      <4>3. CallsUpTo(x, lastCall)
        BY <4>1, <1>1 DEF CallsUpTo
      <4> QED BY <4>1, <4>2, <4>3
    <3> QED BY <3>1, <1>1, GrownBelow
  <2> QED BY <1>1, <2>1, <2>2 DEF PreparationInv, Numbered
<1>5. PaidOnRecord'
  <2> SUFFICES ASSUME NEW s \in sent, s.run # 0
               PROVE  /\ Kept(Lines(file'), s.call, s.interval)
                      /\ KnowsPreparation(calls', s.call, s.interval) \/ gap' # "none"
    BY <1>1 DEF PaidOnRecord
  <2> QED BY <1>2, EndPreparations DEF PreparationInv, PaidOnRecord
<1>6. RunningPays'
  <2>1. writer'["preparation"].phase # "off" => writer["preparation"].phase # "off"
    BY <1>1, Purposed
  <2> QED BY <2>1, <1>1 DEF PreparationInv, RunningPays
<1>7. SentCounts'
  <2> SUFFICES ASSUME NEW s \in sent
               PROVE  /\ ~NotSent(Lines(file'), s.call)
                      /\ ~KnowsNotSent(calls', s.call)
                      /\ HasStart(Lines(file'), s.call) => s.call \in DOMAIN calls' \/ gap' # "none"
    BY <1>1 DEF SentCounts
  <2>1. s.call = writer[p].call => ~Reserved(p)
    BY DEF PreparationInv, ReservedIsOpen
  <2>2. ~NotSent(Lines(file'), s.call) /\ ~KnowsNotSent(calls', s.call)
    BY <2>1, EndOthers DEF PreparationInv, SentCounts
  <2>3. HasStart(Lines(file'), s.call) => s.call \in DOMAIN calls' \/ gap' # "none"
    BY <1>2, EndPreparations DEF PreparationInv, SentCounts
  <2> QED BY <2>2, <2>3
<1>8. ReservedIsOpen'
  <2>0. Interval("preparation")' = Interval("preparation")
    BY <1>1 DEF Interval
  <2>1. ASSUME NEW q \in Purposes, Reserved(q)'
        PROVE  /\ q # p /\ Reserved(q) /\ writer'[q].call = writer[q].call
               /\ writer[q].call \in DOMAIN calls'
               /\ \A s \in sent : s.call # writer[q].call
               /\ ~NotSent(Lines(file'), writer[q].call)
               /\ ~KnowsNotSent(calls', writer[q].call)
               /\ q = "preparation" =>
                    /\ Kept(Lines(file'), writer[q].call, Interval("preparation"))
                    /\ KnowsPreparation(calls', writer[q].call, Interval("preparation"))
    <3>1. q # p /\ Reserved(q) /\ writer'[q].call = writer[q].call
      BY <1>1, <2>1 DEF Reserved
    <3>2. writer[q].call = writer[p].call => ~Reserved(p)
      BY <3>1, Apart
    <3>3. ~NotSent(Lines(file'), writer[q].call) /\ ~KnowsNotSent(calls', writer[q].call)
      BY <3>1, <3>2, EndOthers DEF PreparationInv, ReservedIsOpen
    <3>4. /\ writer[q].call \in DOMAIN calls'
          /\ \A s \in sent : s.call # writer[q].call
      BY <3>1, EndPreparations DEF PreparationInv, ReservedIsOpen
    <3>5. q = "preparation" =>
            /\ Kept(Lines(file'), writer[q].call, Interval("preparation"))
            /\ KnowsPreparation(calls', writer[q].call, Interval("preparation"))
      BY <3>1, EndPreparations DEF PreparationInv, ReservedIsOpen
    <3> QED BY <3>1, <3>3, <3>4, <3>5
  <2>2. ~(Reserved("preparation")' /\ Reserved("compaction")')
    BY <2>1 DEF Purposes
  <2>3. \A q \in Purposes : Reserved(q)' =>
         /\ writer'[q].call \in DOMAIN calls'
         /\ \A s \in sent' : s.call # writer'[q].call
         /\ ~NotSent(Lines(file'), writer'[q].call)
         /\ ~KnowsNotSent(calls', writer'[q].call)
    BY <1>1, <2>1
  <2>4. Reserved("preparation")' =>
       /\ Kept(Lines(file'), writer'["preparation"].call, Interval("preparation"))
       /\ KnowsPreparation(calls', writer'["preparation"].call, Interval("preparation"))
    BY <2>1, Purposed
  <2> QED BY <2>0, <2>2, <2>3, <2>4 DEF ReservedIsOpen
<1>9. OnePaidAttemptPerInterval'
  BY <1>1 DEF PreparationInv, OnePaidAttemptPerInterval
<1> QED BY <1>3, <1>4, <1>5, <1>6, <1>7, <1>8, <1>9 DEF PreparationInv

\* A call's settlement after its request, or after it was reserved and aborted.
LEMMA Settled ==
  ASSUME PreparationInv, NEW p \in Purposes, afterDispatch(p) PROVE PreparationInv'
<1> DEFINE c == writer[p].call
           dispatched == writer[p].phase = "sent"
<1>1. /\ dispatched \/ writer[p].phase = "reserved"
      /\ lastCall' = lastCall /\ sent' = sent /\ input' = input /\ started' = started
      /\ \E phase \in {"failed", "ready", "written"} : writer' = To(p, phase)
  BY DEF afterDispatch, CallUnchanged
<1>2. PICK a \in Appends(file, Settlement(c, dispatched)) :
        /\ file' = a.file
        /\ gap' = IF a.threw THEN "unwritable" ELSE gap
        /\ calls' = IF a.threw THEN calls
                    ELSE [calls EXCEPT ![c].settled = TRUE, ![c].dispatched = dispatched]
  BY DEF afterDispatch
<1>3. PICK phase \in {"failed", "ready", "written"} : writer' = To(p, phase)
  BY <1>1
<1>4. /\ writer' \in [Purposes -> WriterRec] /\ writer'[p].phase = phase
      /\ \A q \in Purposes : writer'[q].call = writer[q].call
      /\ \A q \in Purposes : q # p => writer'[q].phase = writer[q].phase
  <2>1. phase \in Phases
    BY DEF Phases
  <2> QED BY <2>1, <1>3, ToWriter
<1>5. IsSeq(file) /\ (c \in DOMAIN calls => DOMAIN calls[c] = CallFields)
  BY DEF PreparationInv, Shapes
<1>6. gap' = gap \/ gap' = "unwritable"
  BY <1>2
<1>7. writer[p].phase # "off" /\ phase # "reserved"
  BY <1>1
<1>8. CASE dispatched
  <2> DEFINE x == Settlement(c, TRUE)
  <2>1. Settlement(c, dispatched) = x
    BY <1>8
  <2>2. x # Fragment /\ x.line = "settled" /\ x.call = c /\ x.dispatched
    BY SettlementSays
  <2>3. calls' = calls \/ calls' = [calls EXCEPT ![c].settled = TRUE, ![c].dispatched = TRUE]
    BY <1>2, <1>8
  <2> HIDE DEF x, dispatched, c
  <2>4. IsSeq(file') /\ Grown(Lines(file), Lines(file'), x)
    BY <1>2, <1>5, <2>1, <2>2, AppendGrows
  <2>5. /\ calls' = calls \/ Settles(calls, calls', c)
        /\ KnowsNotSent(calls', c) => KnowsNotSent(calls, c)
    <3> DEFINE ds == [calls EXCEPT ![c].settled = TRUE, ![c].dispatched = TRUE]
    <3>1. Settles(calls, ds, c) /\ ~KnowsNotSent(ds, c)
      BY <1>5, SettleCall, Zenon
    <3> HIDE DEF ds
    <3>2. calls' = calls \/ calls' = ds
      BY <2>3 DEF ds
    <3> QED BY <3>1, <3>2
  <2>6. EndAppended(p, x)
    BY <1>1, <1>4, <1>6, <1>7, <2>2, <2>4, <2>5 DEF EndAppended, c
  <2> QED BY <2>6, EndKeeps
<1>9. CASE writer[p].phase = "reserved"
  <2> DEFINE x == Settlement(c, FALSE)
  <2>0. dispatched = FALSE
    BY <1>9
  <2>1. Settlement(c, dispatched) = x
    BY <2>0
  <2>2. x # Fragment /\ x.line = "settled" /\ x.call = c
    BY SettlementSays
  <2>3. calls' = calls \/ calls' = [calls EXCEPT ![c].settled = TRUE, ![c].dispatched = FALSE]
    BY <1>2, <2>0
  <2> HIDE DEF x, dispatched, c
  <2>4. IsSeq(file') /\ Grown(Lines(file), Lines(file'), x)
    BY <1>2, <1>5, <2>1, <2>2, AppendGrows
  <2>5. calls' = calls \/ Settles(calls, calls', c)
    <3> DEFINE ds == [calls EXCEPT ![c].settled = TRUE, ![c].dispatched = FALSE]
    <3>1. Settles(calls, ds, c)
      BY <1>5, SettleCall, Zenon
    <3> HIDE DEF ds
    <3>2. calls' = calls \/ calls' = ds
      BY <2>3 DEF ds
    <3> QED BY <3>1, <3>2
  <2>6. EndAppended(p, x)
    BY <1>1, <1>4, <1>6, <1>7, <1>9, <2>2, <2>4, <2>5 DEF EndAppended, Reserved, c
  <2> QED BY <2>6, EndKeeps
<1> QED BY <1>1, <1>8, <1>9

\* A new process knows of the calls what their lines say.
LEMMA Reopens == PreparationInv /\ Crash => PreparationInv'
<1> SUFFICES ASSUME PreparationInv, Crash PROVE PreparationInv'
  OBVIOUS
<1>1. /\ input' = None /\ writer' = [p \in Purposes |-> Off]
      /\ lastCall' = lastCall /\ sent' = sent
  BY DEF Crash
<1>2. PICK f, j : /\ f = file \/ f \in CrashesIn(file)
                  /\ j \in Loads(f) /\ file' = f /\ calls' = j.calls /\ gap' = j.gap
  BY DEF Crash
<1>3. IsSeq(file) /\ Below(Lines(file), lastCall) /\ lastCall \in Nat
  BY DEF PreparationInv, Shapes, Numbered
<1>4. IsSeq(f) /\ Lines(f) = Lines(file)
  BY <1>2, <1>3, CrashKeepsLines
<1>5. DOMAIN calls' \subseteq 1..lastCall /\ LoadKnows(j, Lines(file))
  BY <1>2, <1>3, <1>4, LoadSays
<1>6. /\ writer' \in [Purposes -> WriterRec]
      /\ \A p \in Purposes : writer'[p].phase = "off" /\ writer'[p].call = 0
  BY <1>1, Blank
<1>7. Lines(file') = Lines(file)
  BY <1>2, <1>4
<1>8. Shapes'
  BY <1>2, <1>4, <1>5, <1>6 DEF Shapes, LoadKnows
<1>9. Numbered'
  BY <1>1, <1>3, <1>5, <1>6, <1>7 DEF PreparationInv, Numbered
<1>10. PaidOnRecord'
  <2> SUFFICES ASSUME NEW s \in sent, s.run # 0
               PROVE  /\ Kept(Lines(file), s.call, s.interval)
                      /\ KnowsPreparation(j.calls, s.call, s.interval) \/ j.gap # "none"
    BY <1>1, <1>2, <1>7 DEF PaidOnRecord
  <2>1. Kept(Lines(file), s.call, s.interval)
    BY DEF PreparationInv, PaidOnRecord
  <2> QED BY <2>1, <1>5 DEF Kept, LoadKnows
<1>11. SentCounts'
  <2> SUFFICES ASSUME NEW s \in sent
               PROVE  /\ ~NotSent(Lines(file), s.call)
                      /\ ~KnowsNotSent(j.calls, s.call)
                      /\ HasStart(Lines(file), s.call) => s.call \in DOMAIN j.calls \/ j.gap # "none"
    BY <1>1, <1>2, <1>7 DEF SentCounts
  <2>1. ~NotSent(Lines(file), s.call)
    BY DEF PreparationInv, SentCounts
  <2> QED BY <2>1, <1>5 DEF LoadKnows
<1>12. RunningPays' /\ ReservedIsOpen'
  BY <1>1, <1>6, Purposed DEF RunningPays, ReservedIsOpen, Reserved
<1>13. OnePaidAttemptPerInterval'
  BY <1>1 DEF PreparationInv, OnePaidAttemptPerInterval
<1> QED BY <1>8, <1>9, <1>10, <1>11, <1>12, <1>13 DEF PreparationInv

----------------------------------------------------------------------------
(* The theorems.                                                           *)

LEMMA Stutters == PreparationInv /\ UNCHANGED vars => PreparationInv'
<1> SUFFICES ASSUME PreparationInv, UNCHANGED vars PROVE PreparationInv'
  OBVIOUS
<1>1. UNCHANGED <<journalVars, started>> /\ UNCHANGED input /\ UNCHANGED writer
  BY DEF vars
<1> QED BY <1>1, BesideSame

\* Over every interleaving of the session, its navigation, compactions and
\* preparations, with the journal's faults and crashes, what is on record
\* about the requests stays consistent (call-journal.ts, preparation.ts).
THEOREM PreparationHolds == Spec => []PreparationInv
<1>1. ASSUME PreparationInv, [Next]_vars PROVE PreparationInv'
  <2>1. ASSUME NEW p \in Purposes, WriterStep(p) PROVE PreparationInv'
    BY <1>1, <2>1, WriterFailsKeeps, Reserves, Dispatches, Settled DEF WriterStep
  <2> QED BY <1>1, <2>1, SessionSteps, PrepareKeeps, Ends, Cancels, Compacts, HostSteps, Reopens, Stutters
          DEF Next
<1> QED BY <1>1, Start, PTL DEF Spec

\* At most one paid attempt per checkpoint interval: the requests of
\* preparations in an interval leave from one run, over cancellations,
\* navigation, journal faults and restarts (preparation.ts mayStart,
\* call-journal.ts preparedIn).
THEOREM PaidOnce == Spec => []OnePaidAttemptPerInterval
<1>1. PreparationInv => OnePaidAttemptPerInterval
  BY DEF PreparationInv
<1> QED BY <1>1, PreparationHolds, PTL

\* The start line of a call in the file is one of its complete lines.
LEMMA RecordedHasStart ==
  ASSUME NEW f, IsSeq(f), NEW c, Recorded(f, c) PROVE HasStart(Lines(f), c)
<1>1. PICK S : f \in Seq(S)
  BY DEF IsSeq
<1>2. PICK i \in DOMAIN Lines(f) : f[i].line = "start" /\ f[i].call = c
  BY DEF Recorded
<1>3. Lines(f)[i] = f[i]
  <2>1. CASE Torn(f)
    <3>1. Lines(f) = SubSeq(f, 1, Len(f) - 1) /\ f # <<>>
      BY <2>1 DEF Lines, Front, Torn
    <3>2. Len(f) \in Nat \ {0} /\ DOMAIN Lines(f) = 1..(Len(f) - 1)
      BY <1>1, <3>1
    <3> QED BY <1>1, <1>2, <3>1, <3>2
  <2>2. CASE ~Torn(f)
    BY <2>2 DEF Lines
  <2> QED BY <2>1, <2>2
<1> QED BY <1>2, <1>3 DEF HasStart

\* The status summary counts every request whose start line is on disk, or
\* shows a gap, whatever was settled, lost, torn or reloaded in between
\* (call-journal.ts load, summary).
THEOREM CountsOrGap == Spec => []CountedOrGap
<1>1. PreparationInv => CountedOrGap
  <2> SUFFICES ASSUME PreparationInv, NEW s \in sent, Recorded(file, s.call)
               PROVE  Counted(calls, s.call) \/ gap # "none"
    BY DEF CountedOrGap
  <2>1. HasStart(Lines(file), s.call)
    BY RecordedHasStart DEF PreparationInv, Shapes
  <2>2. ~KnowsNotSent(calls, s.call) /\ (s.call \in DOMAIN calls \/ gap # "none")
    BY <2>1 DEF PreparationInv, SentCounts
  <2> QED BY <2>2 DEF Counted, KnowsNotSent
<1> QED BY <1>1, PreparationHolds, PTL

\* Where no append stops in the middle of a line, every line is complete.
Unbroken == \A i \in DOMAIN file : file[i].line \in {"start", "settled"}

LEMMA UnbrokenLines ==
  ASSUME NEW f, IsSeq(f), \A i \in DOMAIN f : f[i].line \in {"start", "settled"}
  PROVE  ~Torn(f) /\ Lines(f) = f /\ ~HasJoined(Lines(f))
<1>1. PICK S : f \in Seq(S)
  BY DEF IsSeq
<1>2. ~Torn(f)
  <2>1. SUFFICES ASSUME f # <<>> PROVE f[Len(f)] # Fragment
    BY DEF Torn, Last
  <2>2. Len(f) \in DOMAIN f
    BY <1>1, <2>1
  <2> QED BY <2>2 DEF Fragment
<1> QED BY <1>2 DEF Lines, HasJoined

LEMMA UnbrokenAppends ==
  ASSUME "partial" \notin Faults, NEW f, IsSeq(f), \A i \in DOMAIN f : f[i].line \in {"start", "settled"},
         NEW x, x.line \in {"start", "settled"}, NEW a \in Appends(f, x)
  PROVE  \A i \in DOMAIN a.file : a.file[i].line \in {"start", "settled"}
<1>1. PICK S : f \in Seq(S)
  BY DEF IsSeq
<1>2. Put(f, x) = Append(f, x)
  BY UnbrokenLines DEF Put
<1>3. a.file = f \/ a.file = Append(f, x)
  BY <1>2 DEF Appends
<1>4. \A i \in DOMAIN Append(f, x) : Append(f, x)[i].line \in {"start", "settled"}
  <2>1. DOMAIN Append(f, x) = 1..(Len(f) + 1) /\ DOMAIN f = 1..Len(f) /\ Len(f) \in Nat
    BY <1>1
  <2>2. ASSUME NEW i \in 1..(Len(f) + 1) PROVE Append(f, x)[i].line \in {"start", "settled"}
    <3>1. CASE i \in 1..Len(f)
      BY <1>1, <2>1, <3>1
    <3>2. CASE i = Len(f) + 1
      BY <1>1, <3>2
    <3> QED BY <2>1, <3>1, <3>2
  <2> QED BY <2>1, <2>2
<1> QED BY <1>3, <1>4

LEMMA StaysUnbroken ==
  ASSUME "partial" \notin Faults, "torn" \notin Faults, PreparationInv, Unbroken, [Next]_vars
  PROVE  Unbroken'
<1>1. IsSeq(file)
  BY DEF PreparationInv, Shapes
<1>2. ASSUME NEW x, x.line \in {"start", "settled"}, \E a \in Appends(file, x) : file' = a.file
      PROVE  Unbroken'
  BY <1>1, <1>2, UnbrokenAppends DEF Unbroken
<1>3. CASE file' = file
  BY <1>3 DEF Unbroken
<1>4. ASSUME NEW p \in Purposes, beforeDispatch(p) PROVE Unbroken'
  <2>1. \/ file' = file
        \/ \E a \in Appends(file, StartLine(lastCall + 1, p, Interval(p))) : file' = a.file
    BY <1>4 DEF beforeDispatch, journalVars
  <2> QED BY <2>1, <1>2, <1>3, StartLineSays
<1>5. ASSUME NEW p \in Purposes, afterDispatch(p) PROVE Unbroken'
  <2> DEFINE x == Settlement(writer[p].call, writer[p].phase = "sent")
  <2>1. \E a \in Appends(file, x) : file' = a.file
    BY <1>5 DEF afterDispatch
  <2>2. x.line = "settled"
    BY DEF Settlement
  <2> HIDE DEF x
  <2> QED BY <2>1, <2>2, <1>2
<1>6. CASE Crash
  <2>1. CrashesIn(file) = {file}
    BY DEF CrashesIn
  <2> QED BY <1>3, <1>6, <2>1 DEF Crash
<1>7. ASSUME NEW p \in Purposes, WriterFails(p) \/ Dispatch(p) PROVE file' = file
  BY <1>7 DEF WriterFails, Dispatch, journalVars
<1>8. CASE Prompt \/ Reply \/ WorkNote \/ CustomEntry \/ prepare \/ RunEnds \/ Deadline \/ invalidate
           \/ BeforeTree \/ Navigate
  BY <1>3, <1>8 DEF Prompt, Reply, WorkNote, CustomEntry, prepare, RunEnds, Deadline, invalidate,
       BeforeTree, Navigate, SessionStep, Invalidation, journalVars
<1>9. CASE CompactBegins \/ UserAborts \/ CompactWritten \/ HostAppends \/ AppendFails \/ recover
  BY <1>3, <1>9 DEF CompactBegins, UserAborts, CompactWritten, HostAppends, AppendFails, recover,
       PreparationCommitted, journalVars
<1>10. CASE UNCHANGED vars
  BY <1>3, <1>10 DEF vars, journalVars
<1> QED BY <1>3, <1>4, <1>5, <1>6, <1>7, <1>8, <1>9, <1>10 DEF Next, WriterStep

\* "Optional preparation never sends an unrecorded call" wherever no append
\* stops in the middle of a line, by an error or by a crash: neither appends
\* that throw before or after the write nor journals that cannot be read
\* break it (call-journal.ts beforeDispatch, append).
THEOREM RecordedUnlessTorn ==
  ASSUME "partial" \notin Faults, "torn" \notin Faults
  PROVE  Spec => []PreparationIsRecorded
<1>1. Init => PreparationInv /\ Unbroken
  <2>1. Init => Unbroken
    BY DEF Init, Unbroken
  <2> QED BY <2>1, Start
<1>2. PreparationInv /\ Unbroken /\ [Next]_vars => Unbroken'
  BY StaysUnbroken
<1>3. PreparationInv /\ Unbroken => PreparationIsRecorded
  <2> SUFFICES ASSUME PreparationInv, Unbroken, NEW s \in sent, s.run # 0
               PROVE  Recorded(file, s.call)
    BY DEF PreparationIsRecorded
  <2>1. Lines(file) = file /\ ~HasJoined(Lines(file))
    BY UnbrokenLines DEF Unbroken, PreparationInv, Shapes
  <2>2. HasStart(Lines(file), s.call)
    BY <2>1 DEF PreparationInv, PaidOnRecord, Kept
  <2> QED BY <2>1, <2>2 DEF HasStart, Recorded
<1> QED BY <1>1, <1>2, <1>3, PreparationHolds, PTL DEF Spec

----------------------------------------------------------------------------
(* Coverage: the second inductive invariant.                               *)

\* The checkpoint has read the entry or carries it verbatim.
Told(e, memory) == e.id \in memory.read \/ (IsUser(e) /\ e.id \in memory.carried)

\* Of the first n entries of a branch the checkpoint tells every message it
\* covers and keeps the others in context.
Accounts(b, n, memory) ==
  \E k \in 1..n :
    /\ b[k].id = memory.coveredThrough
    /\ \A i \in 1..n : IsMessage(b[i]) =>
         IF i <= k THEN Told(b[i], memory) ELSE \E f \in 1..i : b[f].id = memory.firstKept

\* It rests on those n entries alone.
Rests(b, n, memory) == memory.read \cup memory.carried \subseteq {b[j].id : j \in 1..n}

\* Entries of distinct ids up to n, where every checkpoint accounts for what
\* comes before it: true of every prefix too, which is why navigation keeps it.
GoodBranch(b, n) ==
  /\ IsSeq(b)
  /\ \A i \in DOMAIN b : b[i].id \in 1..n
  /\ \A i, j \in DOMAIN b : b[i].id = b[j].id => i = j
  /\ \A m \in DOMAIN b : b[m].kind = "memory" => Accounts(b, m - 1, b[m]) /\ Rests(b, m - 1, b[m])

\* A preparation's snapshot, and what was read for its note.
Candidate(c, n) == GoodBranch(c.branch, n) /\ c.branch # <<>> /\ c.read = ReadBy(c.branch)

\* Since s was taken the branch has gained custom entries at most.
Begins(s, b) ==
  /\ Len(s) <= Len(b)
  /\ \A i \in 1..Len(s) : b[i] = s[i]
  /\ \A i \in (Len(s) + 1)..Len(b) : b[i].kind = "custom"

\* A checkpoint, its id still open, that accounts for its source.
Proposes(source, memory) ==
  /\ DOMAIN memory = {"id", "kind", "firstKept", "coveredThrough", "carried", "read"}
  /\ memory.kind = "memory"
  /\ Accounts(source, Len(source), memory) /\ Rests(source, Len(source), memory)

\* The branch, the one navigated from, the snapshot under way and the armed
\* result; while a compaction is under way its source still begins the branch.
CoverageInv ==
  /\ lastId \in Nat
  /\ GoodBranch(branch, lastId) /\ branch # <<>>
  /\ GoodBranch(other, lastId)
  /\ input # None => Candidate(input, lastId)
  /\ armed # None => Candidate(armed, lastId)
  /\ comp # Idle => /\ DOMAIN comp = {"phase", "source", "memory"} /\ comp.phase \in {"writing", "staged"}
                    /\ IsSeq(comp.source) /\ Begins(comp.source, branch) /\ Proposes(comp.source, comp.memory)
  /\ writer["compaction"].phase # "off" => comp.phase = "writing"

----------------------------------------------------------------------------
(* Places in a branch.                                                     *)

\* A non-empty set of numbers has a least one.
LEMMA Least == ASSUME NEW S, S \subseteq Nat, S # {} PROVE \E x \in S : \A y \in S : x <= y
<1> DEFINE R == OpToRel(<, Nat)
<1>1. IsWellFoundedOn(R, Nat)
  BY NatLessThanWellFounded, Zenon
<1>2. \A x, y \in Nat : y < x => <<y, x>> \in R
  BY DEF OpToRel
<1> HIDE DEF R
<1>3. PICK x \in S : \A y \in S : ~ (<<y, x>> \in R)
  BY <1>1, WFMin
<1>4. \A y \in S : ~ (y < x)
  BY <1>2, <1>3
<1>5. \A y \in S : x <= y
  BY <1>4
<1> QED BY <1>5

\* The greatest place of a set of places, or 0 if there is none.
LEMMA MaxPlace ==
  ASSUME NEW n \in Nat, NEW S, S \subseteq 1..n
  PROVE  /\ MaxOr0(S) \in Nat
         /\ MaxOr0(S) = 0 => S = {}
         /\ MaxOr0(S) # 0 => MaxOr0(S) \in S /\ \A y \in S : y <= MaxOr0(S)
<1> DEFINE Z == S \cup {0}
           T == {k \in Nat : n - k \in Z}
<1>1. n \in T /\ T \subseteq Nat
  OBVIOUS
<1> HIDE DEF T
<1>2. PICK k \in T : \A j \in T : k <= j
  BY <1>1, Least
<1>3. k \in Nat /\ n - k \in Z
  BY <1>2 DEF T
<1>4. \A y \in Z : y <= n - k
  <2> TAKE y \in Z
  <2>1. n - y \in T
    BY DEF T
  <2> QED BY <2>1, <1>2, <1>3
<1>5. \E x \in Z : \A y \in Z : x >= y
  BY <1>3, <1>4
<1>6. MaxOr0(S) \in Z /\ \A y \in Z : MaxOr0(S) >= y
  BY <1>5 DEF MaxOr0, Max
<1>7. MaxOr0(S) \in Nat /\ \A y \in S : y <= MaxOr0(S)
  <2>1. Z \subseteq Nat /\ S \subseteq Z
    OBVIOUS
  <2> HIDE DEF Z
  <2> QED BY <2>1, <1>6
<1>8. MaxOr0(S) = 0 => S = {}
  BY <1>7
<1> QED BY <1>6, <1>7, <1>8

LEMMA SeqFacts ==
  ASSUME NEW b, IsSeq(b)
  PROVE  Len(b) \in Nat /\ DOMAIN b = 1..Len(b) /\ (b # <<>> => Len(b) \in 1..Len(b))
BY DEF IsSeq

LEMMA CheckpointIs ==
  ASSUME NEW b, IsSeq(b)
  PROVE  /\ Checkpoint(b) = 0 => \A i \in DOMAIN b : b[i].kind # "memory"
         /\ Checkpoint(b) # 0 =>
              /\ Checkpoint(b) \in DOMAIN b /\ b[Checkpoint(b)].kind = "memory"
<1> DEFINE S == {i \in DOMAIN b : b[i].kind = "memory"}
<1>1. S \subseteq 1..Len(b) /\ Len(b) \in Nat
  BY SeqFacts
<1>2. Checkpoint(b) = MaxOr0(S)
  BY DEF Checkpoint
<1>3. /\ MaxOr0(S) = 0 => S = {}
      /\ MaxOr0(S) # 0 => MaxOr0(S) \in S
  <2> HIDE DEF S
  <2> QED BY <1>1, MaxPlace
<1> QED BY <1>2, <1>3

LEMMA IndexOfIs ==
  ASSUME NEW b, NEW n, GoodBranch(b, n), NEW i \in DOMAIN b, NEW id, b[i].id = id
  PROVE  IndexOf(b, id) = i
BY DEF IndexOf, GoodBranch

\* The ids of a branch.
Ids(b) == {b[i].id : i \in DOMAIN b}

\* What the memory at a place of a branch accounts for, in places.
LEMMA MemoryAt ==
  ASSUME NEW b, NEW n, GoodBranch(b, n), NEW m \in DOMAIN b, b[m].kind = "memory"
  PROVE  /\ m \in Nat /\ IndexOf(b, b[m].coveredThrough) \in 1..(m - 1)
         /\ \A i \in DOMAIN b : i < m /\ IsMessage(b[i]) =>
              \/ i <= IndexOf(b, b[m].coveredThrough) /\ Told(b[i], b[m])
              \/ b[m].firstKept # NoId /\ i >= IndexOf(b, b[m].firstKept)
         /\ b[m].read \cup b[m].carried \subseteq {b[j].id : j \in 1..(m - 1)}
<1>1. DOMAIN b = 1..Len(b) /\ Len(b) \in Nat /\ m \in Nat
  BY SeqFacts DEF GoodBranch
<1>2. PICK k \in 1..(m - 1) :
        /\ b[k].id = b[m].coveredThrough
        /\ \A i \in 1..(m - 1) : IsMessage(b[i]) =>
             IF i <= k THEN Told(b[i], b[m]) ELSE \E f \in 1..i : b[f].id = b[m].firstKept
  BY DEF GoodBranch, Accounts
<1>3. k \in DOMAIN b
  BY <1>1
<1>4. IndexOf(b, b[m].coveredThrough) = k
  BY <1>2, <1>3, IndexOfIs
<1>5. ASSUME NEW i \in DOMAIN b, i < m, IsMessage(b[i]), ~(i <= k)
      PROVE  b[m].firstKept # NoId /\ i >= IndexOf(b, b[m].firstKept)
  <2>1. i \in 1..(m - 1)
    BY <1>1, <1>5
  <2>2. PICK f \in 1..i : b[f].id = b[m].firstKept
    BY <1>2, <1>5, <2>1
  <2>3. f \in DOMAIN b /\ f <= i
    BY <1>1, <2>1
  <2>4. IndexOf(b, b[m].firstKept) = f
    BY <2>2, <2>3, IndexOfIs
  <2>5. b[f].id \in 1..n
    BY <2>3 DEF GoodBranch
  <2>6. b[f].id # NoId
    BY <2>5 DEF NoId
  <2> QED BY <2>2, <2>3, <2>4, <2>6
<1>6. \A i \in DOMAIN b : i < m => i \in 1..(m - 1)
  BY <1>1
<1>7. b[m].read \cup b[m].carried \subseteq {b[j].id : j \in 1..(m - 1)}
  BY DEF GoodBranch, Rests
<1> QED BY <1>1, <1>2, <1>4, <1>5, <1>6, <1>7

----------------------------------------------------------------------------
(* What a branch's latest checkpoint and its writers cover.                *)

\* An original of a branch after its latest checkpoint: in context, read for
\* the note, or carried verbatim.
Survives(b, i) ==
  \/ i \in Active(b)
  \/ b[i].id \in b[Checkpoint(b)].read
  \/ IsUser(b[i]) /\ b[i].id \in b[Checkpoint(b)].carried

\* In a good branch no original is lost.
LEMMA AllSurvive ==
  ASSUME NEW b, NEW n, GoodBranch(b, n), NEW i \in DOMAIN b, IsMessage(b[i]), Checkpoint(b) # 0
  PROVE  Survives(b, i)
<1> DEFINE c == Checkpoint(b)
<1>1. c \in DOMAIN b /\ b[c].kind = "memory" /\ c # 0
  BY CheckpointIs DEF GoodBranch
<1>2. c \in Nat /\ i \in Nat
  BY <1>1, SeqFacts DEF GoodBranch
<1>3. i # c
  BY <1>1 DEF IsMessage
<1> HIDE DEF c
<1>4. CASE i < c
  <2>1. \/ Told(b[i], b[c])
        \/ b[c].firstKept # NoId /\ i >= IndexOf(b, b[c].firstKept)
    BY <1>1, <1>4, MemoryAt
  <2> QED BY <2>1 DEF Survives, Told, Active, c
<1>5. CASE i > c
  <2>1. ~(i < c)
    BY <1>2, <1>5
  <2>2. i \in Active(b)
    BY <2>1 DEF Active, c
  <2> QED BY <2>2 DEF Survives
<1> QED BY <1>2, <1>3, <1>4, <1>5

\* What a branch's checkpoint has read or carries are entries of the branch.
LEMMA CoveredIds ==
  ASSUME NEW b, NEW n, GoodBranch(b, n)
  PROVE  ReadBefore(b) \subseteq Ids(b) /\ carriedUserMessages(b) \subseteq Ids(b)
<1> DEFINE c == Checkpoint(b)
<1>1. CASE c = 0
  BY <1>1 DEF ReadBefore, carriedUserMessages
<1>2. CASE c # 0
  <2>1. c \in DOMAIN b /\ b[c].kind = "memory"
    BY <1>2, CheckpointIs DEF GoodBranch
  <2>2. ReadBefore(b) = b[c].read /\ carriedUserMessages(b) = b[c].carried
    BY <1>2 DEF ReadBefore, carriedUserMessages
  <2> HIDE DEF c
  <2>3. b[c].read \cup b[c].carried \subseteq {b[j].id : j \in 1..(c - 1)} /\ c \in Nat
    BY <2>1, MemoryAt
  <2>4. \A j \in 1..(c - 1) : j \in DOMAIN b
    <3>1. DOMAIN b = 1..Len(b) /\ Len(b) \in Nat
      BY SeqFacts DEF GoodBranch
    <3> QED BY <2>1, <2>3, <3>1
  <2> QED BY <2>2, <2>3, <2>4 DEF Ids
<1> QED BY <1>1, <1>2

\* A writer's note rests on every message of its branch, and on nothing else.
LEMMA WriterReadsAll ==
  ASSUME NEW b, NEW n, GoodBranch(b, n)
  PROVE  /\ ReadBy(b) \subseteq Ids(b)
         /\ \A i \in DOMAIN b : IsMessage(b[i]) => b[i].id \in ReadBy(b)
<1>1. ReadBy(b) \subseteq Ids(b)
  BY CoveredIds DEF ReadBy, writerSources, Ids
<1>2. ASSUME NEW i \in DOMAIN b, IsMessage(b[i]) PROVE b[i].id \in ReadBy(b)
  <2>1. CASE i > CoveredIndex(b)
    BY <2>1 DEF ReadBy, writerSources
  <2>2. CASE ~(i > CoveredIndex(b))
    <3> DEFINE c == Checkpoint(b)
    <3>0. i \in Nat /\ i >= 1
      BY SeqFacts DEF GoodBranch
    <3>1. c # 0
      <4>1. SUFFICES ASSUME c = 0 PROVE FALSE
        OBVIOUS
      <4>2. CoveredIndex(b) = 0
        BY <4>1 DEF CoveredIndex
      <4> QED BY <4>2, <3>0, <2>2
    <3>2. c \in DOMAIN b /\ b[c].kind = "memory"
      BY <3>1, CheckpointIs DEF GoodBranch
    <3>3. CoveredIndex(b) = IndexOf(b, b[c].coveredThrough)
          /\ ReadBefore(b) = b[c].read /\ carriedUserMessages(b) = b[c].carried
      BY <3>1 DEF CoveredIndex, ReadBefore, carriedUserMessages
    <3> HIDE DEF c
    <3>4. CoveredIndex(b) \in 1..(c - 1) /\ c \in Nat
      BY <3>2, <3>3, MemoryAt
    <3>5. i <= CoveredIndex(b) /\ i < c
      BY <3>0, <3>4, <2>2
    <3>6. PICK k \in 1..(c - 1) :
            /\ b[k].id = b[c].coveredThrough
            /\ \A j \in 1..(c - 1) : IsMessage(b[j]) =>
                 IF j <= k THEN Told(b[j], b[c]) ELSE \E f \in 1..j : b[f].id = b[c].firstKept
      BY <3>2 DEF GoodBranch, Accounts
    <3>7. k \in DOMAIN b
      <4>1. DOMAIN b = 1..Len(b) /\ Len(b) \in Nat
        BY SeqFacts DEF GoodBranch
      <4> QED BY <4>1, <3>2, <3>4
    <3>8. k = CoveredIndex(b)
      BY <3>3, <3>6, <3>7, IndexOfIs
    <3>9. i \in 1..(c - 1)
      BY <3>0, <3>4, <3>5
    <3>10. Told(b[i], b[c])
      BY <1>2, <3>5, <3>6, <3>8, <3>9
    <3> QED BY <3>3, <3>10 DEF Told, ReadBy, writerSources
  <2> QED BY <2>1, <2>2
<1> QED BY <1>1, <1>2

\* Work notes: up to the last of them every message is carried or restated.
LEMMA NotesTellAll ==
  ASSUME NEW b, NEW n, GoodBranch(b, n), NEW end \in Nat
  PROVE  /\ ReadByNotes(b, end) \subseteq Ids(b) /\ coveredUserMessages(b, end) \subseteq Ids(b)
         /\ \A i \in DOMAIN b : IsMessage(b[i]) /\ i <= end =>
              \/ b[i].id \in ReadByNotes(b, end)
              \/ IsUser(b[i]) /\ b[i].id \in coveredUserMessages(b, end)
<1>1. \A j \in Active(b) : j \in DOMAIN b
  BY DEF Active
<1>2. ReadByNotes(b, end) \subseteq Ids(b) /\ coveredUserMessages(b, end) \subseteq Ids(b)
  BY <1>1, CoveredIds DEF ReadByNotes, coveredUserMessages, Ids
<1>3. ASSUME NEW i \in DOMAIN b, IsMessage(b[i]), i <= end
      PROVE  \/ b[i].id \in ReadByNotes(b, end)
             \/ IsUser(b[i]) /\ b[i].id \in coveredUserMessages(b, end)
  <2>1. CASE i \in Active(b) /\ IsUser(b[i])
    BY <1>3, <2>1 DEF coveredUserMessages
  <2>2. CASE i \in Active(b) /\ ~IsUser(b[i])
    BY <1>3, <2>2 DEF ReadByNotes
  <2>3. CASE i \notin Active(b)
    <3>1. Checkpoint(b) # 0
      BY <1>3, <2>3 DEF Active
    <3>2. Survives(b, i)
      BY <1>3, <3>1, AllSurvive
    <3> QED BY <2>3, <3>1, <3>2 DEF Survives, ReadByNotes, coveredUserMessages, ReadBefore,
              carriedUserMessages
  <2> QED BY <2>1, <2>2, <2>3
<1> QED BY <1>2, <1>3

----------------------------------------------------------------------------
(* The checkpoints a compaction proposes.                                  *)

LEMMA Behind ==
  ASSUME NEW n \in Nat, NEW e \in 1..n, NEW i \in 1..n, ~(i <= e)
  PROVE  e # n /\ \A f \in 1..(e + 1) : f \in 1..i
OBVIOUS

\* A checkpoint for the places up to end that tells every message there, and
\* keeps all from start on, with start at most one behind end.
LEMMA Proposal ==
  ASSUME NEW b, NEW n, GoodBranch(b, n), NEW end \in 1..Len(b), NEW firstKept, NEW carried, NEW read,
         read \subseteq Ids(b), carried \subseteq Ids(b),
         \A i \in DOMAIN b : IsMessage(b[i]) /\ i <= end =>
           b[i].id \in read \/ (IsUser(b[i]) /\ b[i].id \in carried),
         end = Len(b) \/ (\E f \in 1..(end + 1) : f \in DOMAIN b /\ b[f].id = firstKept)
  PROVE  Proposes(b, Memory(NoId, firstKept, b[end].id, carried, read))
<1> DEFINE memory == Memory(NoId, firstKept, b[end].id, carried, read)
<1>1. /\ DOMAIN memory = {"id", "kind", "firstKept", "coveredThrough", "carried", "read"}
      /\ memory.kind = "memory" /\ memory.coveredThrough = b[end].id /\ memory.firstKept = firstKept
      /\ memory.read = read /\ memory.carried = carried
  BY DEF Memory
<1> HIDE DEF memory
<1>2. DOMAIN b = 1..Len(b) /\ Len(b) \in Nat
  BY SeqFacts DEF GoodBranch
<1>3. Rests(b, Len(b), memory)
  BY <1>1, <1>2 DEF Rests, Ids
<1>4. ASSUME NEW i \in 1..Len(b), IsMessage(b[i]), i <= end PROVE Told(b[i], memory)
  BY <1>1, <1>2, <1>4 DEF Told
<1>5. ASSUME NEW i \in 1..Len(b), ~(i <= end) PROVE \E f \in 1..i : b[f].id = memory.firstKept
  <2>1. end # Len(b) /\ \A f \in 1..(end + 1) : f \in 1..i
    BY <1>2, <1>5, Behind, Zenon
  <2>2. PICK f \in 1..(end + 1) : b[f].id = firstKept
    BY <2>1
  <2>3. f \in 1..i
    BY <2>1
  <2> QED BY <2>2, <2>3, <1>1
<1>6. Accounts(b, Len(b), memory)
  BY <1>1, <1>4, <1>5 DEF Accounts
<1> QED BY <1>1, <1>3, <1>6 DEF Proposes, memory

\* prefixCut starts at most one place behind the end of the prefix.
LEMMA PrefixCutIs ==
  ASSUME NEW b, NEW n, GoodBranch(b, n), NEW end \in Nat, NEW cut, prefixCut(b, end, cut) # 0
  PROVE  prefixCut(b, end, cut) \in 1..(end + 1) /\ prefixCut(b, end, cut) \in DOMAIN b
<1> DEFINE S == {i \in TurnStarts(b) : i <= cut /\ i <= end + 1}
<1>1. DOMAIN b = 1..Len(b) /\ Len(b) \in Nat
  BY SeqFacts DEF GoodBranch
<1>2. S \subseteq DOMAIN b /\ \A i \in S : i <= end + 1
  BY DEF TurnStarts, Active
<1>3. prefixCut(b, end, cut) = MaxOr0(S)
  BY DEF prefixCut
<1> HIDE DEF S
<1>4. MaxOr0(S) \in S
  BY <1>1, <1>2, <1>3, MaxPlace
<1> QED BY <1>1, <1>2, <1>3, <1>4

\* A candidate whose branch the present one goes on from tells all of it.
LEMMA CandidateTells ==
  ASSUME NEW b, NEW n, GoodBranch(b, n), NEW c, Candidate(c, n), IsPrefixOf(c.branch, b)
  PROVE  /\ Len(c.branch) \in 1..Len(b) /\ c.read \subseteq Ids(b)
         /\ \A i \in DOMAIN b : IsMessage(b[i]) /\ i <= Len(c.branch) => b[i].id \in c.read
<1>1. /\ IsSeq(b) /\ IsSeq(c.branch) /\ GoodBranch(c.branch, n) /\ c.branch # <<>> /\ c.read = ReadBy(c.branch)
  BY DEF Candidate, GoodBranch
<1>2. /\ DOMAIN b = 1..Len(b) /\ Len(b) \in Nat
      /\ DOMAIN c.branch = 1..Len(c.branch) /\ Len(c.branch) \in 1..Len(c.branch) /\ Len(c.branch) <= Len(b)
  BY <1>1, SeqFacts DEF IsPrefixOf
<1>3. \A i \in 1..Len(c.branch) : b[i] = c.branch[i] /\ i \in DOMAIN b
  <2>1. SubSeq(b, 1, Len(c.branch)) = c.branch
    BY DEF IsPrefixOf
  <2>2. PICK S : b \in Seq(S)
    BY <1>1 DEF IsSeq
  <2>3. \A i \in 1..Len(c.branch) : SubSeq(b, 1, Len(c.branch))[i] = b[i]
    BY <1>2, <2>2
  <2> QED BY <1>2, <2>1, <2>3
<1>4. c.read \subseteq Ids(b)
  <2>1. Ids(c.branch) \subseteq Ids(b)
    BY <1>2, <1>3 DEF Ids
  <2> QED BY <1>1, <2>1, WriterReadsAll
<1>5. ASSUME NEW i \in DOMAIN b, IsMessage(b[i]), i <= Len(c.branch) PROVE b[i].id \in c.read
  <2>1. i \in DOMAIN c.branch /\ b[i] = c.branch[i]
    BY <1>2, <1>3, <1>5
  <2> QED BY <1>1, <1>5, <2>1, WriterReadsAll
<1>6. Len(c.branch) \in 1..Len(b)
  BY <1>2
<1> QED BY <1>4, <1>5, <1>6

LEMMA Classified ==
  ASSUME NEW c, NEW b, NEW e, NEW sameWriter \in BOOLEAN, NEW plain \in BOOLEAN
  PROVE  /\ classifyPreparation(c, b, e, sameWriter, plain) = "current-full" =>
              IsPrefixOf(c.branch, b) /\ ~(Len(b) > Len(c.branch))
         /\ classifyPreparation(c, b, e, sameWriter, plain) = "new-sources" => IsPrefixOf(c.branch, b)
BY DEF classifyPreparation

LEMMA StatusTells ==
  ASSUME NEW focus \in BOOLEAN, NEW status \in Statuses(focus), status \in {"current-full", "new-sources"}
  PROVE  /\ armed # None /\ IsPrefixOf(armed.branch, branch)
         /\ status = "current-full" => ~(Len(branch) > Len(armed.branch))
<1>1. armed # None
  BY DEF Statuses
<1>2. PICK sameWriter \in BOOLEAN, tooLarge \in BOOLEAN :
        status = classifyPreparation(armed, branch, epoch, sameWriter, ~focus /\ ~tooLarge)
  BY <1>1 DEF Statuses
<1>3. (~focus /\ ~tooLarge) \in BOOLEAN
  OBVIOUS
<1> QED BY <1>1, <1>2, <1>3, Classified

\* The four ways to a checkpoint.
LEMMA PathIs ==
  ASSUME NEW status, NEW focus, NEW p \in Paths(status, focus)
  PROVE  \/ p.memory = WholeBranch(ReadBy(branch))
         \/ status = "current-full" /\ p.memory = WholeBranch(armed.read)
         \/ LET end == reusablePrefix(armed)
                start == prefixCut(branch, end, Cut)
            IN /\ status = "new-sources" /\ end # 0 /\ start # 0
               /\ p.memory = Prefix(start, end, {}, armed.read)
         \/ LET end == MaxOr0(workNotes(branch))
                start == prefixCut(branch, end, Cut)
            IN /\ end # 0 /\ start # 0
               /\ p.memory = Prefix(start, end, coveredUserMessages(branch, end), ReadByNotes(branch, end))
BY DEF Paths

\* What compact reads when it chooses among the paths.
CandidatesGood ==
  /\ lastId \in Nat
  /\ GoodBranch(branch, lastId) /\ branch # <<>>
  /\ armed # None => Candidate(armed, lastId)

LEMMA WholeProposes ==
  ASSUME CandidatesGood, NEW read, read \subseteq Ids(branch),
         \A i \in DOMAIN branch : IsMessage(branch[i]) => branch[i].id \in read
  PROVE  Proposes(branch, WholeBranch(read))
<1> DEFINE firstKept == IF Cut <= Len(branch) THEN branch[Cut].id ELSE NoId
<1>1. Len(branch) \in 1..Len(branch) /\ GoodBranch(branch, lastId)
  BY SeqFacts DEF CandidatesGood, GoodBranch
<1>2. WholeBranch(read) = Memory(NoId, firstKept, branch[Len(branch)].id, {}, read)
  BY DEF WholeBranch, Leaf, Last
<1> HIDE DEF firstKept
<1>3. Proposes(branch, Memory(NoId, firstKept, branch[Len(branch)].id, {}, read))
  BY <1>1, Proposal
<1> QED BY <1>2, <1>3

LEMMA PrefixProposes ==
  ASSUME CandidatesGood, NEW end \in 1..Len(branch), NEW carried, NEW read,
         read \subseteq Ids(branch), carried \subseteq Ids(branch),
         \A i \in DOMAIN branch : IsMessage(branch[i]) /\ i <= end =>
           branch[i].id \in read \/ (IsUser(branch[i]) /\ branch[i].id \in carried),
         prefixCut(branch, end, Cut) # 0
  PROVE  Proposes(branch, Prefix(prefixCut(branch, end, Cut), end, carried, read))
<1> DEFINE start == prefixCut(branch, end, Cut)
<1>1. GoodBranch(branch, lastId) /\ end \in Nat
  BY DEF CandidatesGood
<1>2. start \in 1..(end + 1) /\ start \in DOMAIN branch
  BY <1>1, PrefixCutIs
<1> HIDE DEF start
<1>3. Proposes(branch, Memory(NoId, branch[start].id, branch[end].id, carried, read))
  BY <1>1, <1>2, Proposal
<1> QED BY <1>3 DEF Prefix, start

LEMMA PathsPropose ==
  ASSUME CandidatesGood, NEW focus \in BOOLEAN, NEW status \in Statuses(focus), NEW p \in Paths(status, focus)
  PROVE  Proposes(branch, p.memory)
<1>0. GoodBranch(branch, lastId) /\ IsSeq(branch) /\ DOMAIN branch = 1..Len(branch) /\ Len(branch) \in Nat
  BY SeqFacts DEF CandidatesGood, GoodBranch
<1>1. CASE p.memory = WholeBranch(ReadBy(branch))
  BY <1>0, <1>1, WriterReadsAll, WholeProposes
<1>2. ASSUME status \in {"current-full", "new-sources"}
      PROVE  /\ Len(armed.branch) \in 1..Len(branch) /\ armed.read \subseteq Ids(branch)
             /\ \A i \in DOMAIN branch : IsMessage(branch[i]) /\ i <= Len(armed.branch) =>
                  branch[i].id \in armed.read
             /\ status = "current-full" => Len(armed.branch) = Len(branch)
  <2>1. /\ armed # None /\ IsPrefixOf(armed.branch, branch)
        /\ status = "current-full" => ~(Len(branch) > Len(armed.branch))
    BY <1>2, StatusTells
  <2>2. Candidate(armed, lastId)
    BY <2>1 DEF CandidatesGood
  <2>3. /\ Len(armed.branch) \in 1..Len(branch) /\ armed.read \subseteq Ids(branch)
        /\ \A i \in DOMAIN branch : IsMessage(branch[i]) /\ i <= Len(armed.branch) =>
             branch[i].id \in armed.read
    BY <1>0, <2>1, <2>2, CandidateTells
  <2> QED BY <2>1, <2>3, <1>0
<1>3. CASE status = "current-full" /\ p.memory = WholeBranch(armed.read)
  BY <1>0, <1>2, <1>3, WholeProposes
<1>4. ASSUME NEW end, end = reusablePrefix(armed), status = "new-sources",
             prefixCut(branch, end, Cut) # 0,
             p.memory = Prefix(prefixCut(branch, end, Cut), end, {}, armed.read)
      PROVE  Proposes(branch, p.memory)
  <2>1. end = Len(armed.branch)
    BY <1>4 DEF reusablePrefix
  <2>2. /\ end \in 1..Len(branch) /\ armed.read \subseteq Ids(branch)
        /\ \A i \in DOMAIN branch : IsMessage(branch[i]) /\ i <= end => branch[i].id \in armed.read
    BY <1>2, <1>4, <2>1
  <2> QED BY <1>4, <2>2, PrefixProposes
<1>5. ASSUME NEW end, end = MaxOr0(workNotes(branch)), end # 0, prefixCut(branch, end, Cut) # 0,
             p.memory = Prefix(prefixCut(branch, end, Cut), end, coveredUserMessages(branch, end),
                               ReadByNotes(branch, end))
      PROVE  Proposes(branch, p.memory)
  <2>1. end \in 1..Len(branch)
    <3>1. workNotes(branch) \subseteq 1..Len(branch)
      BY <1>0 DEF workNotes
    <3> QED BY <3>1, <1>0, <1>5, MaxPlace
  <2>2. end \in Nat
    BY <2>1
  <2>3. /\ ReadByNotes(branch, end) \subseteq Ids(branch) /\ coveredUserMessages(branch, end) \subseteq Ids(branch)
        /\ \A i \in DOMAIN branch : IsMessage(branch[i]) /\ i <= end =>
             \/ branch[i].id \in ReadByNotes(branch, end)
             \/ IsUser(branch[i]) /\ branch[i].id \in coveredUserMessages(branch, end)
    BY <1>0, <2>2, NotesTellAll
  <2> QED BY <1>5, <2>1, <2>3, PrefixProposes
<1> QED BY <1>1, <1>3, <1>4, <1>5, PathIs

----------------------------------------------------------------------------
(* How branches grow and are cut back.                                     *)

LEMMA SameUpTo ==
  ASSUME NEW b, NEW d, NEW n \in Nat, \A i \in 1..n : d[i] = b[i], NEW memory
  PROVE  /\ Accounts(b, n, memory) => Accounts(d, n, memory)
         /\ Rests(b, n, memory) => Rests(d, n, memory)
<1>1. ASSUME Accounts(b, n, memory) PROVE Accounts(d, n, memory)
  <2>1. PICK k \in 1..n :
          /\ b[k].id = memory.coveredThrough
          /\ \A i \in 1..n : IsMessage(b[i]) =>
               IF i <= k THEN Told(b[i], memory) ELSE \E f \in 1..i : b[f].id = memory.firstKept
    BY <1>1 DEF Accounts
  <2>2. ASSUME NEW i \in 1..n, \E f \in 1..i : b[f].id = memory.firstKept
        PROVE  \E f \in 1..i : d[f].id = memory.firstKept
    <3>1. PICK f \in 1..i : b[f].id = memory.firstKept
      BY <2>2
    <3>2. f \in 1..n
      OBVIOUS
    <3> QED BY <3>1, <3>2
  <2>3. \A i \in 1..n : IsMessage(d[i]) =>
          IF i <= k THEN Told(d[i], memory) ELSE \E f \in 1..i : d[f].id = memory.firstKept
    BY <2>1, <2>2
  <2> QED BY <2>1, <2>3 DEF Accounts
<1>2. Rests(b, n, memory) => Rests(d, n, memory)
  BY DEF Rests
<1> QED BY <1>1, <1>2

LEMMA Later ==
  ASSUME NEW b, NEW n \in Nat, NEW k \in Nat, n <= k, GoodBranch(b, n) PROVE GoodBranch(b, k)
<1>1. \A i \in 1..n : i \in 1..k
  OBVIOUS
<1> QED BY <1>1 DEF GoodBranch

\* A branch with one more entry, with a new id.
LEMMA Grows ==
  ASSUME NEW b, NEW n \in Nat, GoodBranch(b, n), NEW e, e.id = n + 1,
         e.kind = "memory" => Accounts(b, Len(b), e) /\ Rests(b, Len(b), e)
  PROVE  GoodBranch(Append(b, e), n + 1) /\ Append(b, e) # <<>>
<1> DEFINE d == Append(b, e)
<1>1. PICK S : b \in Seq(S)
  BY DEF GoodBranch, IsSeq
<1>2. /\ d \in Seq(S \cup {e}) /\ DOMAIN d = 1..(Len(b) + 1) /\ DOMAIN b = 1..Len(b) /\ Len(b) \in Nat
      /\ d # <<>> /\ d[Len(b) + 1] = e
      /\ \A i \in 1..Len(b) : d[i] = b[i]
  BY <1>1
<1> HIDE DEF d
<1>3. \A i \in 1..(Len(b) + 1) : i \in 1..Len(b) \/ i = Len(b) + 1
  BY <1>2
<1>4. \A i \in 1..Len(b) : b[i].id \in 1..n
  BY <1>2 DEF GoodBranch
<1>5. n + 1 \notin 1..n /\ n + 1 \in 1..(n + 1) /\ \A i \in 1..n : i \in 1..(n + 1)
  OBVIOUS
<1>6. \A i \in DOMAIN d : d[i].id \in 1..(n + 1)
  BY <1>2, <1>3, <1>4, <1>5
<1>7. ASSUME NEW i \in DOMAIN d, NEW j \in DOMAIN d, d[i].id = d[j].id PROVE i = j
  <2>1. CASE i \in 1..Len(b) /\ j \in 1..Len(b)
    BY <1>2, <1>7, <2>1 DEF GoodBranch
  <2>2. CASE i = Len(b) + 1 /\ j \in 1..Len(b)
    BY <1>2, <1>4, <1>5, <1>7, <2>2
  <2>3. CASE j = Len(b) + 1 /\ i \in 1..Len(b)
    BY <1>2, <1>4, <1>5, <1>7, <2>3
  <2> QED BY <1>2, <1>3, <2>1, <2>2, <2>3
<1>8. ASSUME NEW m \in DOMAIN d, d[m].kind = "memory"
      PROVE  Accounts(d, m - 1, d[m]) /\ Rests(d, m - 1, d[m])
  <2>1. m - 1 \in Nat /\ \A i \in 1..(m - 1) : d[i] = b[i]
    BY <1>2
  <2>2. Accounts(b, m - 1, d[m]) /\ Rests(b, m - 1, d[m])
    <3>1. CASE m \in 1..Len(b)
      BY <1>2, <1>8, <3>1 DEF GoodBranch
    <3>2. CASE m = Len(b) + 1
      <4>1. d[m] = e /\ m - 1 = Len(b)
        BY <1>2, <3>2
      <4> QED BY <4>1, <1>8
    <3> QED BY <1>2, <1>3, <3>1, <3>2
  <2> QED BY <2>1, <2>2, SameUpTo
<1>9. IsSeq(d)
  BY <1>2 DEF IsSeq
<1>10. GoodBranch(d, n + 1)
  BY <1>6, <1>7, <1>8, <1>9 DEF GoodBranch
<1> QED BY <1>2, <1>10 DEF d

LEMMA CutsBack ==
  ASSUME NEW b, NEW n, GoodBranch(b, n), NEW k \in 1..(Len(b) - 1)
  PROVE  GoodBranch(SubSeq(b, 1, k), n) /\ SubSeq(b, 1, k) # <<>>
<1> DEFINE d == SubSeq(b, 1, k)
<1>1. PICK S : b \in Seq(S)
  BY DEF GoodBranch, IsSeq
<1>2. /\ d \in Seq(S) /\ DOMAIN d = 1..k /\ d # <<>>
      /\ \A i \in 1..k : d[i] = b[i]
      /\ \A i \in 1..k : i \in DOMAIN b /\ i - 1 \in Nat
  BY <1>1
<1> HIDE DEF d
<1>3. ASSUME NEW m \in 1..k, d[m].kind = "memory"
      PROVE  Accounts(d, m - 1, d[m]) /\ Rests(d, m - 1, d[m])
  <2>1. m - 1 \in Nat /\ \A i \in 1..(m - 1) : d[i] = b[i]
    BY <1>2
  <2>2. Accounts(b, m - 1, d[m]) /\ Rests(b, m - 1, d[m])
    BY <1>2, <1>3 DEF GoodBranch
  <2> QED BY <2>1, <2>2, SameUpTo
<1>4. IsSeq(d)
  BY <1>2 DEF IsSeq
<1>5. GoodBranch(d, n)
  BY <1>2, <1>3, <1>4 DEF GoodBranch
<1> QED BY <1>2, <1>5 DEF d


----------------------------------------------------------------------------
(* Coverage: the steps.                                                    *)

LEMMA PlainIs ==
  ASSUME NEW id, NEW kind, kind # "memory"
  PROVE  Plain(id, kind).id = id /\ Plain(id, kind).kind = kind
BY DEF Plain

LEMMA StartCovers == Init => CoverageInv
<1> SUFFICES ASSUME Init PROVE CoverageInv
  OBVIOUS
<1> DEFINE u == Plain(1, "user")
           r == Plain(2, "reply")
<1>1. u.id = 1 /\ u.kind = "user" /\ r.id = 2 /\ r.kind = "reply"
  BY PlainIs
<1>2. /\ branch = <<u, r>> /\ lastId = 2 /\ other = <<>> /\ input = None /\ armed = None /\ comp = Idle
      /\ writer = [p \in Purposes |-> Off]
  BY DEF Init
<1> HIDE DEF u, r
<1>3. IsSeq(branch) /\ branch # <<>> /\ DOMAIN branch = {1, 2} /\ branch[1] = u /\ branch[2] = r
  <2>1. branch \in Seq({u, r})
    BY <1>2
  <2>2. Len(branch) = 2 /\ branch[1] = u /\ branch[2] = r /\ DOMAIN branch = 1..2
    BY <1>2
  <2>3. 1..2 = {1, 2}
    OBVIOUS
  <2> QED BY <1>2, <2>1, <2>2, <2>3 DEF IsSeq
<1>4. GoodBranch(branch, lastId)
  BY <1>1, <1>2, <1>3 DEF GoodBranch
<1>5. GoodBranch(other, lastId)
  <2>1. other \in Seq({}) /\ DOMAIN other = {}
    BY <1>2
  <2> QED BY <2>1 DEF GoodBranch, IsSeq
<1>6. writer["compaction"].phase = "off"
  BY <1>2, Blank, Purposed
<1> QED BY <1>2, <1>3, <1>4, <1>5, <1>6 DEF CoverageInv

\* A step that leaves the branches and the compaction alone, and takes no new
\* snapshot.
LetsCover ==
  /\ UNCHANGED <<branch, other, lastId, comp>>
  /\ input' = input \/ input' = None
  /\ armed' = armed \/ armed' = None \/ armed' = input
  /\ writer'["compaction"].phase # "off" => writer["compaction"].phase # "off"

LEMMA BesideCovers == CoverageInv /\ LetsCover => CoverageInv'
BY DEF CoverageInv, LetsCover

\* A checkpoint proposed for a source fits the branch that goes on from it.
LEMMA StillAccounts ==
  ASSUME NEW s, NEW b, IsSeq(s), IsSeq(b), Begins(s, b), NEW memory, Proposes(s, memory), NEW id
  PROVE  LET e == [memory EXCEPT !.id = id]
         IN /\ e.id = id /\ e.kind = "memory"
            /\ Accounts(b, Len(b), e) /\ Rests(b, Len(b), e)
<1> DEFINE e == [memory EXCEPT !.id = id]
<1>1. /\ e.id = id /\ e.kind = "memory" /\ e.coveredThrough = memory.coveredThrough
      /\ e.firstKept = memory.firstKept /\ e.read = memory.read /\ e.carried = memory.carried
  BY DEF Proposes
<1> HIDE DEF e
<1>2. /\ Len(s) \in Nat /\ Len(b) \in Nat /\ Len(s) <= Len(b)
      /\ \A i \in 1..Len(s) : b[i] = s[i]
      /\ \A i \in (Len(s) + 1)..Len(b) : b[i].kind = "custom"
  BY SeqFacts DEF Begins
<1>3. PICK k \in 1..Len(s) :
        /\ s[k].id = memory.coveredThrough
        /\ \A i \in 1..Len(s) : IsMessage(s[i]) =>
             IF i <= k THEN Told(s[i], memory) ELSE \E f \in 1..i : s[f].id = memory.firstKept
  BY DEF Proposes, Accounts
<1>4. \A i \in 1..Len(s) : i \in 1..Len(b)
  BY <1>2
<1>5. \A i \in 1..Len(b) : i \in 1..Len(s) \/ ~IsMessage(b[i])
  <2>1. \A i \in 1..Len(b) : i \in 1..Len(s) \/ i \in (Len(s) + 1)..Len(b)
    BY <1>2
  <2> QED BY <2>1, <1>2 DEF IsMessage
<1>6. \A x : Told(x, memory) => Told(x, e)
  BY <1>1 DEF Told
<1>7. ASSUME NEW i \in 1..Len(s), \E f \in 1..i : s[f].id = memory.firstKept
      PROVE  \E f \in 1..i : b[f].id = e.firstKept
  <2>1. PICK f \in 1..i : s[f].id = memory.firstKept
    BY <1>7
  <2>2. f \in 1..Len(s)
    BY <1>2
  <2> QED BY <2>1, <2>2, <1>1, <1>2
<1>8. \A i \in 1..Len(b) : IsMessage(b[i]) =>
        IF i <= k THEN Told(b[i], e) ELSE \E f \in 1..i : b[f].id = e.firstKept
  BY <1>2, <1>3, <1>5, <1>6, <1>7
<1>9. Accounts(b, Len(b), e)
  BY <1>1, <1>2, <1>3, <1>4, <1>8 DEF Accounts
<1>10. Rests(b, Len(b), e)
  <2>1. memory.read \cup memory.carried \subseteq {s[j].id : j \in 1..Len(s)}
    BY DEF Proposes, Rests
  <2> QED BY <2>1, <1>1, <1>2, <1>4 DEF Rests
<1> QED BY <1>1, <1>9, <1>10 DEF e

\* What other branches and candidates are good for stays when ids are given.
LEMMA OthersLater ==
  ASSUME CoverageInv, lastId' = lastId + 1
  PROVE  /\ lastId' \in Nat /\ GoodBranch(other, lastId')
         /\ input # None => Candidate(input, lastId')
         /\ armed # None => Candidate(armed, lastId')
<1>1. lastId \in Nat /\ lastId + 1 \in Nat /\ lastId <= lastId + 1
  BY DEF CoverageInv
<1>2. ASSUME NEW b, GoodBranch(b, lastId) PROVE GoodBranch(b, lastId')
  BY <1>1, <1>2, Later
<1> QED BY <1>1, <1>2 DEF CoverageInv, Candidate

\* An entry without meaning for checkpoints.
LEMMA AddCovers ==
  ASSUME CoverageInv, NEW kind, kind # "memory", Add(Plain(lastId + 1, kind)),
         comp = Idle \/ kind = "custom",
         UNCHANGED <<other, input, armed, comp, writer>>
  PROVE  CoverageInv'
<1> DEFINE e == Plain(lastId + 1, kind)
<1>1. e.id = lastId + 1 /\ e.kind = kind /\ branch' = Append(branch, e) /\ lastId' = lastId + 1
  BY PlainIs DEF Add
<1> HIDE DEF e
<1>2. lastId \in Nat /\ GoodBranch(branch, lastId)
  BY DEF CoverageInv
<1>3. GoodBranch(branch', lastId') /\ branch' # <<>>
  BY <1>1, <1>2, Grows
<1>4. ASSUME comp # Idle, NEW s, IsSeq(s), Begins(s, branch) PROVE Begins(s, branch')
  <2>1. PICK S : branch \in Seq(S)
    BY <1>2 DEF GoodBranch, IsSeq
  <2>2. /\ Len(branch') = Len(branch) + 1 /\ Len(branch) \in Nat /\ branch'[Len(branch) + 1] = e
        /\ \A i \in 1..Len(branch) : branch'[i] = branch[i]
    BY <1>1, <2>1
  <2>3. Len(s) \in Nat /\ Len(s) <= Len(branch)
    BY <1>4, SeqFacts DEF Begins
  <2>4. \A i \in 1..Len(s) : i \in 1..Len(branch)
    BY <2>2, <2>3
  <2>5. \A i \in (Len(s) + 1)..(Len(branch) + 1) :
          (i \in (Len(s) + 1)..Len(branch) /\ i \in 1..Len(branch)) \/ i = Len(branch) + 1
    BY <2>2, <2>3
  <2>6. Len(s) <= Len(branch) + 1
    BY <2>2, <2>3
  <2> QED BY <1>1, <1>4, <2>2, <2>4, <2>5, <2>6 DEF Begins
<1>5. comp # Idle => Begins(comp.source, branch')
  BY <1>4 DEF CoverageInv
<1> QED BY <1>1, <1>3, <1>5, OthersLater DEF CoverageInv

LEMMA EntriesCover ==
  CoverageInv /\ (Prompt \/ Reply \/ WorkNote \/ CustomEntry) => CoverageInv'
<1> SUFFICES ASSUME CoverageInv, Prompt \/ Reply \/ WorkNote \/ CustomEntry PROVE CoverageInv'
  OBVIOUS
<1>1. UNCHANGED <<other, input, armed, comp, writer>>
  BY DEF Prompt, Reply, WorkNote, CustomEntry, SessionStep, commitVars
<1>2. CASE Prompt
  BY <1>1, <1>2, AddCovers DEF Prompt, Quiet
<1>3. CASE Reply
  BY <1>1, <1>3, AddCovers DEF Reply, Quiet
<1>4. CASE WorkNote
  BY <1>1, <1>4, AddCovers DEF WorkNote, Quiet
<1>5. CASE CustomEntry
  BY <1>1, <1>5, AddCovers DEF CustomEntry
<1> QED BY <1>2, <1>3, <1>4, <1>5

\* The snapshot of a run is the branch as it stands.
LEMMA PrepareCovers == CoverageInv /\ PreparationInv /\ prepare => CoverageInv'
<1> SUFFICES ASSUME CoverageInv, PreparationInv, prepare PROVE CoverageInv'
  OBVIOUS
<1>1. /\ input' = freezePreparationInput(branch, epoch)
      /\ branch' = branch /\ other' = other /\ lastId' = lastId /\ armed' = armed /\ comp' = comp
      /\ writer' = [writer EXCEPT !["preparation"] = Ready]
  BY DEF prepare, sessionVars, commitVars
<1>2. input'.branch = branch /\ input'.read = ReadBy(branch)
  BY <1>1 DEF freezePreparationInput
<1>3. writer'["compaction"] = writer["compaction"]
  BY <1>1, Calls, Purposed
<1> QED BY <1>1, <1>2, <1>3 DEF CoverageInv, Candidate

LEMMA AbortCovers ==
  ASSUME PreparationInv, NEW q \in Purposes, writer' = Abort(q)
  PROVE  writer'["compaction"].phase # "off" => writer["compaction"].phase # "off"
BY AbortWriter, Purposed

LEMMA RunsCover ==
  CoverageInv /\ PreparationInv /\ (RunEnds \/ Deadline \/ invalidate \/ BeforeTree \/ UserAborts \/ recover)
    => CoverageInv'
<1> SUFFICES ASSUME CoverageInv, PreparationInv,
                    RunEnds \/ Deadline \/ invalidate \/ BeforeTree \/ UserAborts \/ recover
             PROVE  CoverageInv'
  OBVIOUS
<1>1. CASE RunEnds
  <2>1. /\ UNCHANGED <<branch, other, lastId, comp>> /\ input' = None
        /\ armed' = armed \/ armed' = input
        /\ writer' = [writer EXCEPT !["preparation"] = Off]
    BY <1>1 DEF RunEnds, sessionVars, commitVars
  <2>2. writer'["compaction"] = writer["compaction"]
    BY <2>1, Calls, Purposed
  <2> QED BY <2>1, <2>2, BesideCovers DEF LetsCover
<1>2. CASE Deadline \/ invalidate \/ BeforeTree \/ UserAborts \/ recover
  <2>1. /\ UNCHANGED <<branch, other, lastId, comp>> /\ input' = input
        /\ armed' = armed \/ armed' = None
        /\ writer' = Abort("preparation") \/ writer' = Abort("compaction")
    BY <1>2 DEF Deadline, invalidate, BeforeTree, UserAborts, recover, Invalidation, PreparationCommitted,
         sessionVars, commitVars
  <2>2. writer'["compaction"].phase # "off" => writer["compaction"].phase # "off"
    BY <2>1, AbortCovers, Purposed
  <2> QED BY <2>1, <2>2, BesideCovers DEF LetsCover
<1> QED BY <1>1, <1>2

LEMMA NavigateCovers == CoverageInv /\ Navigate => CoverageInv'
<1> SUFFICES ASSUME CoverageInv, Navigate PROVE CoverageInv'
  OBVIOUS
<1>1. /\ comp = Idle /\ comp' = comp /\ other' = branch /\ lastId' = lastId /\ input' = input
      /\ armed' = armed /\ writer' = writer
      /\ \/ \E n \in 1..(Len(branch) - 1) : branch' = SubSeq(branch, 1, n)
         \/ other # <<>> /\ branch' = other
  BY DEF Navigate, commitVars
<1>2. GoodBranch(branch', lastId) /\ branch' # <<>>
  BY <1>1, CutsBack DEF CoverageInv
<1> QED BY <1>1, <1>2 DEF CoverageInv

LEMMA WriterCovers ==
  ASSUME CoverageInv, PreparationInv, NEW p \in Purposes, WriterStep(p) PROVE CoverageInv'
<1>1. UNCHANGED <<branch, other, lastId, comp>> /\ input' = input /\ armed' = armed
  BY DEF WriterStep, WriterFails, beforeDispatch, Dispatch, afterDispatch, CallUnchanged, sessionVars,
     commitVars
<1>2. writer[p].phase # "off" /\ \A q \in Purposes : q # p => writer'[q] = writer[q]
  <2>1. writer[p].phase # "off"
    BY DEF WriterStep, WriterFails, beforeDispatch, Dispatch, afterDispatch
  <2>2. writer \in [Purposes -> WriterRec]
    BY Calls
  <2>3. ASSUME NEW phase, writer' = To(p, phase) PROVE \A q \in Purposes : q # p => writer'[q] = writer[q]
    BY <2>2, <2>3 DEF To
  <2>4. \/ \E phase : writer' = To(p, phase)
        \/ \E r : writer' = [writer EXCEPT ![p] = r]
    BY DEF WriterStep, WriterFails, beforeDispatch, Dispatch, afterDispatch
  <2>5. ASSUME NEW r, writer' = [writer EXCEPT ![p] = r]
        PROVE  \A q \in Purposes : q # p => writer'[q] = writer[q]
    BY <2>2, <2>5
  <2> QED BY <2>1, <2>3, <2>4, <2>5
<1>3. writer'["compaction"].phase # "off" => writer["compaction"].phase # "off"
  BY <1>2, Purposed
<1> QED BY <1>1, <1>3, BesideCovers DEF LetsCover

LEMMA CrashCovers == CoverageInv /\ Crash => CoverageInv'
<1> SUFFICES ASSUME CoverageInv, Crash PROVE CoverageInv'
  OBVIOUS
<1>1. /\ UNCHANGED <<branch, other, lastId>> /\ input' = None /\ armed' = None /\ comp' = Idle
      /\ writer' = [p \in Purposes |-> Off]
  BY DEF Crash
<1>2. writer'["compaction"].phase = "off"
  BY <1>1, Blank, Purposed
<1> QED BY <1>1, <1>2 DEF CoverageInv

\* A compaction that begins with a proposal for the branch as it stands.
LEMMA ProposalCovers ==
  ASSUME CoverageInv, NEW phase \in {"writing", "staged"}, NEW memory, Proposes(branch, memory),
         comp' = [phase |-> phase, source |-> branch, memory |-> memory],
         UNCHANGED <<branch, other, lastId, input>>, armed' = armed \/ armed' = None,
         writer'["compaction"].phase # "off" => phase = "writing"
  PROVE  CoverageInv'
<1>1. /\ DOMAIN comp' = {"phase", "source", "memory"} /\ comp'.phase = phase
      /\ comp'.source = branch /\ comp'.memory = memory
  OBVIOUS
<1>2. IsSeq(branch)
  BY DEF CoverageInv, GoodBranch
<1>3. Begins(branch, branch)
  <2>1. Len(branch) \in Nat
    BY <1>2, SeqFacts
  <2>2. \A i \in (Len(branch) + 1)..Len(branch) : FALSE
    BY <2>1
  <2> QED BY <2>1, <2>2 DEF Begins
<1> QED BY <1>1, <1>2, <1>3 DEF CoverageInv

LEMMA IdleCovers ==
  ASSUME CoverageInv, comp' = Idle, UNCHANGED <<branch, other, lastId, input>>,
         armed' = armed \/ armed' = None, writer'["compaction"].phase = "off"
  PROVE  CoverageInv'
BY DEF CoverageInv

LEMMA CompactCovers == CoverageInv /\ PreparationInv /\ CompactBegins => CoverageInv'
<1> SUFFICES ASSUME CoverageInv, PreparationInv, CompactBegins PROVE CoverageInv'
  OBVIOUS
<1>1. comp = Idle /\ UNCHANGED <<branch, other, lastId, input>>
  BY DEF CompactBegins, sessionVars
<1>2. writer["compaction"].phase = "off"
  BY <1>1 DEF CoverageInv, Idle
<1>3. ASSUME writer' = Abort("preparation") PROVE writer'["compaction"].phase = "off"
  BY <1>2, <1>3, AbortWriter, Purposed
<1>4. CandidatesGood
  BY DEF CandidatesGood, CoverageInv
<1>5. ASSUME NEW focus \in BOOLEAN, NEW status \in Statuses(focus), NEW p \in Paths(status, focus),
             \/ /\ comp' = [phase |-> "writing", source |-> branch, memory |-> p.memory]
                /\ armed' = Drops(status)
             \/ /\ writer' = Abort("preparation")
                /\ \/ /\ comp' = [phase |-> "staged", source |-> branch, memory |-> p.memory]
                      /\ armed' = IF p.path = "notes" THEN Drops(status) ELSE None
                   \/ comp' = Idle /\ armed' = Drops(status)
      PROVE  CoverageInv'
  <2>1. Proposes(branch, p.memory)
    BY <1>4, PathsPropose
  <2>2. armed' = armed \/ armed' = None
    BY <1>5 DEF Drops
  <2>3. CASE comp' = [phase |-> "writing", source |-> branch, memory |-> p.memory]
    BY <1>1, <2>1, <2>2, <2>3, ProposalCovers
  <2>4. CASE writer' = Abort("preparation")
             /\ comp' = [phase |-> "staged", source |-> branch, memory |-> p.memory]
    BY <1>1, <1>3, <2>1, <2>2, <2>4, ProposalCovers
  <2>5. CASE writer' = Abort("preparation") /\ comp' = Idle
    BY <1>1, <1>3, <2>2, <2>5, IdleCovers
  <2> QED BY <1>5, <2>3, <2>4, <2>5
<1>6. CASE comp' = Idle /\ writer' = Abort("preparation") /\ UNCHANGED armed
  BY <1>1, <1>3, <1>6, IdleCovers
<1>7. \/ comp' = Idle /\ writer' = Abort("preparation") /\ UNCHANGED armed
      \/ \E focus \in BOOLEAN : \E status \in Statuses(focus) : \E p \in Paths(status, focus) :
           \/ /\ comp' = [phase |-> "writing", source |-> branch, memory |-> p.memory]
              /\ armed' = Drops(status)
           \/ /\ writer' = Abort("preparation")
              /\ \/ /\ comp' = [phase |-> "staged", source |-> branch, memory |-> p.memory]
                    /\ armed' = IF p.path = "notes" THEN Drops(status) ELSE None
                 \/ comp' = Idle /\ armed' = Drops(status)
  BY DEF CompactBegins, Fails
<1> QED BY <1>5, <1>6, <1>7

LEMMA WrittenCovers == CoverageInv /\ PreparationInv /\ CompactWritten => CoverageInv'
<1> SUFFICES ASSUME CoverageInv, PreparationInv, CompactWritten PROVE CoverageInv'
  OBVIOUS
<1>1. /\ UNCHANGED <<branch, other, lastId, input, armed>>
      /\ writer["compaction"].phase # "off" /\ writer' = [writer EXCEPT !["compaction"] = Off]
      /\ comp' = [comp EXCEPT !.phase = "staged"] \/ comp' = Idle
  BY DEF CompactWritten, Fails, sessionVars
<1>2. writer'["compaction"].phase = "off"
  BY <1>1, Calls, Blank, Purposed
<1>3. CASE comp' = Idle
  BY <1>1, <1>2, <1>3, IdleCovers
<1>4. CASE comp' = [comp EXCEPT !.phase = "staged"]
  <2>1. comp.phase = "writing" /\ comp # Idle
    BY <1>1 DEF CoverageInv, Idle
  <2>2. DOMAIN comp = {"phase", "source", "memory"}
    BY <2>1 DEF CoverageInv
  <2>3. /\ DOMAIN comp' = {"phase", "source", "memory"} /\ comp'.phase = "staged"
        /\ comp'.source = comp.source /\ comp'.memory = comp.memory
    BY <1>4, <2>2
  <2> QED BY <1>1, <1>2, <2>1, <2>3 DEF CoverageInv
<1> QED BY <1>1, <1>3, <1>4

LEMMA AppendedCovers == CoverageInv /\ PreparationInv /\ (HostAppends \/ AppendFails) => CoverageInv'
<1> SUFFICES ASSUME CoverageInv, PreparationInv, HostAppends \/ AppendFails PROVE CoverageInv'
  OBVIOUS
<1>1. comp.phase = "staged" /\ comp' = Idle /\ other' = other /\ input' = input
      /\ (armed' = armed \/ armed' = None)
      /\ (writer' = writer \/ writer' = Abort("preparation"))
  BY DEF HostAppends, AppendFails, PreparationCommitted, Fails, sessionVars
<1>2. comp # Idle /\ writer["compaction"].phase = "off"
  BY <1>1 DEF CoverageInv, Idle
<1>3. writer'["compaction"].phase = "off"
  BY <1>1, <1>2, AbortWriter, Purposed
<1>4. CASE AppendFails
  <2>1. UNCHANGED <<branch, other, lastId, input>>
    BY <1>4 DEF AppendFails, sessionVars
  <2> QED BY <1>1, <1>3, <2>1, IdleCovers
<1>5. CASE HostAppends
  <2> DEFINE e == [comp.memory EXCEPT !.id = lastId + 1]
  <2>1. branch' = Append(branch, e) /\ lastId' = lastId + 1
    BY <1>5 DEF HostAppends, Add
  <2>2. /\ IsSeq(comp.source) /\ Begins(comp.source, branch) /\ Proposes(comp.source, comp.memory)
        /\ GoodBranch(branch, lastId) /\ IsSeq(branch) /\ lastId \in Nat
    BY <1>2 DEF CoverageInv, GoodBranch
  <2>3. /\ e.id = lastId + 1 /\ e.kind = "memory"
        /\ Accounts(branch, Len(branch), e) /\ Rests(branch, Len(branch), e)
    BY <2>2, StillAccounts
  <2> HIDE DEF e
  <2>4. GoodBranch(branch', lastId') /\ branch' # <<>>
    BY <2>1, <2>2, <2>3, Grows
  <2> QED BY <1>1, <1>3, <2>1, <2>4, OthersLater DEF CoverageInv
<1> QED BY <1>4, <1>5

\* Over navigation, cancellation, late results, retries and crashes, every
\* checkpoint of a branch, and every one under way or prepared, accounts for
\* the messages before it (controller.ts compact, preparation.ts take,
\* cuts.ts, work-notes.ts).
THEOREM CoverageHolds == Spec => []CoverageInv
<1>1. ASSUME CoverageInv, PreparationInv, [Next]_vars PROVE CoverageInv'
  <2>1. CASE UNCHANGED vars
    <3>1. UNCHANGED <<branch, other, lastId, comp, input, armed, writer>>
      BY <2>1 DEF vars, sessionVars, commitVars
    <3> QED BY <3>1, <1>1 DEF CoverageInv
  <2> QED BY <1>1, <2>1, EntriesCover, PrepareCovers, RunsCover, NavigateCovers, CompactCovers, WrittenCovers,
             AppendedCovers, WriterCovers, CrashCovers DEF Next
<1> QED BY <1>1, StartCovers, PreparationHolds, PTL DEF Spec

\* No original is lost from checkpoint to checkpoint: it is still in context,
\* or was read for a note the latest one rests on, or is a user message it
\* carries verbatim (controller.ts compact, cuts.ts, work-notes.ts).
THEOREM NothingIsLost == Spec => []OriginalsSurvive
<1>1. CoverageInv => OriginalsSurvive
  <2> SUFFICES ASSUME CoverageInv, Checkpoint(branch) # 0, NEW i \in DOMAIN branch, IsMessage(branch[i])
               PROVE  Survives(branch, i)
    BY DEF OriginalsSurvive, Survives
  <2> QED BY AllSurvive DEF CoverageInv
<1> QED BY <1>1, CoverageHolds, PTL

\* A note rests on originals of its own branch only (preparation.ts start,
\* take; classifyPreparation).
THEOREM NotesStayOnTheirBranch == Spec => []NotesRestOnTheirBranch
<1>1. CoverageInv => NotesRestOnTheirBranch
  BY MemoryAt DEF CoverageInv, NotesRestOnTheirBranch
<1> QED BY <1>1, CoverageHolds, PTL

----------------------------------------------------------------------------
(* Types.  TypeOK is inductive beside the two invariants above, which give *)
(* the writers' records, the calls' numbers and what a checkpoint covers.  *)

LEMMA Sizes == MaxEntries \in Nat /\ MaxEntries >= 2 /\ WriterCalls \in Nat
BY PreparationAssumption

SessionTyped ==
  /\ IsBranch(branch) /\ IsBranch(other) /\ branch # <<>>
  /\ navigating \in BOOLEAN /\ lastId \in 0..MaxEntries

IsSnapshot(c) == IsBranch(c.branch) /\ c.epoch \in Nat

PreparationTyped ==
  /\ epoch \in Nat
  /\ input # None => IsSnapshot(input)
  /\ armed # None => IsSnapshot(armed)

CommitTyped ==
  /\ comp = Idle \/ (comp.phase \in {"writing", "staged"} /\ comp.memory \in Entries)
  /\ blocked \in BOOLEAN /\ unconfirmed \in 0..MaxEntries

Made == \A p \in Purposes : writer[p].made <= WriterCalls

GapTyped == gap \in {"none", "unreadable", "unwritable"}

Typing == SessionTyped /\ PreparationTyped /\ CommitTyped /\ Made /\ GapTyped

LEMMA TypingIs == Typing /\ PreparationInv => TypeOK
<1> SUFFICES ASSUME Typing, PreparationInv PROVE TypeOK
  OBVIOUS
<1>1. \A c \in {input, armed} \ {None} : IsBranch(c.branch) /\ c.epoch \in Nat
  BY DEF Typing, PreparationTyped, IsSnapshot
<1>2. writer \in [Purposes -> [phase : Phases, call : Nat, made : 0..WriterCalls, aborted : BOOLEAN]]
  <2>1. writer \in [Purposes -> WriterRec]
    BY Calls
  <2>2. ASSUME NEW w \in WriterRec, w.made <= WriterCalls
        PROVE  w \in [phase : Phases, call : Nat, made : 0..WriterCalls, aborted : BOOLEAN]
    BY <2>2, Sizes DEF WriterRec
  <2>3. \A p \in Purposes : writer[p].made <= WriterCalls
    BY DEF Typing, Made
  <2> QED BY <2>1, <2>2, <2>3
<1>3. DOMAIN calls \subseteq 1..lastCall
  BY DEF PreparationInv, Numbered
<1>4. SessionTyped /\ CommitTyped /\ GapTyped /\ epoch \in Nat
  BY DEF Typing, PreparationTyped
<1> QED BY <1>1, <1>2, <1>3, <1>4 DEF TypeOK, SessionTyped, CommitTyped, GapTyped, Phases

\* Plain entries and checkpoints.
LEMMA PlainEntry ==
  ASSUME NEW kind \in Kinds, NEW id \in 1..MaxEntries PROVE Plain(id, kind) \in Entries
BY DEF Plain, Entries

LEMMA MemoryEntry ==
  ASSUME NEW firstKept \in 0..MaxEntries, NEW coveredThrough \in 1..MaxEntries,
         NEW carried \in SUBSET (1..MaxEntries), NEW read \in SUBSET (1..MaxEntries)
  PROVE  Memory(NoId, firstKept, coveredThrough, carried, read) \in Entries
<1>1. NoId \in 0..MaxEntries
  BY Sizes DEF NoId
<1> QED BY <1>1 DEF Memory, Entries

LEMMA NumberedEntry ==
  ASSUME NEW memory \in Entries, memory.kind = "memory", NEW id \in 1..MaxEntries
  PROVE  [memory EXCEPT !.id = id] \in Entries
<1> DEFINE M == [id : 0..MaxEntries, kind : {"memory"}, firstKept : 0..MaxEntries,
                 coveredThrough : 1..MaxEntries, carried : SUBSET (1..MaxEntries),
                 read : SUBSET (1..MaxEntries)]
<1>1. memory \in M
  BY DEF Entries, Kinds
<1>2. id \in 0..MaxEntries
  BY Sizes
<1>3. [memory EXCEPT !.id = id] \in M
  BY <1>1, <1>2
<1> QED BY <1>3 DEF Entries

LEMMA BranchGrows ==
  ASSUME NEW b, IsSeq(b), IsBranch(b), NEW e \in Entries
  PROVE  IsBranch(Append(b, e)) /\ Append(b, e) # <<>>
<1> DEFINE d == Append(b, e)
<1>1. PICK S : b \in Seq(S)
  BY DEF IsSeq
<1>2. /\ DOMAIN d = 1..(Len(b) + 1) /\ Len(d) = Len(b) + 1 /\ DOMAIN b = 1..Len(b) /\ Len(b) \in Nat
      /\ d # <<>> /\ d[Len(b) + 1] = e
      /\ \A i \in 1..Len(b) : d[i] = b[i]
  BY <1>1
<1> HIDE DEF d
<1>3. \A i \in 1..(Len(b) + 1) : i \in 1..Len(b) \/ i = Len(b) + 1
  BY <1>2
<1>4. \A i \in DOMAIN d : d[i] \in Entries
  BY <1>2, <1>3 DEF IsBranch
<1>5. IsBranch(d) /\ d # <<>>
  BY <1>2, <1>4 DEF IsBranch
<1> QED BY <1>5 DEF d

LEMMA BranchCutBack ==
  ASSUME NEW b, IsSeq(b), IsBranch(b), NEW k \in 1..(Len(b) - 1)
  PROVE  IsBranch(SubSeq(b, 1, k)) /\ SubSeq(b, 1, k) # <<>>
<1> DEFINE d == SubSeq(b, 1, k)
<1>1. PICK S : b \in Seq(S)
  BY DEF IsSeq
<1>2. /\ DOMAIN d = 1..k /\ Len(d) = k /\ d # <<>>
      /\ \A i \in 1..k : d[i] = b[i] /\ i \in DOMAIN b
  BY <1>1
<1> HIDE DEF d
<1>3. IsBranch(d) /\ d # <<>>
  BY <1>2 DEF IsBranch
<1> QED BY <1>3 DEF d

\* Where compact cuts: a place of the branch, one behind it, or 0.
LEMMA LeastPlace ==
  ASSUME NEW n \in Nat, NEW S, S \subseteq 1..n, S # {} PROVE Min(S) \in Nat
<1>1. S \subseteq Nat
  OBVIOUS
<1>2. \E x \in S : \A y \in S : x <= y
  BY <1>1, Least
<1>3. Min(S) \in S
  BY <1>2 DEF Min
<1> QED BY <1>1, <1>3, Zenon

LEMMA ChooseCutIs == ASSUME NEW b, IsSeq(b) PROVE chooseCut(b) \in Nat
<1> DEFINE starts == TurnStarts(b)
           full == {i \in DOMAIN b : Cardinality({j \in Active(b) : j >= i}) >= KeepRecent}
           later == {i \in starts : full # {} /\ i >= Max(full)}
<1>1. DOMAIN b = 1..Len(b) /\ Len(b) \in Nat
  BY SeqFacts
<1>2. starts \subseteq 1..Len(b) /\ later \subseteq 1..Len(b)
  BY <1>1 DEF TurnStarts, Active
<1>3. \/ chooseCut(b) = Len(b) + 1
      \/ later # {} /\ chooseCut(b) = Min(later)
      \/ chooseCut(b) = MaxOr0(starts)
  BY DEF chooseCut
<1> HIDE DEF starts, later
<1>4. later # {} => Min(later) \in Nat
  BY <1>1, <1>2, LeastPlace, Zenon
<1>5. MaxOr0(starts) \in Nat
  BY <1>1, <1>2, MaxPlace
<1> QED BY <1>1, <1>3, <1>4, <1>5

LEMMA InterruptedIs == ASSUME NEW b, IsSeq(b) PROVE interruptedTurnStart(b) \in Nat
<1> DEFINE completed == MaxOr0({i \in DOMAIN b : b[i].kind = "reply"})
           users == {i \in DOMAIN b : i > completed /\ IsUser(b[i])}
<1>1. DOMAIN b = 1..Len(b) /\ Len(b) \in Nat
  BY SeqFacts
<1>2. users \subseteq 1..Len(b)
  BY <1>1
<1>3. interruptedTurnStart(b) = 0 \/ (users # {} /\ interruptedTurnStart(b) = Min(users))
  BY DEF interruptedTurnStart
<1> HIDE DEF users
<1>4. users # {} => Min(users) \in Nat
  BY <1>1, <1>2, LeastPlace, Zenon
<1>5. 0 \in Nat
  OBVIOUS
<1> QED BY <1>3, <1>4, <1>5, Zenon

LEMMA CutIs == ASSUME IsSeq(branch) PROVE Cut \in Nat
<1> DEFINE x == chooseCut(branch)
           y == IF Completed THEN Len(branch) + 1 ELSE interruptedTurnStart(branch)
<1>1. Cut = Min({x, y})
  BY DEF Cut
<1>2. x \in Nat /\ y \in Nat
  BY ChooseCutIs, InterruptedIs, SeqFacts
<1> HIDE DEF x, y
<1>3. \E z \in {x, y} : \A u \in {x, y} : z <= u
  <2>1. CASE x <= y
    BY <1>2, <2>1
  <2>2. CASE ~(x <= y)
    BY <1>2, <2>2
  <2> QED BY <2>1, <2>2
<1>4. Min({x, y}) \in {x, y}
  BY <1>3 DEF Min
<1> QED BY <1>1, <1>2, <1>4

\* What compact proposes is an entry.
LEMMA PathsTyped ==
  ASSUME CandidatesGood, lastId <= MaxEntries, Cut >= 2,
         NEW focus \in BOOLEAN, NEW status \in Statuses(focus), NEW p \in Paths(status, focus)
  PROVE  p.memory \in Entries
<1> DEFINE memory == p.memory
<1>1. /\ GoodBranch(branch, lastId) /\ IsSeq(branch) /\ DOMAIN branch = 1..Len(branch)
      /\ Len(branch) \in Nat /\ lastId \in Nat
  BY SeqFacts DEF CandidatesGood, GoodBranch
<1>2. \A i \in DOMAIN branch : branch[i].id \in 1..MaxEntries
  <2>1. \A i \in 1..lastId : i \in 1..MaxEntries
    BY <1>1, Sizes
  <2> QED BY <1>1, <2>1 DEF GoodBranch
<1>3. memory.coveredThrough \in 1..MaxEntries
      /\ memory.carried \subseteq 1..MaxEntries /\ memory.read \subseteq 1..MaxEntries
  <2>1. Proposes(branch, memory)
    BY PathsPropose
  <2>2. PICK k \in 1..Len(branch) : branch[k].id = memory.coveredThrough
    BY <2>1 DEF Proposes, Accounts
  <2>3. memory.read \cup memory.carried \subseteq {branch[j].id : j \in 1..Len(branch)}
    BY <2>1 DEF Proposes, Rests
  <2> HIDE DEF memory
  <2> QED BY <1>1, <1>2, <2>2, <2>3
<1>4. \A i \in DOMAIN branch : branch[i].id \in 0..MaxEntries
  BY <1>2
<1>5. NoId \in 0..MaxEntries
  BY Sizes DEF NoId
<1>6. ASSUME NEW read, memory = WholeBranch(read) PROVE memory \in Entries
  <2> DEFINE firstKept == IF Cut <= Len(branch) THEN branch[Cut].id ELSE NoId
  <2>1. memory = Memory(NoId, firstKept, Leaf.id, {}, read)
    BY <1>6 DEF WholeBranch
  <2>2. firstKept \in 0..MaxEntries
    <3>1. CASE Cut <= Len(branch)
      <4>1. Cut \in DOMAIN branch
        BY <1>1, <3>1, CutIs
      <4> QED BY <1>4, <3>1, <4>1
    <3>2. CASE ~(Cut <= Len(branch))
      BY <1>5, <3>2
    <3> QED BY <3>1, <3>2
  <2> HIDE DEF firstKept, memory
  <2>3. memory.coveredThrough = Leaf.id /\ memory.read = read
    BY <2>1 DEF Memory
  <2> QED BY <1>3, <2>1, <2>2, <2>3, MemoryEntry
<1>7. ASSUME NEW end, NEW carried, NEW read, end \in Nat, prefixCut(branch, end, Cut) # 0,
             memory = Prefix(prefixCut(branch, end, Cut), end, carried, read)
      PROVE  memory \in Entries
  <2> DEFINE start == prefixCut(branch, end, Cut)
  <2>1. memory = Memory(NoId, branch[start].id, branch[end].id, carried, read)
    BY <1>7 DEF Prefix
  <2>2. start \in DOMAIN branch
    BY <1>1, <1>7, PrefixCutIs
  <2> HIDE DEF start, memory
  <2>3. branch[start].id \in 0..MaxEntries
    BY <1>4, <2>2
  <2>4. memory.coveredThrough = branch[end].id /\ memory.read = read /\ memory.carried = carried
    BY <2>1 DEF Memory
  <2> QED BY <1>3, <2>1, <2>3, <2>4, MemoryEntry
<1>8. status = "new-sources" => reusablePrefix(armed) \in Nat
  <2> SUFFICES ASSUME status = "new-sources" PROVE reusablePrefix(armed) \in Nat
    OBVIOUS
  <2>1. Candidate(armed, lastId)
    BY StatusTells DEF CandidatesGood
  <2> QED BY <2>1, SeqFacts DEF reusablePrefix, Candidate, GoodBranch
<1>9. MaxOr0(workNotes(branch)) \in Nat
  <2>1. workNotes(branch) \subseteq 1..Len(branch)
    BY <1>1 DEF workNotes
  <2> QED BY <1>1, <2>1, MaxPlace
<1> QED BY <1>6, <1>7, <1>8, <1>9, PathIs

LEMMA StartTyped == Init => Typing
<1> SUFFICES ASSUME Init PROVE Typing
  OBVIOUS
<1> DEFINE u == Plain(1, "user")
           r == Plain(2, "reply")
<1>1. u \in Entries /\ r \in Entries
  <2>1. 1 \in 1..MaxEntries /\ 2 \in 1..MaxEntries
    BY Sizes
  <2> QED BY <2>1, PlainEntry DEF Kinds
<1>2. /\ branch = <<u, r>> /\ lastId = 2 /\ other = <<>> /\ input = None /\ armed = None /\ comp = Idle
      /\ navigating = FALSE /\ epoch = 0 /\ blocked = FALSE /\ unconfirmed = NoId
      /\ writer = [p \in Purposes |-> Off] /\ gap = "none"
  BY DEF Init
<1> HIDE DEF u, r
<1>3. IsBranch(branch) /\ branch # <<>>
  <2>1. DOMAIN branch = 1..2 /\ Len(branch) = 2 /\ branch[1] = u /\ branch[2] = r /\ branch # <<>>
    BY <1>2
  <2>2. \A i \in 1..2 : i = 1 \/ i = 2
    OBVIOUS
  <2> QED BY <1>1, <2>1, <2>2 DEF IsBranch
<1>4. IsBranch(other)
  <2>1. DOMAIN other = {} /\ Len(other) = 0 /\ 1..0 = {}
    BY <1>2
  <2> QED BY <2>1 DEF IsBranch
<1>5. SessionTyped
  <2>1. 2 \in 0..MaxEntries
    BY Sizes
  <2> QED BY <1>2, <1>3, <1>4, <2>1 DEF SessionTyped
<1>6. PreparationTyped /\ GapTyped
  BY <1>2 DEF PreparationTyped, GapTyped
<1>7. CommitTyped
  <2>1. 0 \in 0..MaxEntries
    BY Sizes
  <2> QED BY <1>2, <2>1 DEF CommitTyped, NoId
<1>8. Made
  <2>1. \A p \in Purposes : writer[p].made = 0
    BY <1>2 DEF Off
  <2> QED BY <2>1, Sizes DEF Made
<1> QED BY <1>5, <1>6, <1>7, <1>8 DEF Typing

\* The session.
LEMMA GrowsTyped ==
  ASSUME CoverageInv, SessionTyped, NEW e \in Entries, Add(e), lastId < MaxEntries,
         UNCHANGED <<other, navigating>>
  PROVE  SessionTyped'
<1>1. branch' = Append(branch, e) /\ lastId' = lastId + 1
  BY DEF Add
<1>2. IsBranch(branch') /\ branch' # <<>>
  BY <1>1, BranchGrows DEF SessionTyped, CoverageInv, GoodBranch
<1>3. lastId' \in 0..MaxEntries
  BY <1>1, Sizes DEF SessionTyped
<1>4. other' = other /\ navigating' = navigating
  OBVIOUS
<1>5. IsBranch(other)' /\ navigating' \in BOOLEAN
  BY <1>4 DEF SessionTyped, IsBranch
<1> QED BY <1>2, <1>3, <1>5 DEF SessionTyped

LEMMA SessionStays ==
  ASSUME SessionTyped, UNCHANGED <<branch, other, lastId>>, navigating' \in BOOLEAN
  PROVE  SessionTyped'
<1>1. branch' = branch /\ other' = other /\ lastId' = lastId
  OBVIOUS
<1> QED BY <1>1 DEF SessionTyped, IsBranch

LEMMA EntriesTyped ==
  CoverageInv /\ SessionTyped /\ (Prompt \/ Reply \/ WorkNote \/ CustomEntry) => SessionTyped'
<1> SUFFICES ASSUME CoverageInv, SessionTyped, Prompt \/ Reply \/ WorkNote \/ CustomEntry PROVE SessionTyped'
  OBVIOUS
<1>1. lastId < MaxEntries /\ UNCHANGED <<other, navigating>>
  BY DEF Prompt, Reply, WorkNote, CustomEntry, Quiet, SessionStep
<1>2. \E kind \in Kinds : Add(Plain(lastId + 1, kind))
  BY DEF Prompt, Reply, WorkNote, CustomEntry, Kinds
<1>3. lastId + 1 \in 1..MaxEntries
  BY <1>1, Sizes DEF SessionTyped
<1> QED BY <1>1, <1>2, <1>3, PlainEntry, GrowsTyped

LEMMA AppendedTyped ==
  CoverageInv /\ SessionTyped /\ CommitTyped /\ HostAppends => SessionTyped'
<1> SUFFICES ASSUME CoverageInv, SessionTyped, CommitTyped, HostAppends PROVE SessionTyped'
  OBVIOUS
<1>1. /\ comp.phase = "staged" /\ lastId < MaxEntries /\ UNCHANGED <<other, navigating>>
      /\ Add([comp.memory EXCEPT !.id = lastId + 1])
  BY DEF HostAppends
<1>2. comp # Idle
  BY <1>1 DEF Idle
<1>3. comp.memory \in Entries /\ comp.memory.kind = "memory"
  BY <1>2 DEF CommitTyped, CoverageInv, Proposes
<1>4. lastId + 1 \in 1..MaxEntries
  BY <1>1, Sizes DEF SessionTyped
<1>5. [comp.memory EXCEPT !.id = lastId + 1] \in Entries
  BY <1>3, <1>4, NumberedEntry
<1> QED BY <1>1, <1>5, GrowsTyped

LEMMA NavigateTyped == CoverageInv /\ SessionTyped /\ Navigate => SessionTyped'
<1> SUFFICES ASSUME CoverageInv, SessionTyped, Navigate PROVE SessionTyped'
  OBVIOUS
<1>1. /\ other' = branch /\ lastId' = lastId /\ navigating' = FALSE
      /\ \/ \E n \in 1..(Len(branch) - 1) : branch' = SubSeq(branch, 1, n)
         \/ other # <<>> /\ branch' = other
  BY DEF Navigate
<1>2. IsSeq(branch) /\ IsBranch(branch) /\ IsBranch(other)
  BY DEF CoverageInv, GoodBranch, SessionTyped
<1>3. IsBranch(branch') /\ branch' # <<>>
  BY <1>1, <1>2, BranchCutBack
<1>4. IsBranch(other')
  BY <1>1, <1>2
<1> QED BY <1>1, <1>3, <1>4 DEF SessionTyped

LEMMA SessionKept ==
  Typing /\ CoverageInv /\ [Next]_vars => SessionTyped'
<1> SUFFICES ASSUME Typing, CoverageInv, [Next]_vars PROVE SessionTyped'
  OBVIOUS
<1>1. SessionTyped /\ CommitTyped
  BY DEF Typing
<1>2. CASE UNCHANGED <<branch, other, lastId>> /\ navigating' \in {navigating, TRUE, FALSE}
  BY <1>1, <1>2, SessionStays DEF SessionTyped
<1>3. CASE UNCHANGED vars
  BY <1>2, <1>3 DEF vars, sessionVars
<1>4. CASE Prompt \/ Reply \/ WorkNote \/ CustomEntry
  BY <1>1, <1>4, EntriesTyped
<1>5. CASE Navigate
  BY <1>1, <1>5, NavigateTyped
<1>6. CASE HostAppends
  BY <1>1, <1>6, AppendedTyped
<1>7. CASE prepare \/ RunEnds \/ Deadline \/ invalidate \/ BeforeTree \/ recover \/ Crash
  BY <1>2, <1>7 DEF prepare, RunEnds, Deadline, invalidate, BeforeTree, recover, Crash, sessionVars
<1>8. CASE CompactBegins \/ UserAborts \/ CompactWritten \/ AppendFails
  BY <1>2, <1>8 DEF CompactBegins, UserAborts, CompactWritten, AppendFails, sessionVars
<1>9. ASSUME NEW p \in Purposes, WriterStep(p) PROVE SessionTyped'
  BY <1>2, <1>9 DEF WriterStep, WriterFails, beforeDispatch, Dispatch, afterDispatch, CallUnchanged,
     sessionVars
<1> QED BY <1>3, <1>4, <1>5, <1>6, <1>7, <1>8, <1>9 DEF Next

\* The preparation.
LEMMA PreparationKept ==
  Typing /\ [Next]_vars => PreparationTyped'
<1> SUFFICES ASSUME Typing, [Next]_vars PROVE PreparationTyped'
  OBVIOUS
<1>1. PreparationTyped /\ IsBranch(branch)
  BY DEF Typing, SessionTyped
<1>2. ASSUME epoch' = epoch \/ epoch' = epoch + 1 \/ epoch' = 0,
             input' = input \/ input' = None, armed' \in {armed, None, input}
      PROVE  PreparationTyped'
  <2>1. epoch' \in Nat
    BY <1>1, <1>2 DEF PreparationTyped
  <2>2. \A c : c # None /\ (c = input \/ c = armed) => IsSnapshot(c)
    BY <1>1 DEF PreparationTyped
  <2>3. (input' # None => IsSnapshot(input')) /\ (armed' # None => IsSnapshot(armed'))
    BY <1>2, <2>2
  <2> QED BY <2>1, <2>3 DEF PreparationTyped
<1>3. CASE prepare
  <2>1. epoch' = epoch /\ armed' = armed /\ input' = freezePreparationInput(branch, epoch)
    BY <1>3 DEF prepare
  <2>2. IsSnapshot(input')
    BY <1>1, <2>1 DEF freezePreparationInput, IsSnapshot, PreparationTyped
  <2>3. armed' # None => IsSnapshot(armed')
    BY <1>1, <2>1 DEF PreparationTyped
  <2> QED BY <1>1, <2>1, <2>2, <2>3 DEF PreparationTyped
<1>4. CASE UNCHANGED vars
  BY <1>2, <1>4 DEF vars
<1>5. CASE Prompt \/ Reply \/ WorkNote \/ CustomEntry \/ Navigate
  BY <1>2, <1>5 DEF Prompt, Reply, WorkNote, CustomEntry, SessionStep, Navigate
<1>6. CASE RunEnds \/ Deadline \/ invalidate \/ BeforeTree \/ recover \/ Crash
  BY <1>2, <1>6 DEF RunEnds, Deadline, invalidate, BeforeTree, Invalidation, recover, PreparationCommitted,
     Crash
<1>7. CASE UserAborts \/ CompactWritten \/ HostAppends \/ AppendFails
  BY <1>2, <1>7 DEF UserAborts, CompactWritten, HostAppends, PreparationCommitted, AppendFails
<1>8. CASE CompactBegins
  <2>1. epoch' = epoch /\ input' = input
    BY <1>8 DEF CompactBegins
  <2>2. armed' \in {armed, None}
    BY <1>8 DEF CompactBegins, Drops
  <2> QED BY <1>2, <2>1, <2>2
<1>9. ASSUME NEW p \in Purposes, WriterStep(p) PROVE PreparationTyped'
  BY <1>2, <1>9 DEF WriterStep, WriterFails, beforeDispatch, Dispatch, afterDispatch, CallUnchanged
<1> QED BY <1>3, <1>4, <1>5, <1>6, <1>7, <1>8, <1>9 DEF Next

\* The compaction.
LEMMA CommitStays ==
  ASSUME CommitTyped, comp' = comp \/ comp' = Idle, blocked' \in {blocked, TRUE, FALSE},
         unconfirmed' = unconfirmed \/ unconfirmed' = NoId
  PROVE  CommitTyped'
<1>1. NoId \in 0..MaxEntries
  BY Sizes DEF NoId
<1> QED BY <1>1 DEF CommitTyped

LEMMA BeginsTyped ==
  CommitTyped /\ SessionTyped /\ CoverageInv /\ CompactBegins => CommitTyped'
<1> SUFFICES ASSUME CommitTyped, SessionTyped, CoverageInv, CompactBegins PROVE CommitTyped'
  OBVIOUS
<1>1. CandidatesGood /\ lastId <= MaxEntries
  BY Sizes DEF CandidatesGood, CoverageInv, SessionTyped
<1>2. \/ comp' = Idle
      \/ /\ Cut >= 2
         /\ \E focus \in BOOLEAN : \E status \in Statuses(focus) : \E p \in Paths(status, focus) :
              \E phase \in {"writing", "staged"} :
                comp' = [phase |-> phase, source |-> branch, memory |-> p.memory]
  BY DEF CompactBegins, Fails
<1>3. blocked' \in {blocked, TRUE} /\ (unconfirmed' = unconfirmed \/ unconfirmed' = NoId)
  BY DEF CompactBegins, Fails, Supersedes
<1>4. CASE comp' = Idle
  BY <1>3, <1>4, CommitStays
<1>5. ASSUME Cut >= 2, NEW focus \in BOOLEAN, NEW status \in Statuses(focus), NEW p \in Paths(status, focus),
             NEW phase \in {"writing", "staged"},
             comp' = [phase |-> phase, source |-> branch, memory |-> p.memory]
      PROVE  CommitTyped'
  <2>1. p.memory \in Entries
    BY <1>1, <1>5, PathsTyped
  <2>2. comp'.phase = phase /\ comp'.memory = p.memory
    BY <1>5
  <2>3. NoId \in 0..MaxEntries
    BY Sizes DEF NoId
  <2> QED BY <1>3, <2>1, <2>2, <2>3 DEF CommitTyped
<1> QED BY <1>2, <1>4, <1>5

LEMMA WrittenTyped == CommitTyped /\ CoverageInv /\ CompactWritten => CommitTyped'
<1> SUFFICES ASSUME CommitTyped, CoverageInv, CompactWritten PROVE CommitTyped'
  OBVIOUS
<1>1. /\ unconfirmed' = unconfirmed /\ blocked' \in {blocked, TRUE}
      /\ writer["compaction"].phase # "off"
      /\ comp' = [comp EXCEPT !.phase = "staged"] \/ comp' = Idle
  BY DEF CompactWritten, Fails
<1>2. CASE comp' = Idle
  BY <1>1, <1>2, CommitStays
<1>3. CASE comp' = [comp EXCEPT !.phase = "staged"]
  <2>1. comp # Idle
    BY <1>1 DEF CoverageInv, Idle
  <2>2. DOMAIN comp = {"phase", "source", "memory"} /\ comp.memory \in Entries
    BY <2>1 DEF CoverageInv, CommitTyped
  <2>3. comp'.phase = "staged" /\ comp'.memory = comp.memory
    BY <1>3, <2>2
  <2> QED BY <1>1, <2>2, <2>3 DEF CommitTyped
<1> QED BY <1>1, <1>2, <1>3

LEMMA CommitKept ==
  Typing /\ CoverageInv /\ [Next]_vars => CommitTyped'
<1> SUFFICES ASSUME Typing, CoverageInv, [Next]_vars PROVE CommitTyped'
  OBVIOUS
<1>1. CommitTyped /\ SessionTyped
  BY DEF Typing
<1>2. CASE UNCHANGED commitVars
  BY <1>1, <1>2, CommitStays DEF commitVars
<1>3. CASE UNCHANGED vars
  BY <1>2, <1>3 DEF vars
<1>4. CASE Prompt \/ Reply \/ WorkNote \/ CustomEntry \/ Navigate \/ prepare \/ RunEnds
  BY <1>2, <1>4 DEF Prompt, Reply, WorkNote, CustomEntry, SessionStep, Navigate, prepare, RunEnds
<1>5. CASE Deadline \/ invalidate \/ BeforeTree \/ UserAborts
  BY <1>2, <1>5 DEF Deadline, invalidate, BeforeTree, Invalidation, UserAborts
<1>6. CASE recover \/ AppendFails \/ Crash
  BY <1>1, <1>6, CommitStays DEF recover, AppendFails, Fails, Crash
<1>7. CASE CompactBegins
  BY <1>1, <1>7, BeginsTyped
<1>8. CASE CompactWritten
  BY <1>1, <1>8, WrittenTyped
<1>9. CASE HostAppends
  <2>1. comp' = Idle /\ blocked' \in {TRUE, FALSE} /\ lastId < MaxEntries
        /\ unconfirmed' \in {unconfirmed, lastId + 1, NoId}
    BY <1>9 DEF HostAppends
  <2>2. lastId + 1 \in 0..MaxEntries /\ NoId \in 0..MaxEntries
    BY <1>1, <2>1, Sizes DEF SessionTyped, NoId
  <2> QED BY <1>1, <2>1, <2>2 DEF CommitTyped
<1>10. ASSUME NEW p \in Purposes, WriterStep(p) PROVE CommitTyped'
  BY <1>2, <1>10 DEF WriterStep, WriterFails, beforeDispatch, Dispatch, afterDispatch, CallUnchanged
<1> QED BY <1>3, <1>4, <1>5, <1>6, <1>7, <1>8, <1>9, <1>10 DEF Next

\* The calls a writer has made.
LEMMA BlankMade == Off.made = 0 /\ Ready.made = 0
<1>1. Off.made = 0 /\ Off \in WriterRec
  BY Blank DEF Off
<1>2. \A w \in WriterRec : [w EXCEPT !.phase = "ready"].made = w.made
  BY DEF WriterRec
<1> QED BY <1>1, <1>2 DEF Ready

LEMMA WriterMade ==
  ASSUME PreparationInv, NEW q \in Purposes
  PROVE  /\ \A p \in Purposes : Abort(q)[p].made = writer[p].made
         /\ \A phase : \A p \in Purposes : To(q, phase)[p].made = writer[p].made
<1>1. writer \in [Purposes -> WriterRec]
  BY Calls
<1>2. ASSUME NEW p \in Purposes, NEW aborted PROVE [writer EXCEPT ![q].aborted = aborted][p].made = writer[p].made
  BY <1>1 DEF WriterRec
<1>3. ASSUME NEW p \in Purposes, NEW phase PROVE [writer EXCEPT ![q].phase = phase][p].made = writer[p].made
  BY <1>1 DEF WriterRec
<1>4. \A p \in Purposes : Abort(q)[p].made = writer[p].made
  <2> DEFINE aborted == writer[q].phase # "off"
  <2>1. Abort(q) = [writer EXCEPT ![q].aborted = aborted]
    BY DEF Abort
  <2> HIDE DEF aborted
  <2> QED BY <1>2, <2>1
<1> QED BY <1>3, <1>4 DEF To

LEMMA SetMade ==
  ASSUME NEW w, DOMAIN w = Purposes, \A p \in Purposes : w[p].made <= WriterCalls,
         NEW q \in Purposes, NEW r \in {Off, Ready}, writer' = [w EXCEPT ![q] = r]
  PROVE  Made'
<1>1. r.made <= WriterCalls
  BY BlankMade, Sizes
<1>2. \A p \in Purposes : writer'[p] = IF p = q THEN r ELSE w[p]
  OBVIOUS
<1> QED BY <1>1, <1>2 DEF Made

LEMMA MadeStays ==
  ASSUME PreparationInv, Made,
         \/ UNCHANGED writer
         \/ \E q \in Purposes : writer' = Abort(q)
         \/ \E q \in Purposes : \E phase : writer' = To(q, phase)
         \/ \E q \in Purposes : \E r \in {Off, Ready} : writer' = [writer EXCEPT ![q] = r]
         \/ writer' = [Abort("preparation") EXCEPT !["compaction"] = Ready]
         \/ writer' = [p \in Purposes |-> Off]
  PROVE  Made'
<1>1. DOMAIN writer = Purposes
  BY Calls
<1>2. CASE UNCHANGED writer
  BY <1>2 DEF Made
<1>3. CASE \E q \in Purposes : writer' = Abort(q)
  BY <1>3, WriterMade DEF Made
<1>4. CASE \E q \in Purposes : \E phase : writer' = To(q, phase)
  <2>1. PICK q \in Purposes : \E phase : writer' = To(q, phase)
    BY <1>4
  <2>2. PICK phase : writer' = To(q, phase)
    BY <2>1
  <2>3. \A p \in Purposes : writer'[p].made = writer[p].made
    BY <2>2, WriterMade
  <2> QED BY <2>3 DEF Made
<1>5. CASE \E q \in Purposes : \E r \in {Off, Ready} : writer' = [writer EXCEPT ![q] = r]
  BY <1>1, <1>5, SetMade DEF Made
<1>6. CASE writer' = [Abort("preparation") EXCEPT !["compaction"] = Ready]
  <2> DEFINE w == Abort("preparation")
  <2>1. DOMAIN w = Purposes /\ \A p \in Purposes : w[p].made <= WriterCalls
    <3>1. w \in [Purposes -> WriterRec]
      BY AbortWriter, Purposed
    <3>2. \A p \in Purposes : w[p].made = writer[p].made
      BY WriterMade, Purposed
    <3> HIDE DEF w
    <3> QED BY <3>1, <3>2 DEF Made
  <2> HIDE DEF w
  <2>2. writer' = [w EXCEPT !["compaction"] = Ready]
    BY <1>6 DEF w
  <2> QED BY <2>1, <2>2, SetMade, Purposed
<1>7. CASE writer' = [p \in Purposes |-> Off]
  BY <1>7, BlankMade, Sizes DEF Made
<1> QED BY <1>2, <1>3, <1>4, <1>5, <1>6, <1>7

LEMMA MadeCounts ==
  ASSUME PreparationInv, Made, NEW p \in Purposes, NEW c, writer[p].made < WriterCalls,
         writer' = [writer EXCEPT ![p] = [writer[p] EXCEPT !.phase = "reserved", !.call = c,
                                                          !.made = writer[p].made + 1]]
  PROVE  Made'
<1>1. writer \in [Purposes -> WriterRec]
  BY Calls
<1> DEFINE r == [writer[p] EXCEPT !.phase = "reserved", !.call = c, !.made = writer[p].made + 1]
<1>2. writer[p] \in WriterRec /\ writer[p].made \in Nat
  BY <1>1 DEF WriterRec
<1>3. r.made = writer[p].made + 1
  BY <1>2 DEF WriterRec
<1> HIDE DEF r
<1>4. writer' = [writer EXCEPT ![p] = r]
  BY DEF r
<1>5. \A q \in Purposes : writer'[q] = IF q = p THEN r ELSE writer[q]
  BY <1>1, <1>4
<1>6. r.made <= WriterCalls
  BY <1>2, <1>3, Sizes
<1> QED BY <1>5, <1>6 DEF Made

LEMMA MadeKept ==
  Typing /\ PreparationInv /\ [Next]_vars => Made'
<1> SUFFICES ASSUME Typing, PreparationInv, [Next]_vars PROVE Made'
  OBVIOUS
<1>1. Made
  BY DEF Typing
<1>2. CASE UNCHANGED vars
  BY <1>1, <1>2, MadeStays DEF vars
<1>3. CASE Prompt \/ Reply \/ WorkNote \/ CustomEntry \/ Navigate \/ AppendFails
  <2>1. UNCHANGED writer
    BY <1>3 DEF Prompt, Reply, WorkNote, CustomEntry, SessionStep, Navigate, AppendFails
  <2> QED BY <1>1, <2>1, MadeStays
<1>4. CASE prepare \/ RunEnds \/ CompactWritten
  <2>1. \E q \in Purposes : \E r \in {Off, Ready} : writer' = [writer EXCEPT ![q] = r]
    BY <1>4, Purposed DEF prepare, RunEnds, CompactWritten
  <2> QED BY <1>1, <2>1, MadeStays
<1>5. CASE Deadline \/ invalidate \/ BeforeTree \/ UserAborts \/ recover \/ HostAppends
  <2>1. UNCHANGED writer \/ \E q \in Purposes : writer' = Abort(q)
    BY <1>5, Purposed DEF Deadline, invalidate, BeforeTree, Invalidation, UserAborts, recover, HostAppends,
       PreparationCommitted
  <2> QED BY <1>1, <2>1, MadeStays
<1>6. CASE CompactBegins
  <2>1. writer' = Abort("preparation") \/ writer' = [Abort("preparation") EXCEPT !["compaction"] = Ready]
    BY <1>6 DEF CompactBegins
  <2> QED BY <1>1, <2>1, MadeStays, Purposed
<1>7. CASE Crash
  BY <1>1, <1>7, MadeStays DEF Crash
<1>8. ASSUME NEW p \in Purposes, WriterStep(p) PROVE Made'
  <2>1. CASE \E phase : writer' = To(p, phase)
    BY <1>1, <2>1, MadeStays
  <2>2. CASE beforeDispatch(p)
    <3>1. \/ \E phase : writer' = To(p, phase)
          \/ /\ writer[p].made < WriterCalls
             /\ writer' = [writer EXCEPT ![p] = [writer[p] EXCEPT !.phase = "reserved", !.call = lastCall + 1,
                                                                 !.made = writer[p].made + 1]]
      BY <2>2 DEF beforeDispatch
    <3> QED BY <1>1, <2>1, <3>1, MadeCounts
  <2>3. CASE WriterFails(p) \/ Dispatch(p) \/ afterDispatch(p)
    BY <2>1, <2>3 DEF WriterFails, Dispatch, afterDispatch
  <2> QED BY <1>8, <2>2, <2>3 DEF WriterStep
<1> QED BY <1>2, <1>3, <1>4, <1>5, <1>6, <1>7, <1>8 DEF Next

LEMMA GapKept == Typing /\ [Next]_vars => GapTyped'
<1> SUFFICES ASSUME Typing, [Next]_vars PROVE GapTyped'
  OBVIOUS
<1>1. GapTyped
  BY DEF Typing
<1>2. CASE gap' = gap \/ gap' = "unwritable"
  BY <1>1, <1>2 DEF GapTyped
<1>3. CASE UNCHANGED vars
  BY <1>2, <1>3 DEF vars, journalVars
<1>4. CASE Prompt \/ Reply \/ WorkNote \/ CustomEntry \/ Navigate \/ AppendFails \/ prepare \/ RunEnds
  BY <1>2, <1>4 DEF Prompt, Reply, WorkNote, CustomEntry, SessionStep, Navigate, AppendFails, prepare,
     RunEnds, journalVars
<1>5. CASE Deadline \/ invalidate \/ BeforeTree \/ UserAborts \/ recover \/ HostAppends
  BY <1>2, <1>5 DEF Deadline, invalidate, BeforeTree, Invalidation, UserAborts, recover, HostAppends,
     PreparationCommitted, journalVars
<1>6. CASE CompactBegins \/ CompactWritten
  BY <1>2, <1>6 DEF CompactBegins, CompactWritten, journalVars
<1>7. CASE Crash
  <2>1. \E f : \E journal \in Loads(f) : gap' = journal.gap
    BY <1>7 DEF Crash
  <2>2. \A f : \A journal \in Loads(f) : journal.gap \in {"none", "unreadable"}
    BY DEF Loads, Load, Unreadable
  <2> QED BY <2>1, <2>2 DEF GapTyped
<1>8. ASSUME NEW p \in Purposes, WriterStep(p) PROVE GapTyped'
  BY <1>2, <1>8 DEF WriterStep, WriterFails, beforeDispatch, Dispatch, afterDispatch, journalVars
<1> QED BY <1>3, <1>4, <1>5, <1>6, <1>7, <1>8 DEF Next

\* Every variable keeps its type, whatever the session, its compactions, its
\* preparations and the faults of the journal do: what compact proposes is
\* always a whole checkpoint of ids the session has given (controller.ts
\* compact, call-journal.ts).
THEOREM Typed == Spec => []TypeOK
<1>1. ASSUME Typing, PreparationInv, CoverageInv, [Next]_vars PROVE Typing'
  BY <1>1, SessionKept, PreparationKept, CommitKept, MadeKept, GapKept DEF Typing
<1>2. Spec => []Typing
  BY <1>1, StartTyped, PreparationHolds, CoverageHolds, PTL DEF Spec
<1> QED BY <1>2, TypingIs, PreparationHolds, PTL
===============================================================================
