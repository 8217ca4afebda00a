------------------------- MODULE LearningPassProofs -------------------------
(* Theorems about the derivation passes of Learning: how often an           *)
(* observation is counted, and that the stored cursor passes none.          *)
EXTENDS LearningProofs

(* Who is in a pass.                                                        *)

PassPlaces == {"read", "observe", "store"}

\* The other statements keep their slot out of a pass.
LEMMA WorksOutside ==
  ASSUME Typed, NEW p \in Slots, Works(p)
  PROVE  /\ inv[p].at \notin PassPlaces /\ inv'[p].at \notin PassPlaces
<1> USE DEF Statement, At, PassPlaces
<1> DEFINE i == inv[p]
<1>1. SlotsOK
  BY SMTT(30) DEF Typed
<1>2. i.at # "idle" /\ i.at \notin PassPlaces
  BY DEF Works, WritePlaybook, ListPromotable, LookForPlaybook, GetCandidate, Confirm,
         ConfirmNote, Reject, Expire, Purge, Gate, ReadEpisode, Synthesize, Refresh
<1>3. i \in Invocations
  BY <1>1, <1>2, AtStatement
<1>4. ASSUME Finish(p) PROVE inv'[p].at \notin PassPlaces
  BY <1>1, <1>2, <1>4, FinishGood
<1>5. ASSUME NEW at \in {"list", "gate", "episode", "purge"}, Go(p, at)
      PROVE  inv'[p].at \notin PassPlaces
  BY <1>1, <1>3, <1>5 DEF Go, SlotsOK, Invocations
<1>6. CASE WritePlaybook(p)
  BY <1>4, <1>5, <1>6, SMTT(30) DEF WritePlaybook
<1>7. CASE ListPromotable(p)
  <2>1. CASE Go(p, "gate")
    BY <1>2, <1>5, <2>1
  <2>2. ASSUME NEW id, inv' = [inv EXCEPT ![p].at = "look", ![p].id = id,
                                          ![p].created = candidates[id].created,
                                          ![p].payload = candidates[id].payload]
        PROVE  inv'[p].at \notin PassPlaces
    BY <1>1, <1>3, <2>2 DEF SlotsOK, Invocations
  <2>3. QED
    BY <1>2, <1>7, <2>1, <2>2 DEF ListPromotable
<1>8. CASE LookForPlaybook(p)
  BY <1>1, <1>3, <1>8 DEF LookForPlaybook, SlotsOK, Invocations
<1>9. CASE GetCandidate(p)
  BY <1>1, <1>3, <1>4, <1>9 DEF GetCandidate, SlotsOK, Invocations
<1>10. CASE Confirm(p) \/ ConfirmNote(p)
  BY <1>4, <1>5, <1>10 DEF Confirm, ConfirmNote, AfterConfirm
<1>11. CASE Reject(p) \/ Purge(p) \/ Refresh(p)
  BY <1>4, <1>11 DEF Reject, Purge, Refresh
<1>12. CASE Expire(p) \/ Gate(p)
  BY <1>4, <1>5, <1>12 DEF Expire, Gate
<1>13. CASE ReadEpisode(p)
  BY <1>1, <1>3, <1>4, <1>13 DEF ReadEpisode, SlotsOK, Invocations
<1>14. CASE Synthesize(p)
  BY <1>1, <1>3, <1>4, <1>14 DEF Synthesize, SlotsOK, Invocations
<1>15. QED
  BY <1>2, <1>6, <1>7, <1>8, <1>9, <1>10, <1>11, <1>12, <1>13, <1>14 DEF Works

\* The segments there are have numbers.
LEMMA SegmentsAreNumbers ==
  ASSUME JournalTypeOK
  PROVE  Segments \in SUBSET Nat
BY DaysAreNumbers DEF Segments, Kept, JournalTypeOK

\* The older a segment, the more lies from it on.
LEMMA SinceGrows ==
  ASSUME NEW text \in Seq(Lines), NEW c \in Nat, NEW d \in Nat, c <= d
  PROVE  Since(text, c) \in Nat /\ Since(text, d) \in Nat /\ Since(text, d) <= Since(text, c)
<1> DEFINE C == {i \in Rest(text) : text[i].day >= c}
           D == {i \in Rest(text) : text[i].day >= d}
<1>1. Len(text) \in Nat /\ \A i \in 1..Len(text) : text[i].day \in Nat
  <2>1. Len(text) \in Nat /\ \A i \in 1..Len(text) : text[i] \in Lines
    OBVIOUS
  <2>2. \A line \in Lines : line.day \in Nat
    BY DEF Lines
  <2>3. QED
    BY <2>1, <2>2
<1>2. C \in SUBSET (1..Len(text)) /\ D \in SUBSET C
  BY <1>1 DEF Rest
<1>3. IsFiniteSet(1..Len(text))
  BY <1>1, FS_Interval
<1>4. Since(text, c) = Cardinality(C) /\ Since(text, d) = Cardinality(D)
  BY DEF Since
<1> HIDE DEF C, D
<1>5. IsFiniteSet(C) /\ IsFiniteSet(D) /\ Cardinality(D) <= Cardinality(C)
  BY <1>2, <1>3, FS_Subset
<1>6. QED
  BY <1>4, <1>5, FS_CardinalityType

\* The segments there are when the cleanup begins.
Dated(text, cut) == {text[i].day : i \in Rest(text)} \cup cut

\* Cleanup deletes the oldest segments, and never the newest.
LEMMA RemovedIsOldest ==
  ASSUME NEW text \in Seq(Lines), NEW cut \in SUBSET Nat, IsFiniteSet(cut), clock \in Clocks
  PROVE  /\ Dated(text, cut) \in SUBSET Nat /\ Removed(text, cut) \in SUBSET Dated(text, cut)
         /\ \A d \in Removed(text, cut), c \in Dated(text, cut) :
              c <= d => c \in Removed(text, cut)
         /\ \A d \in Dated(text, cut) :
              \E e \in Dated(text, cut) \ Removed(text, cut) : d <= e
<1> DEFINE days == Dated(text, cut)
           D == {text[i].day : i \in Rest(text)}
<1>1. D \in SUBSET Nat /\ IsFiniteSet(D)
  BY DaysAreFinite DEF Rest
<1> HIDE DEF D
<1>2. days = D \cup cut
  BY DEF D, Dated
<1>3. days \in SUBSET Nat /\ IsFiniteSet(days)
  BY <1>1, <1>2, FS_Union
<1>4. \A d : d \in Removed(text, cut) <=>
              /\ d \in days /\ \E e \in days : e > d
              /\ d < clock.kept \/ Since(text, d) > JournalCap
  BY DEF Removed, Dated
<1> HIDE DEF days
<1>5. ASSUME NEW d \in Removed(text, cut), NEW c \in days, c <= d
      PROVE  c \in Removed(text, cut)
  <2>1. d \in Nat /\ c \in Nat /\ clock.kept \in Nat /\ JournalCap \in Nat
    BY <1>3, <1>4, JournalCapAssumption DEF Clocks
  <2>2. PICK e \in days : e > d
    BY <1>4, <1>5
  <2>3. e > c /\ (d < clock.kept => c < clock.kept)
    BY <1>3, <1>5, <2>1, <2>2
  <2>4. Since(text, d) > JournalCap => Since(text, c) > JournalCap
    BY <1>5, <2>1, SinceGrows
  <2>5. QED
    BY <1>4, <1>5, <2>2, <2>3, <2>4
<1>6. ASSUME NEW d \in days PROVE \E e \in days \ Removed(text, cut) : d <= e
  <2>1. PICK m \in days : \A e \in days : e <= m
    BY <1>3, HasGreatest
  <2>2. m \notin Removed(text, cut)
    BY <1>3, <1>4, <2>1
  <2>3. QED
    BY <2>1, <2>2
<1>7. QED
  BY <1>3, <1>4, <1>5, <1>6 DEF days

\* What every step outside a pass does to the journal: it appends lines, which
\* nobody has counted, and leaves the cursor alone.  The newest segment stays, a
\* line that is not late is in none older than it, and what is deleted is older
\* than what is left.
Rolls ==
  /\ Appends
  /\ Segments' \in SUBSET Nat
  /\ \A d \in Segments : \E e \in Segments' : d <= e
  /\ \A k \in 1..Len(lines') : k \notin 1..Len(lines) /\ ~lines'[k].late =>
       \A d \in Segments : d <= lines'[k].day
  /\ \A j \in gone' \ gone :
       /\ \E e \in Segments' : lines'[j].day < e
       /\ \A k \in Kept' : lines'[j].day < lines'[k].day

Quiet == Rolls /\ UNCHANGED replayed

LEMMA StayingRolls ==
  ASSUME JournalTypeOK, UNCHANGED <<lines, gone, offset, clock, observed>>, torn \in SUBSET torn',
         TornOK'
  PROVE  Rolls
<1>1. Appends
  BY DEF JournalTypeOK, Appends
<1>2. Segments \in SUBSET Segments' /\ Segments \in SUBSET Nat
  BY SegmentsAreNumbers DEF Segments, Kept
<1>3. Segments' \in SUBSET Nat
  BY DaysAreNumbers DEF Segments, Kept, TornOK
<1>4. QED
  BY <1>1, <1>2, <1>3 DEF Rolls

LEMMA RepairRolls ==
  ASSUME JournalTypeOK, NEW session \in Sessions, RepairTail(session)
  PROVE  Rolls
<1>1. CASE clock.day \in torn
  <2> DEFINE line == Entry("junk", session, NoFamily, clock.day)
  <2>1. clock.day \in Nat /\ "junk" \in Kinds /\ NoFamily \in Families \cup {NoFamily}
    BY DEF Kinds, JournalTypeOK, Clocks
  <2>2. /\ line \in Lines /\ line.day = clock.day
        /\ line.late <=> \E d \in Segments : d > clock.day
    BY <2>1 DEF Entry, Lines, JournalTypeOK, Clocks
  <2>3. Grow(line) /\ UNCHANGED gone /\ torn' = torn \ {clock.day}
    BY <1>1 DEF RepairTail, Grow
  <2>4. Appends /\ TornOK'
    BY RepairAppends
  <2> HIDE DEF line
  <2>5. /\ Len(lines') = Len(lines) + 1 /\ lines'[Len(lines) + 1] = line
        /\ \A i \in 1..Len(lines) : lines'[i] = lines[i]
        /\ Len(lines) \in Nat /\ gone \in SUBSET (1..Len(lines))
    BY <2>2, <2>3, GrowEffect DEF JournalTypeOK
  <2>6. Segments \in SUBSET Nat
    BY SegmentsAreNumbers
  <2>7. ASSUME NEW d \in Segments PROVE d \in Segments'
    <3>1. CASE d = clock.day
      <4>1. Len(lines) + 1 \in Kept' /\ lines'[Len(lines) + 1].day = d
        BY <2>2, <2>3, <2>5, <3>1 DEF Kept
      <4>2. QED
        BY <4>1 DEF Segments
    <3>2. CASE d # clock.day /\ d \in torn
      BY <2>3, <3>2 DEF Segments
    <3>3. CASE d \notin torn
      <4>1. PICK i \in Kept : lines[i].day = d
        BY <3>3 DEF Segments
      <4>2. i \in Kept' /\ lines'[i].day = d
        BY <2>3, <2>5, <4>1 DEF Kept
      <4>3. QED
        BY <4>2 DEF Segments
    <3>4. QED
      BY <3>1, <3>2, <3>3
  <2>8. \A k \in 1..Len(lines') : k \notin 1..Len(lines) => lines'[k] = line
    BY <2>5
  <2>9. ~line.late => \A d \in Segments : d <= line.day
    BY <2>1, <2>2, <2>6
  <2>10. Segments' \in SUBSET Segments
    <3>1. \A i \in Kept' : lines'[i].day \in Segments
      <4>1. ASSUME NEW i \in Kept' PROVE lines'[i].day \in Segments
        <5>1. CASE i = Len(lines) + 1
          BY <1>1, <2>2, <2>5, <5>1 DEF Segments
        <5>2. CASE i # Len(lines) + 1
          <6>1. i \in Kept /\ lines'[i] = lines[i]
            BY <2>3, <2>5, <5>2 DEF Kept
          <6>2. QED
            BY <6>1 DEF Segments
        <5>3. QED
          BY <5>1, <5>2
      <4>2. QED
        BY <4>1
    <3>2. QED
      BY <2>3, <3>1 DEF Segments
  <2>11. QED
    BY <2>3, <2>4, <2>6, <2>7, <2>8, <2>9, <2>10 DEF Rolls
<1>2. CASE clock.day \notin torn
  BY <1>2, RepairAppends, StayingRolls DEF RepairTail
<1>3. QED
  BY <1>1, <1>2

LEMMA EntryRolls ==
  ASSUME JournalTypeOK, NEW kind \in Kinds, NEW session \in Sessions,
         NEW family \in Families \cup {NoFamily}, NEW day \in Nat,
         AppendEntry(Entry(kind, session, family, day))
  PROVE  Rolls
<1> DEFINE entry == Entry(kind, session, family, day)
           line == LineOf(entry)
           cut == torn \ {day}
           removed == Removed(lines', cut)
           days == Dated(lines', cut)
<1>1. Appends
  BY EntryAppends
<1>2. /\ line \in Lines /\ line.day = day
      /\ line.late <=> \E d \in Segments : d > day
  BY WrittenIsLine
<1>3. entry.day = day
  BY DEF Entry
<1>4. /\ Grow(line) /\ torn' = cut \ removed
      /\ gone' = gone \cup {i \in Rest(lines') : lines'[i].day \in removed}
  BY <1>3 DEF AppendEntry, Grow, LineOf
<1> HIDE DEF line, entry
<1>5. /\ lines' \in Seq(Lines) /\ Len(lines') = Len(lines) + 1
      /\ lines'[Len(lines) + 1] = line
      /\ \A i \in 1..Len(lines) : lines'[i] = lines[i]
      /\ Len(lines) \in Nat /\ gone \in SUBSET (1..Len(lines))
  BY <1>2, <1>4, GrowEffect DEF JournalTypeOK
<1>6. /\ days \in SUBSET Nat /\ removed \in SUBSET days
      /\ \A d \in removed, c \in days : c <= d => c \in removed
      /\ \A d \in days : \E e \in days \ removed : d <= e
  <2>1. cut \in SUBSET Nat /\ IsFiniteSet(cut) /\ clock \in Clocks
    BY FS_Subset DEF JournalTypeOK
  <2> HIDE DEF cut
  <2>2. QED
    BY <1>5, <2>1, RemovedIsOldest
<1> HIDE DEF removed
<1>7. Rest(lines') = (1..Len(lines')) \ gone
  BY DEF Rest
<1>8. Kept' = {i \in Rest(lines') : lines'[i].day \notin removed}
  BY <1>4, <1>7 DEF Kept
<1>9. Segments' = days \ removed
  BY <1>4, <1>8 DEF Segments, Dated
<1>10. ASSUME NEW d \in Segments PROVE d \in days
  <2>1. CASE d \in torn /\ d # day
    BY <2>1 DEF Dated
  <2>2. CASE d = day
    <3>1. Len(lines) + 1 \in Rest(lines') /\ lines'[Len(lines) + 1].day = d
      BY <1>2, <1>5, <1>7, <2>2
    <3>2. QED
      BY <3>1 DEF Dated
  <2>3. CASE d \notin torn
    <3>1. PICK i \in Kept : lines[i].day = d
      BY <2>3 DEF Segments
    <3>2. i \in Rest(lines') /\ lines'[i].day = d
      BY <1>5, <1>7, <3>1 DEF Kept
    <3>3. QED
      BY <3>2 DEF Dated
  <2>4. QED
    BY <2>1, <2>2, <2>3
<1>11. \A i \in Rest(lines') : lines'[i].day \in days
  BY DEF Dated
<1>12. gone' \ gone \in SUBSET {i \in Rest(lines') : lines'[i].day \in removed}
  BY <1>4
<1> HIDE DEF days, cut
<1>13. \A d \in Segments : \E e \in Segments' : d <= e
  BY <1>6, <1>9, <1>10
<1>14. \A k \in 1..Len(lines') : k \notin 1..Len(lines) /\ ~lines'[k].late =>
         \A d \in Segments : d <= lines'[k].day
  <2>1. \A k \in 1..Len(lines') : k \notin 1..Len(lines) => lines'[k] = line
    BY <1>5
  <2>2. Segments \in SUBSET Nat
    BY SegmentsAreNumbers
  <2>3. ~line.late => \A d \in Segments : d <= line.day
    BY <1>2, <2>2
  <2>4. QED
    BY <2>1, <2>3
<1>15. ASSUME NEW j \in gone' \ gone
       PROVE  /\ \E e \in Segments' : lines'[j].day < e
              /\ \A k \in Kept' : lines'[j].day < lines'[k].day
  <2>1. lines'[j].day \in removed /\ lines'[j].day \in days
    BY <1>11, <1>12
  <2>2. PICK e \in days \ removed : lines'[j].day <= e
    BY <1>6, <2>1
  <2>3. lines'[j].day < e /\ e \in Segments'
    <3>1. e \in Nat /\ lines'[j].day \in Nat /\ lines'[j].day # e
      BY <1>6, <2>1, <2>2
    <3>2. QED
      BY <1>9, <2>2, <3>1
  <2>4. ASSUME NEW k \in Kept' PROVE lines'[j].day < lines'[k].day
    <3>1. lines'[k].day \in days /\ lines'[k].day \notin removed
      BY <1>8, <1>11
    <3>2. lines'[k].day \in Nat /\ lines'[j].day \in Nat
      BY <1>6, <2>1, <3>1
    <3>3. ~(lines'[k].day <= lines'[j].day)
      BY <1>6, <2>1, <3>1
    <3>4. QED
      BY <3>2, <3>3
  <2>5. QED
    BY <2>3, <2>4
<1>16. QED
  BY <1>1, <1>6, <1>9, <1>13, <1>14, <1>15 DEF Rolls

LEMMA JournalsRoll ==
  ASSUME Typed, NEW p \in Slots, Journals(p)
  PROVE  Rolls
<1> DEFINE i == inv[p]
<1>1. SlotsOK /\ JournalTypeOK
  BY DEF Typed
<1>2. i.at \in {"repair", "write"}
  BY DEF Journals, Repair, WriteEntry, CutEntryShort, At
<1>3. /\ i.command \in Kinds /\ i.session \in Sessions /\ i.segment \in Nat
      /\ i.family \in Families \cup {NoFamily}
  BY <1>1, <1>2, AtStatement DEF Good, Idle, Invocations, Kinds
<1>4. CASE Repair(p)
  BY <1>1, <1>3, <1>4, RepairRolls DEF Repair
<1>5. CASE WriteEntry(p)
  BY <1>1, <1>3, <1>5, EntryRolls DEF WriteEntry
<1>6. CASE CutEntryShort(p)
  BY <1>1, <1>6, JournalsTyped, StayingRolls DEF CutEntryShort, TearEntry
<1>7. QED
  BY <1>4, <1>5, <1>6 DEF Journals

LEMMA OutsideSteps ==
  ASSUME Typed, NEW p \in Slots, Begins(p) \/ Works(p) \/ Journals(p)
  PROVE  /\ Quiet
         /\ inv[p].at \notin PassPlaces /\ inv'[p].at \notin PassPlaces
<1>1. SlotsOK /\ JournalTypeOK
  BY DEF Typed
<1>2. CASE Begins(p)
  <2>1. UNCHANGED <<journalVars, replayed>> /\ inv[p] = Idle
    BY <1>2 DEF Begins, BeginCommand, BeginRecall, BeginTeach, BeginConfirm, BeginReject,
                BeginPurge, BeginWrite, Start, Running
  <2>2. inv[p].at \notin PassPlaces
    BY <2>1 DEF Idle, PassPlaces
  <2>3. inv'[p].at \notin PassPlaces
    BY <1>2, BeginsGood DEF PassPlaces
  <2>4. QED
    BY <1>1, <2>1, <2>2, <2>3, StayingRolls DEF Quiet, journalVars, JournalTypeOK, TornOK
<1>3. CASE Works(p)
  <2>1. UNCHANGED <<journalVars, replayed>>
    BY <1>3, WorksTyped DEF Unshared
  <2>2. QED
    BY <1>1, <1>3, <2>1, WorksOutside, StayingRolls DEF Quiet, journalVars, JournalTypeOK, TornOK
<1>4. CASE Journals(p)
  <2>1. inv[p].at \notin PassPlaces
    BY <1>4 DEF Journals, Repair, WriteEntry, CutEntryShort, At, PassPlaces
  <2>2. QED
    BY <1>4, <2>1, JournalsTyped, JournalsRoll DEF Quiet, PassPlaces, Idle
<1>5. QED
  BY <1>2, <1>3, <1>4

---------------------------------------------------------------------------
(* Counting.                                                                *)

\* Line k of a text is behind the cursor c.
Past(text, deleted, k, c) ==
  \/ text[k].day > c.segment
  \/ /\ text[k].day = c.segment /\ k > c.upto
     /\ \A j \in deleted : text[j].day # c.segment

\* Nothing behind the cursor c was counted.
Beyond(c, text, deleted, tally) ==
  \A k \in (1..Len(text)) \ deleted : Past(text, deleted, k, c) => tally[k] = 0

\* What a pass that nobody disturbs knows of the counts.
Tally(i, text, deleted, tally, cursor) ==
  /\ i.at = "read" => i.next = cursor /\ Beyond(cursor, text, deleted, tally)
  /\ i.at = "observe" =>
       /\ Beyond(i.next, text, deleted, tally)
       /\ \A t \in i.todo : /\ t.line \in DOMAIN tally /\ tally[t.line] = 0
                            /\ ~Past(text, deleted, t.line, i.next)
       /\ \A t, u \in i.todo : t.line = u.line => t = u
  /\ i.at = "store" => Beyond(i.next, text, deleted, tally)

InPass(p) == inv[p].at \in PassPlaces

Undisturbed ==
  /\ \A k \in DOMAIN observed : observed[k] <= 1
  /\ \A p, q \in Slots : InPass(p) /\ InPass(q) => p = q
  /\ \/ Beyond(offset, lines, gone, observed)
     \/ \E p \in Slots : InPass(p)
  /\ \A p \in Slots : Tally(inv[p], lines, gone, observed, offset)

Counted == replayed \/ Undisturbed

\* Lines added to the journal are of the present and were not counted.
LEMMA AppendsNew ==
  ASSUME JournalTypeOK, Appends
  PROVE  /\ Len(lines) \in Nat /\ Len(lines') \in Nat /\ Len(lines) <= Len(lines')
         /\ DOMAIN observed = 1..Len(lines) /\ DOMAIN observed' = 1..Len(lines')
         /\ \A k \in 1..Len(lines) : lines'[k] = lines[k] /\ observed'[k] = observed[k]
         /\ \A k \in 1..Len(lines') : k \notin 1..Len(lines) =>
              observed'[k] = 0 /\ lines'[k].era = clock.era
         /\ lines' \in Seq(Lines)
<1>1. CASE UNCHANGED <<lines, observed>>
  BY <1>1 DEF JournalTypeOK
<1>2. CASE \E line \in Lines : line.era = clock.era /\ Grow(line)
  <2>1. PICK line \in Lines : line.era = clock.era /\ Grow(line)
    BY <1>2
  <2>2. /\ lines' \in Seq(Lines) /\ Len(lines') = Len(lines) + 1
        /\ \A k \in 1..Len(lines) : lines'[k] = lines[k] /\ observed'[k] = observed[k]
        /\ lines'[Len(lines) + 1] = line
        /\ observed' \in [1..Len(lines') -> Nat]
    BY <2>1, GrowEffect
  <2>3. observed'[Len(lines) + 1] = 0
    <3>1. observed \in Seq(Nat) /\ Len(observed) = Len(lines)
      BY IsASeq, LenProperties DEF JournalTypeOK
    <3>2. QED
      BY <2>1, <3>1 DEF Grow
  <2>4. Len(lines) \in Nat /\ DOMAIN observed = 1..Len(lines)
    BY DEF JournalTypeOK
  <2>5. \A k \in 1..(Len(lines) + 1) : k \notin 1..Len(lines) => k = Len(lines) + 1
    BY <2>4
  <2>6. QED
    BY <2>1, <2>2, <2>3, <2>4, <2>5
<1>3. QED
  BY <1>1, <1>2 DEF Appends

\* Appending lines and deleting segments puts no old line behind a cursor.
LEMMA PastShrinks ==
  ASSUME JournalTypeOK, Appends, NEW k \in 1..Len(lines), NEW c, Past(lines', gone', k, c)
  PROVE  Past(lines, gone, k, c)
<1>1. \A j \in 1..Len(lines) : lines'[j] = lines[j]
  BY AppendsNew
<1>2. gone \in SUBSET gone' /\ gone \in SUBSET (1..Len(lines))
  BY DEF Appends, JournalTypeOK
<1>3. QED
  BY <1>1, <1>2 DEF Past

LEMMA BeyondStays ==
  ASSUME JournalTypeOK, Appends, NEW c, Beyond(c, lines, gone, observed)
  PROVE  Beyond(c, lines', gone', observed')
<1>1. SUFFICES ASSUME NEW k \in (1..Len(lines')) \ gone', Past(lines', gone', k, c)
               PROVE  observed'[k] = 0
  BY DEF Beyond
<1>2. CASE k \in 1..Len(lines)
  <2>1. Past(lines, gone, k, c)
    BY <1>1, <1>2, PastShrinks
  <2>2. k \notin gone
    BY <1>1 DEF Appends
  <2>3. observed'[k] = observed[k]
    BY <1>2, AppendsNew
  <2>4. QED
    BY <1>2, <2>1, <2>2, <2>3 DEF Beyond
<1>3. CASE k \notin 1..Len(lines)
  BY <1>1, <1>3, AppendsNew
<1>4. QED
  BY <1>2, <1>3

LEMMA TallyGrows ==
  ASSUME JournalTypeOK, Appends, NEW i, Tally(i, lines, gone, observed, offset)
  PROVE  Tally(i, lines', gone', observed', offset')
<1>1. \A c : Beyond(c, lines, gone, observed) => Beyond(c, lines', gone', observed')
  BY BeyondStays
<1>2. \A k \in DOMAIN observed : k \in DOMAIN observed' /\ observed'[k] = observed[k]
  BY AppendsNew
<1>3. \A k \in DOMAIN observed : \A c : ~Past(lines, gone, k, c) => ~Past(lines', gone', k, c)
  BY AppendsNew, PastShrinks
<1>4. offset' = offset
  BY DEF Appends
<1>5. QED
  BY <1>1, <1>2, <1>3, <1>4 DEF Tally

\* A step outside the passes disturbs none.
LEMMA OutsideCounts ==
  ASSUME Typed, Undisturbed, NEW p \in Slots, OneSlot(p), Appends,
         inv[p].at \notin PassPlaces, inv'[p].at \notin PassPlaces
  PROVE  Undisturbed'
<1>1. JournalTypeOK
  BY DEF Typed
<1>2. \A q \in Slots : InPass(q)' <=> InPass(q)
  BY DEF OneSlot, InPass
<1>3. \A k \in DOMAIN observed' : observed'[k] <= 1
  <2>1. \A k \in DOMAIN observed' : k \in DOMAIN observed \/ observed'[k] = 0
    BY <1>1, AppendsNew
  <2>2. \A k \in DOMAIN observed : observed'[k] = observed[k]
    BY <1>1, AppendsNew
  <2>3. QED
    BY <2>1, <2>2 DEF Undisturbed
<1>4. Beyond(offset, lines, gone, observed) => Beyond(offset', lines', gone', observed')
  BY <1>1, BeyondStays DEF Appends
<1>5. \A q \in Slots : Tally(inv'[q], lines', gone', observed', offset')
  <2>1. Tally(inv'[p], lines', gone', observed', offset')
    BY DEF Tally, PassPlaces
  <2>2. \A q \in Slots \ {p} :
          inv'[q] = inv[q] /\ Tally(inv[q], lines, gone, observed, offset)
    BY DEF OneSlot, Undisturbed
  <2>3. QED
    BY <1>1, <2>1, <2>2, TallyGrows
<1>6. QED
  BY <1>2, <1>3, <1>4, <1>5 DEF Undisturbed

\* A pass that is alone counts each pair once, and its cursor covers them.
LEMMA PassCounts ==
  ASSUME Typed, Undisturbed, ~replayed, NEW p \in Slots, OneSlot(p), DerivesPairs(p)
  PROVE  replayed' \/ Undisturbed'
<1> USE DEF At, PassPlaces
<1> DEFINE i == inv[p]
<1>1. SlotsOK /\ JournalTypeOK
  BY SMTT(30) DEF Typed
<1>2. i.at \in {"load", "read", "observe", "store"}
  BY DEF DerivesPairs, LoadOffset, ReadTail, Observe, StoreOffset
<1>3. i \in Invocations /\ Good(i, Len(lines)) /\ i.todo \in SUBSET Observations /\ i.next \in Cursors
  BY <1>1, <1>2, AtStatement DEF Invocations
<1>4. /\ Len(lines) \in Nat /\ observed \in [1..Len(lines) -> Nat]
      /\ DOMAIN observed = 1..Len(lines)
  BY <1>1 DEF JournalTypeOK
<1>0. UNCHANGED <<lines, gone>>
  BY DerivesTyped
<1>5. /\ Tally(i, lines, gone, observed, offset)
      /\ \A q \in Slots \ {p} :
           inv'[q] = inv[q] /\ Tally(inv[q], lines, gone, observed, offset)
      /\ \A k \in DOMAIN observed : observed[k] <= 1
  BY DEF OneSlot, Undisturbed
<1>6. i.at # "load" => \A q \in Slots \ {p} : ~InPass(q)
  BY <1>2 DEF Undisturbed, InPass
<1>7. CASE LoadOffset(p)
  <2>1. CASE \E q \in Slots \ {p} : Passing(q)
    BY <1>7, <2>1 DEF LoadOffset
  <2>2. CASE ~ \E q \in Slots \ {p} : Passing(q)
    <3>1. \A q \in Slots : ~InPass(q)
      BY <1>7, <2>2 DEF LoadOffset, Passing, InPass
    <3>2. Beyond(offset, lines, gone, observed)
      BY <3>1 DEF Undisturbed
    <3>3. UNCHANGED <<offset, observed>> /\ inv'[p].at = "read" /\ inv'[p].next = offset
      BY <1>1, <1>3, <1>7 DEF LoadOffset, SlotsOK, Invocations, journalVars
    <3>4. Tally(inv'[p], lines', gone', observed', offset')
      BY <1>0, <3>2, <3>3 DEF Tally
    <3>5. \A q \in Slots \ {p} : ~InPass(q)'
      BY <1>5, <3>1 DEF InPass
    <3>6. QED
      BY <1>0, <1>5, <3>2, <3>3, <3>4, <3>5 DEF Undisturbed
  <2>3. QED
    BY <2>1, <2>2
<1>8. CASE ReadTail(p)
  <2>1. UNCHANGED <<offset, observed, lines>> /\ i.at = "read"
    BY <1>8 DEF ReadTail, journalVars
  <2>2. i.next = offset /\ Beyond(offset, lines, gone, observed)
    BY <1>5, <2>1 DEF Tally
  <2>3. \A q \in Slots \ {p} : ~InPass(q)'
    BY <1>5, <1>6, <2>1 DEF InPass
  <2>4. Tally(inv'[p], lines', gone', observed', offset')
    <3>1. CASE Leave(p)
      BY <1>1, <3>1, LeaveGood DEF Tally, Idle
    <3>2. CASE ~Leave(p)
      <4> DEFINE todo == {[line |-> j, family |-> FamilyBefore(j)] : j \in Pairs(i.next)}
                 at == IF Pairs(i.next) = {} THEN "store" ELSE "observe"
      <4>1. inv'[p] = [i EXCEPT !.at = at, !.todo = todo, !.next = End(i.next)]
            /\ End(i.next) # i.next
        BY <1>1, <1>8, <3>2 DEF ReadTail, SlotsOK
      <4>2. \A j \in Pairs(i.next) : j \in (1..Len(lines)) \ gone /\ Past(lines, gone, j, offset)
        BY <2>2 DEF Pairs, Failures, Kept, Unread, Past
      <4>8. \A k \in (1..Len(lines)) \ gone : ~Past(lines, gone, k, End(i.next))
        BY <1>1, <1>3, <4>1, EndIsCursor DEF Kept, Unread, Past
      <4>3. /\ \A t \in todo : /\ t.line \in 1..Len(lines) /\ observed[t.line] = 0
                               /\ ~Past(lines, gone, t.line, End(i.next))
            /\ \A t, u \in todo : t.line = u.line => t = u
        BY <2>2, <4>2, <4>8 DEF Beyond
      <4>4. at \in {"store", "observe"}
        OBVIOUS
      <4> HIDE DEF todo, at
      <4>5. inv'[p].at = at /\ inv'[p].todo = todo /\ inv'[p].next = End(i.next)
        BY <1>3, <4>1 DEF Invocations
      <4>6. Beyond(End(i.next), lines, gone, observed)
        BY <4>8 DEF Beyond
      <4>7. QED
        BY <1>0, <1>4, <2>1, <4>3, <4>4, <4>5, <4>6 DEF Tally
    <3>3. QED
      BY <3>1, <3>2
  <2>5. QED
    BY <1>0, <1>5, <2>1, <2>2, <2>3, <2>4 DEF Undisturbed
<1>9. CASE Observe(p)
  <2> DEFINE pair == NextPair(p)
             at == IF i.todo = {pair} THEN "store" ELSE "observe"
  <2>1. i.at = "observe" /\ i.todo # {}
    BY <1>3, <1>9 DEF Observe, Good, Idle
  <2>2. pair \in i.todo
    <3>1. \A t \in i.todo : t.line <= Len(lines)
      BY <1>3, <2>1 DEF Good, Idle
    <3>2. QED
      BY <1>1, <1>3, <2>1, <3>1, NextPairIsFirst
  <2>3. /\ Beyond(i.next, lines, gone, observed)
        /\ \A t \in i.todo : /\ t.line \in 1..Len(lines) /\ observed[t.line] = 0
                             /\ ~Past(lines, gone, t.line, i.next)
        /\ \A t, u \in i.todo : t.line = u.line => t = u
    BY <1>4, <1>5, <2>1 DEF Tally
  <2>4. observed' = [observed EXCEPT ![pair.line] = @ + 1] /\ UNCHANGED offset
    BY <1>9 DEF Observe
  <2>5. inv'[p] = [i EXCEPT !.at = at, !.todo = i.todo \ {pair}]
    BY <1>1, <1>9 DEF Observe, SlotsOK
  <2>6. at \in {"store", "observe"}
    OBVIOUS
  <2> HIDE DEF pair, at
  <2>7. inv'[p].at = at /\ inv'[p].todo = i.todo \ {pair} /\ inv'[p].next = i.next
    BY <1>3, <2>5 DEF Invocations
  <2>8. /\ DOMAIN observed' = 1..Len(lines) /\ \A k \in DOMAIN observed' : observed'[k] <= 1
        /\ \A k \in 1..Len(lines) \ {pair.line} : observed'[k] = observed[k]
        /\ Beyond(i.next, lines, gone, observed')
    <3> DEFINE n == Len(lines)
               line == pair.line
    <3>1. /\ n \in Nat /\ line \in 1..n /\ observed \in [1..n -> Nat] /\ observed[line] = 0
          /\ observed' = [observed EXCEPT ![line] = @ + 1]
          /\ ~Past(lines, gone, line, i.next)
          /\ \A k \in DOMAIN observed : observed[k] <= 1
      BY <1>4, <1>5, <2>2, <2>3, <2>4
    <3> HIDE DEF n, line
    <3>2. /\ DOMAIN observed' = 1..n /\ \A k \in DOMAIN observed' : observed'[k] <= 1
          /\ \A k \in 1..n \ {line} : observed'[k] = observed[k]
          /\ Beyond(i.next, lines, gone, observed')
      <4>1. observed' = [k \in 1..n |-> IF k = line THEN observed[line] + 1 ELSE observed[k]]
        BY <3>1
      <4>2. QED
        BY <2>3, <3>1, <4>1 DEF Beyond, n
    <3>3. QED
      BY <3>2 DEF n, line
  <2>9. \A t \in i.todo \ {pair} : t.line # pair.line
    BY <2>2, <2>3
  <2>10. Tally(inv'[p], lines', gone', observed', offset')
    BY <1>0, <2>3, <2>6, <2>7, <2>8, <2>9 DEF Tally
  <2>11. \A q \in Slots \ {p} : ~InPass(q)' /\ Tally(inv'[q], lines', gone', observed', offset')
    BY <1>5, <1>6, <2>1 DEF InPass, Tally
  <2>12. InPass(p)'
    BY <2>6, <2>7 DEF InPass
  <2>13. QED
    BY <2>8, <2>10, <2>11, <2>12 DEF Undisturbed
<1>10. CASE StoreOffset(p)
  <2>1. /\ i.at = "store" /\ offset' = i.next /\ UNCHANGED observed /\ inv'[p] = Idle
    BY <1>1, <1>10, LeaveGood DEF StoreOffset
  <2>2. Beyond(offset', lines', gone', observed')
    BY <1>0, <1>5, <2>1 DEF Tally
  <2>3. \A q \in Slots : ~InPass(q)'
    BY <1>5, <1>6, <2>1 DEF InPass, Idle
  <2>4. \A q \in Slots : Tally(inv'[q], lines', gone', observed', offset')
    BY <2>3 DEF InPass, Tally
  <2>5. QED
    BY <1>5, <2>1, <2>2, <2>3, <2>4 DEF Undisturbed
<1>11. QED
  BY <1>7, <1>8, <1>9, <1>10 DEF DerivesPairs

LEMMA CountedInit == Init => Counted
<1> SUFFICES ASSUME Init PROVE Counted
  OBVIOUS
<1> PICK h \in Histories :
      /\ lines = h.lines /\ gone = {} /\ offset = [segment |-> 0, upto |-> h.offset]
      /\ observed = h.observed
      /\ inv = [p \in Slots |-> Idle]
  BY DEF Init
<1>1. /\ observed \in [1..Len(lines) -> {0, 1}]
      /\ \A k \in 1..Len(lines) : k > h.offset => observed[k] = 0
      /\ \A k \in 1..Len(lines) : lines[k].day = 0
  BY HistoriesAssumption DEF Leavable
<1>2. \A p \in Slots : ~InPass(p) /\ Tally(inv[p], lines, gone, observed, offset)
  BY DEF InPass, PassPlaces, Tally, Idle
<1>3. Beyond(offset, lines, gone, observed) /\ \A k \in DOMAIN observed : observed[k] <= 1
  BY <1>1 DEF Beyond, Past
<1>4. QED
  BY <1>2, <1>3 DEF Counted, Undisturbed

LEMMA CountedStep ==
  ASSUME Typed, Counted, [Next]_vars
  PROVE  Counted'
<1>1. SlotsOK /\ JournalTypeOK
  BY DEF Typed
<1>2. CASE UNCHANGED vars \/ Tick
  <2>1. UNCHANGED <<lines, gone, observed, offset, inv, replayed>>
    BY <1>2 DEF vars, journalVars, Tick, LapseWindow, Midnight, MonthPasses
  <2>2. QED
    BY <2>1 DEF Counted, Undisturbed, InPass
<1>3. ASSUME NEW p \in Slots,
             Begins(p) \/ Works(p) \/ Journals(p) \/ DerivesPairs(p) \/ Die(p)
      PROVE  Counted'
  <2>1. OneSlot(p)
    BY <1>1, <1>3, OnlyItsSlot
  <2>2. CASE Begins(p) \/ Works(p) \/ Journals(p)
    <3>1. /\ Appends /\ UNCHANGED replayed
          /\ inv[p].at \notin PassPlaces /\ inv'[p].at \notin PassPlaces
      BY <2>2, OutsideSteps DEF Quiet, Rolls
    <3>2. QED
      BY <2>1, <3>1, OutsideCounts DEF Counted
  <2>3. CASE DerivesPairs(p)
    <3>1. CASE replayed
      BY <2>3, <3>1 DEF DerivesPairs, LoadOffset, ReadTail, Observe, StoreOffset, Counted
    <3>2. CASE ~replayed
      BY <2>1, <2>3, <3>2, PassCounts DEF Counted
    <3>3. QED
      BY <3>1, <3>2, SMTT(30)
  <2>4. CASE Die(p)
    <3>1. CASE replayed \/ Passing(p)
      BY <2>4, <3>1 DEF Die, Counted
    <3>2. CASE ~replayed /\ ~Passing(p)
      <4>1. inv'[p] = Idle /\ UNCHANGED journalVars
        BY <1>1, <2>4, LeaveGood DEF Die
      <4>2. Appends
        BY <1>1, <4>1, StayingRolls DEF journalVars, Rolls, JournalTypeOK, TornOK
      <4>3. inv[p].at \notin PassPlaces /\ inv'[p].at \notin PassPlaces
        BY <3>2, <4>1 DEF Passing, PassPlaces, Idle
      <4>4. QED
        BY <2>1, <3>2, <4>2, <4>3, OutsideCounts DEF Counted
    <3>3. QED
      BY <3>1, <3>2
  <2>5. QED
    BY <1>3, <2>2, <2>3, <2>4
<1>4. QED
  BY <1>2, <1>3 DEF Next

\* No correction is counted twice unless two passes overlapped or one ended
\* between its first record and its cursor (derive.go: "every observation is
\* counted exactly once").
THEOREM CountedOnce == Spec => []CountedOnceUnlessReplayed
<1>1. Typed /\ Counted => CountedOnceUnlessReplayed
  BY DEF Counted, Undisturbed, CountedOnceUnlessReplayed
<1>2. Typed /\ Counted /\ [Next]_vars => Typed' /\ Counted'
  BY TypeStep, CountedStep
<1>3. QED
  BY <1>1, <1>2, TypeInit, CountedInit, PTL DEF Spec
---------------------------------------------------------------------------
(* Losing.                                                                  *)

\* A failure that can no longer become a correction, or already is one.
Settled(k) == NextTries(k) # {} \/ lines[k].era < clock.era

Timely == {k \in Kept : lines[k].kind = "fail" /\ ~lines[k].late}
Unsettled == {k \in Timely : ~Settled(k)}
Uncounted == {k \in Timely : Corrected(k) /\ ~lines[NextTry(k)].late /\ observed[k] = 0}

\* Before the cursor c everything is settled, and counted or in the batch.
Due(c, batch, text, deleted, unsettled, uncounted) ==
  /\ \A k \in unsettled : Past(text, deleted, k, c)
  /\ \A k \in uncounted : Past(text, deleted, k, c) \/ \E t \in batch : t.line = k

PassDue(i, text, deleted, unsettled, uncounted) ==
  /\ i.at \in {"read", "store"} => Due(i.next, {}, text, deleted, unsettled, uncounted)
  /\ i.at = "observe" => Due(i.next, i.todo, text, deleted, unsettled, uncounted)

\* No cursor is in a segment newer than all there are.
Reached(c, segments) == c.segment = 0 \/ \E d \in segments : c.segment <= d

PassReached(i, segments) == i.at \in PassPlaces => Reached(i.next, segments)

Aged == \A k \in 1..Len(lines) : lines[k].era <= clock.era

\* What was deleted is older than the newest segment, and a line older than
\* something deleted was late.
Rolled ==
  /\ \A j \in gone : \E d \in Segments : lines[j].day < d
  /\ \A j \in gone, k \in Kept : lines[k].day <= lines[j].day => lines[k].late

Covered ==
  /\ Aged /\ Rolled
  /\ Reached(offset, Segments)
  /\ Due(offset, {}, lines, gone, Unsettled, Uncounted)
  /\ \A p \in Slots : PassDue(inv[p], lines, gone, Unsettled, Uncounted)
  /\ \A p \in Slots : PassReached(inv[p], Segments)

LEMMA ErasAreNumbers ==
  ASSUME JournalTypeOK
  PROVE  clock.era \in Nat /\ \A k \in 1..Len(lines) : lines[k].era \in Nat
<1>1. \A k \in 1..Len(lines) : lines[k] \in Lines
  BY DEF JournalTypeOK
<1>2. \A line \in Lines : line.era \in Nat
  BY DEF Lines
<1>3. QED
  BY <1>1, <1>2 DEF JournalTypeOK, Clocks

\* The days of the lines there are after a step.
LEMMA NewDaysAreNumbers ==
  ASSUME JournalTypeOK, Appends
  PROVE  Len(lines') \in Nat /\ \A k \in 1..Len(lines') : lines'[k].day \in Nat
<1>1. lines' \in Seq(Lines)
  BY AppendsNew
<1>2. Len(lines') \in Nat /\ \A k \in 1..Len(lines') : lines'[k] \in Lines
  BY <1>1
<1>3. QED
  BY <1>2 DEF Lines

LEMMA RolledStays ==
  ASSUME JournalTypeOK, Rolled, Rolls
  PROVE  Rolled'
<1>1. Appends /\ gone \in SUBSET (1..Len(lines)) /\ gone' \in SUBSET (1..Len(lines'))
      /\ gone \in SUBSET gone'
  BY DEF Rolls, JournalTypeOK, Appends
<1>2. \A k \in 1..Len(lines) : lines'[k] = lines[k]
  BY <1>1, AppendsNew
<1>3. /\ Segments \in SUBSET Nat
      /\ \A k \in 1..Len(lines') : lines'[k].day \in Nat
  BY <1>1, SegmentsAreNumbers, NewDaysAreNumbers
<1>4. Kept' \in SUBSET (1..Len(lines')) /\ \A k \in Kept' : k \notin gone'
  BY DEF Kept
<1>5. Segments' \in SUBSET Nat
  BY DEF Rolls
<1>6. ASSUME NEW j \in gone' PROVE \E e \in Segments' : lines'[j].day < e
  <2>1. CASE j \in gone
    <3>1. PICK d \in Segments : lines[j].day < d
      BY <2>1 DEF Rolled
    <3>2. PICK e \in Segments' : d <= e
      BY DEF Rolls
    <3>3. lines'[j].day \in Nat /\ lines'[j].day < d /\ d \in Nat
      BY <1>1, <1>2, <1>3, <2>1, <3>1
    <3>4. QED
      BY <1>5, <3>2, <3>3
  <2>2. CASE j \notin gone
    BY <2>2 DEF Rolls
  <2>3. QED
    BY <2>1, <2>2
<1>7. ASSUME NEW j \in gone', NEW k \in Kept', lines'[k].day <= lines'[j].day
      PROVE  lines'[k].late
  <2>0. lines'[j].day \in Nat /\ lines'[k].day \in Nat
    BY <1>1, <1>3, <1>4
  <2>1. CASE j \notin gone
    <3>1. lines'[j].day < lines'[k].day
      BY <2>1 DEF Rolls
    <3>2. QED
      BY <1>7, <2>0, <3>1
  <2>2. CASE j \in gone /\ k \in 1..Len(lines)
    <3>1. k \in Kept /\ lines'[k] = lines[k] /\ lines'[j] = lines[j]
      BY <1>1, <1>2, <1>4, <2>2 DEF Kept
    <3>2. QED
      BY <1>7, <2>2, <3>1 DEF Rolled
  <2>3. CASE j \in gone /\ k \notin 1..Len(lines)
    <3>1. PICK d \in Segments : lines[j].day < d
      BY <2>3 DEF Rolled
    <3>2. lines'[j] = lines[j] /\ d \in Nat
      BY <1>1, <1>2, <1>3, <2>3
    <3>3. ~(d <= lines'[k].day)
      BY <1>7, <2>0, <3>1, <3>2
    <3>4. QED
      BY <1>4, <2>3, <3>3 DEF Rolls
  <2>4. QED
    BY <2>1, <2>2, <2>3
<1>8. QED
  BY <1>6, <1>7 DEF Rolled

\* A failure that is not late keeps the tries that followed it.
LEMMA TriesStay ==
  ASSUME JournalTypeOK, Rolled, Rolls, NEW k \in Kept', k \in 1..Len(lines), ~lines[k].late
  PROVE  /\ k \in Kept
         /\ \A j \in NextTries(k) : j \in NextTries(k)' /\ j \in 1..Len(lines)
         /\ \A j \in NextTries(k)' : j \in 1..Len(lines) => j \in NextTries(k)
<1>1. /\ Appends /\ gone \in SUBSET gone' /\ Len(lines) \in Nat /\ Len(lines') \in Nat
      /\ Len(lines) <= Len(lines')
  BY AppendsNew DEF Rolls, Appends
<1>2. \A j \in 1..Len(lines) : lines'[j] = lines[j]
  BY <1>1, AppendsNew
<1>3. k \in Kept
  BY <1>1 DEF Kept
<1>4. ASSUME NEW j \in NextTries(k) PROVE j \in NextTries(k)' /\ j \in 1..Len(lines)
  <2>1. /\ j \in Kept /\ j \in 1..Len(lines) /\ Before(k, j) /\ IsCommand(lines[j])
        /\ lines[j].session = lines[k].session
    BY <1>4 DEF NextTries, Kept
  <2>2. lines[k].day <= lines[j].day
    BY <1>3, <2>1, DaysAreNumbers DEF Before
  <2>3. ASSUME j \in gone' PROVE FALSE
    <3>1. lines'[k].day <= lines'[j].day
      BY <1>2, <2>1, <2>2
    <3>2. lines'[k].late
      BY <2>3, <3>1, RolledStays DEF Rolled
    <3>3. QED
      BY <1>2, <3>2
  <2>4. j \in Kept'
    BY <1>1, <2>1, <2>3 DEF Kept
  <2>5. lines'[j] = lines[j] /\ lines'[k] = lines[k]
    BY <1>2, <2>1
  <2>6. QED
    BY <2>1, <2>4, <2>5 DEF NextTries, Before, IsCommand
<1>5. ASSUME NEW j \in NextTries(k)', j \in 1..Len(lines) PROVE j \in NextTries(k)
  <2>1. j \in Kept /\ lines'[j] = lines[j] /\ lines'[k] = lines[k]
    BY <1>1, <1>2, <1>5 DEF NextTries, Kept
  <2>2. QED
    BY <1>5, <2>1 DEF NextTries, Before, IsCommand
<1>6. QED
  BY <1>3, <1>4, <1>5

\* The next try after a line is the earliest of them.
LEMMA NextTryIsFirst ==
  ASSUME NEW k, JournalTypeOK, Appends
  PROVE  /\ NextTries(k) # {} => /\ NextTry(k) \in NextTries(k)
                                /\ \A j \in NextTries(k) : ~Sooner(lines, j, NextTry(k))
         /\ NextTries(k)' # {} => /\ NextTry(k)' \in NextTries(k)'
                                 /\ \A j \in NextTries(k)' : ~Sooner(lines', j, NextTry(k)')
<1>1. lines \in Seq(Lines) /\ lines' \in Seq(Lines)
  BY AppendsNew DEF JournalTypeOK
<1>2. NextTries(k) \in SUBSET (1..Len(lines)) /\ NextTries(k)' \in SUBSET (1..Len(lines'))
  BY DEF NextTries, Kept
<1>3. /\ NextTry(k) = CHOOSE i \in NextTries(k) :
                        \A j \in NextTries(k) : ~Sooner(lines, j, i)
      /\ NextTry(k)' = CHOOSE i \in NextTries(k)' :
                         \A j \in NextTries(k)' : ~Sooner(lines', j, i)
  BY DEF NextTry, Earliest, Before, Sooner
<1> DEFINE old == NextTries(k)
           new == NextTries(k)'
<1>4. old # {} => \E i \in old : \A j \in old : ~Sooner(lines, j, i)
  <2> HIDE DEF old
  <2>1. QED
    BY <1>1, <1>2, HasEarliest DEF old
<1>5. new # {} => \E i \in new : \A j \in new : ~Sooner(lines', j, i)
  BY <1>1, <1>2, HasEarliest
<1>6. QED
  BY <1>3, <1>4, <1>5

\* A line appended to the journal settles what was open and reopens nothing,
\* unless it is late.
LEMMA RollsSettle ==
  ASSUME JournalTypeOK, Aged, Rolled, Rolls
  PROVE  /\ \A k \in Unsettled' : k \in Unsettled \/ k \notin 1..Len(lines)
         /\ \A k \in Uncounted' : k \in Uncounted \/ k \in Unsettled \/ k \notin 1..Len(lines)
<1>1. /\ Appends /\ UNCHANGED clock
      /\ \A j \in 1..Len(lines) : lines'[j] = lines[j] /\ observed'[j] = observed[j]
      /\ \A j \in 1..Len(lines') : j \notin 1..Len(lines) => lines'[j].era = clock.era
      /\ Len(lines) \in Nat /\ Len(lines') \in Nat
  BY AppendsNew DEF Rolls, Appends
<1>2. ASSUME NEW k \in Timely', k \in 1..Len(lines)
      PROVE  /\ k \in Unsettled' => k \in Unsettled
             /\ k \in Uncounted' => k \in Uncounted \/ k \in Unsettled
  <2>1. /\ k \in Kept' /\ lines'[k] = lines[k] /\ observed'[k] = observed[k]
        /\ ~lines[k].late /\ lines[k].kind = "fail"
    BY <1>1, <1>2 DEF Timely
  <2>2. /\ k \in Kept
        /\ \A j \in NextTries(k) : j \in NextTries(k)' /\ j \in 1..Len(lines)
        /\ \A j \in NextTries(k)' : j \in 1..Len(lines) => j \in NextTries(k)
    BY <1>2, <2>1, TriesStay
  <2>3. k \in Unsettled' => k \in Unsettled
    <3>1. Settled(k) => Settled(k)'
      BY <1>1, <2>1, <2>2 DEF Settled
    <3>2. QED
      BY <2>1, <2>2, <3>1 DEF Unsettled, Timely
  <2>4. ASSUME k \in Uncounted', Settled(k) PROVE k \in Uncounted
    <3> DEFINE old == NextTries(k)
               new == NextTries(k)'
               e == NextTry(k)
               n == NextTry(k)'
    <3>1. /\ new # {} /\ lines'[n].kind = "good" /\ lines'[n].era = lines[k].era
          /\ ~lines'[n].late /\ observed[k] = 0
      BY <2>1, <2>4 DEF Uncounted, Corrected
    <3>2. n \in new /\ \A j \in new : ~Sooner(lines', j, n)
      BY <1>1, <3>1, NextTryIsFirst
    <3>3. n \in 1..Len(lines') /\ new \in SUBSET (1..Len(lines'))
      BY <3>2 DEF NextTries, Kept
    <3>4. old # {}
      <4>1. ASSUME old = {} PROVE FALSE
        <5>1. n \notin 1..Len(lines) /\ lines[k].era < clock.era
          BY <2>2, <2>4, <3>2, <4>1 DEF Settled
        <5>2. lines'[n].era = clock.era /\ lines[k].era \in Nat /\ clock.era \in Nat
          BY <1>1, <1>2, <3>3, <5>1, ErasAreNumbers
        <5>3. QED
          BY <3>1, <5>1, <5>2
      <4>2. QED
        BY <4>1
    <3>5. /\ e \in old /\ \A j \in old : ~Sooner(lines, j, e)
          /\ e \in new /\ e \in 1..Len(lines) /\ e \in Kept
      BY <1>1, <2>2, <3>4, NextTryIsFirst DEF NextTries
    <3>6. /\ lines[e].day \in Nat /\ lines'[n].day \in Nat /\ lines'[e] = lines[e]
          /\ e \in Nat /\ n \in Nat
      BY <1>1, <3>3, <3>5, DaysAreNumbers, NewDaysAreNumbers
    <3>7. ~Sooner(lines', e, n)
      BY <3>2, <3>5
    <3> HIDE DEF old, new, e, n
    <3>8. n \in 1..Len(lines)
      <4>1. ASSUME n \notin 1..Len(lines) PROVE FALSE
        <5>1. lines[e].day \in Segments
          BY <3>5 DEF Segments
        <5>2. lines[e].day <= lines'[n].day
          BY <3>1, <3>3, <4>1, <5>1 DEF Rolls
        <5>3. e < n
          BY <1>1, <3>3, <3>5, <3>6, <4>1
        <5>4. QED
          BY <3>6, <3>7, <5>2, <5>3 DEF Sooner
      <4>2. QED
        BY <4>1
    <3>9. n = e
      <4>1. n \in old /\ lines'[n] = lines[n]
        BY <1>1, <2>2, <3>2, <3>8 DEF old, new
      <4>2. ~Sooner(lines, n, e)
        BY <3>5, <4>1
      <4>3. lines[n].day \in Nat
        BY <3>6, <4>1
      <4>4. QED
        BY <3>6, <3>7, <4>1, <4>2, <4>3 DEF Sooner
    <3>10. Corrected(k) /\ ~lines[e].late
      BY <3>1, <3>4, <3>6, <3>9 DEF Corrected, old, e
    <3>11. QED
      BY <2>1, <2>2, <3>1, <3>10 DEF Uncounted, Timely, e
  <2>5. k \in Uncounted' => k \in Uncounted \/ k \in Unsettled
    BY <2>1, <2>2, <2>4 DEF Unsettled, Timely
  <2>6. QED
    BY <2>3, <2>5
<1>3. QED
  BY <1>2 DEF Unsettled, Uncounted

\* Time settles what is open and reopens nothing.
LEMMA TimeSettles ==
  ASSUME JournalTypeOK, Aged, UNCHANGED <<lines, gone, observed>>,
         clock'.era \in Nat, clock.era <= clock'.era
  PROVE  Aged' /\ Unsettled' \in SUBSET Unsettled /\ Uncounted' = Uncounted
<1>1. Kept' = Kept /\ \A k : NextTries(k)' = NextTries(k) /\ (Corrected(k)' <=> Corrected(k))
  BY DEF Kept, NextTries, Corrected, NextTry, Earliest, Before, IsCommand
<1>0. Timely' = Timely /\ \A k : NextTry(k)' = NextTry(k)
  BY <1>1 DEF Timely, NextTry, Earliest, Before
<1>2. Uncounted' = Uncounted
  BY <1>0, <1>1 DEF Uncounted
<1>3. clock.era \in Nat /\ \A k \in 1..Len(lines) : lines[k].era \in Nat
  BY ErasAreNumbers
<1>4. Unsettled' \in SUBSET Unsettled
  <2>1. ASSUME NEW k \in Kept, Settled(k) PROVE Settled(k)'
    <3>1. k \in 1..Len(lines)
      BY KeptLines
    <3>2. QED
      BY <1>1, <1>3, <2>1, <3>1 DEF Settled
  <2>2. QED
    BY <1>0, <2>1 DEF Unsettled, Timely
<1>5. Aged'
  BY <1>3 DEF Aged
<1>6. QED
  BY <1>2, <1>4, <1>5

\* What is due before a cursor stays so: nothing before it reopens, and a new
\* line is before no cursor unless it is late.
LEMMA DueStays ==
  ASSUME JournalTypeOK, Aged, Rolled, Rolls, NEW c \in Cursors, c.upto <= Len(lines),
         Reached(c, Segments)
  PROVE  /\ Reached(c, Segments')
         /\ \A batch : Due(c, batch, lines, gone, Unsettled, Uncounted) =>
              Due(c, batch, lines', gone', Unsettled', Uncounted')
<1>1. /\ Appends /\ Len(lines) \in Nat /\ Len(lines') \in Nat
      /\ \A j \in 1..Len(lines) : lines'[j] = lines[j]
      /\ gone \in SUBSET (1..Len(lines)) /\ gone' \in SUBSET (1..Len(lines'))
  BY AppendsNew DEF Rolls, Appends, JournalTypeOK
<1>2. /\ Segments \in SUBSET Nat /\ Segments' \in SUBSET Nat
      /\ c.segment \in Nat /\ c.upto \in Nat
      /\ \A j \in 1..Len(lines') : lines'[j].day \in Nat
  BY <1>1, SegmentsAreNumbers, NewDaysAreNumbers DEF Rolls, Cursors
<1>3. Reached(c, Segments')
  <2>1. CASE c.segment = 0
    BY <2>1 DEF Reached
  <2>2. CASE c.segment # 0
    <3>1. PICK d \in Segments : c.segment <= d
      BY <2>2 DEF Reached
    <3>2. PICK e \in Segments' : d <= e
      BY DEF Rolls
    <3>3. QED
      BY <1>2, <3>1, <3>2 DEF Reached
  <2>3. QED
    BY <2>1, <2>2
<1>4. ASSUME NEW k \in Timely', k \in 1..Len(lines), Past(lines, gone, k, c)
      PROVE  Past(lines', gone', k, c)
  <2>1. k \in Kept' /\ lines'[k] = lines[k]
    BY <1>1, <1>4 DEF Timely
  <2>2. CASE lines[k].day > c.segment
    BY <2>1, <2>2 DEF Past
  <2>3. CASE /\ lines[k].day = c.segment /\ k > c.upto
             /\ \A j \in gone : lines[j].day # c.segment
    <3>1. ASSUME NEW j \in gone' PROVE lines'[j].day # c.segment
      <4>1. CASE j \in gone
        BY <1>1, <2>3, <4>1
      <4>2. CASE j \notin gone
        <5>1. lines'[j].day < lines'[k].day /\ lines'[j].day \in Nat
          BY <1>1, <1>2, <2>1, <4>2 DEF Rolls
        <5>2. QED
          BY <1>2, <2>1, <2>3, <5>1
      <4>3. QED
        BY <4>1, <4>2
    <3>2. QED
      BY <2>1, <2>3, <3>1 DEF Past
  <2>4. QED
    BY <1>4, <2>2, <2>3 DEF Past
<1>5. ASSUME NEW k \in Timely', k \notin 1..Len(lines)
      PROVE  Past(lines', gone', k, c)
  <2>1. k \in Kept' /\ k \in 1..Len(lines') /\ ~lines'[k].late /\ lines'[k].day \in Nat
    BY <1>2, <1>5 DEF Timely, Kept
  <2>2. \A d \in Segments : d <= lines'[k].day
    BY <1>5, <2>1 DEF Rolls
  <2>3. c.segment <= lines'[k].day
    <3>1. CASE c.segment = 0
      BY <2>1, <3>1
    <3>2. CASE c.segment # 0
      <4>1. PICK d \in Segments : c.segment <= d
        BY <3>2 DEF Reached
      <4>2. QED
        BY <1>2, <2>1, <2>2, <4>1
    <3>3. QED
      BY <3>1, <3>2
  <2>4. k > c.upto
    BY <1>1, <1>2, <1>5, <2>1
  <2>5. ASSUME c.segment = lines'[k].day, NEW j \in gone' PROVE lines'[j].day # c.segment
    <3>1. Rolled'
      BY RolledStays
    <3>2. lines'[j].day = lines'[k].day => lines'[k].late
      <4>1. lines'[j].day \in Nat
        BY <1>1, <1>2
      <4>2. QED
        BY <2>1, <3>1, <4>1 DEF Rolled
    <3>3. QED
      BY <2>1, <2>5, <3>2
  <2>6. QED
    BY <1>2, <2>1, <2>3, <2>4, <2>5 DEF Past
<1>6. /\ \A k \in Unsettled' : k \in Timely' /\ (k \in Unsettled \/ k \notin 1..Len(lines))
      /\ \A k \in Uncounted' :
           k \in Timely' /\ (k \in Uncounted \/ k \in Unsettled \/ k \notin 1..Len(lines))
  BY RollsSettle DEF Unsettled, Uncounted
<1>7. Unsettled \in SUBSET (1..Len(lines)) /\ Uncounted \in SUBSET (1..Len(lines))
  BY DEF Unsettled, Uncounted, Timely, Kept
<1>8. ASSUME NEW batch, Due(c, batch, lines, gone, Unsettled, Uncounted)
      PROVE  Due(c, batch, lines', gone', Unsettled', Uncounted')
  BY <1>4, <1>5, <1>6, <1>7, <1>8 DEF Due
<1>9. QED
  BY <1>3, <1>8

\* A step outside the passes loses nothing.
LEMMA OutsideCovers ==
  ASSUME Typed, Covered, NEW p \in Slots, OneSlot(p), Rolls, inv'[p].at \notin PassPlaces
  PROVE  Covered'
<1>1. JournalTypeOK /\ SlotsOK /\ Appends
  BY DEF Typed, Rolls
<1>2. /\ offset \in Cursors /\ offset.upto <= Len(lines) /\ UNCHANGED <<offset, clock>>
  BY <1>1 DEF JournalTypeOK, Appends
<1>3. Aged /\ Rolled /\ Rolled'
  BY <1>1, RolledStays DEF Covered
<1>4. Reached(offset', Segments') /\ Due(offset', {}, lines', gone', Unsettled', Uncounted')
  BY <1>1, <1>2, <1>3, DueStays DEF Covered
<1>5. Aged'
  <2>1. \A k \in 1..Len(lines') : lines'[k].era <= clock.era
    <3>1. clock.era \in Nat
      BY <1>1 DEF JournalTypeOK, Clocks
    <3>2. QED
      BY <1>1, <3>1, AppendsNew DEF Covered, Aged
  <2>2. QED
    BY <1>2, <2>1 DEF Aged
<1>6. ASSUME NEW q \in Slots
      PROVE  /\ PassDue(inv'[q], lines', gone', Unsettled', Uncounted')
             /\ PassReached(inv'[q], Segments')
  <2>1. CASE inv'[q].at \notin PassPlaces
    BY <2>1 DEF PassDue, PassReached, PassPlaces
  <2>2. CASE inv'[q].at \in PassPlaces
    <3>1. q # p /\ inv'[q] = inv[q] /\ inv[q].at \in PassPlaces
      BY <2>2 DEF OneSlot
    <3>2. inv[q].at # "idle"
      BY <3>1 DEF PassPlaces
    <3>3. inv[q].next \in Cursors /\ inv[q].next.upto <= Len(lines)
      BY <1>1, <3>1, <3>2, AtStatement DEF Good, Idle, Invocations, PassPlaces
    <3>4. PassDue(inv[q], lines, gone, Unsettled, Uncounted) /\ Reached(inv[q].next, Segments)
      BY <3>1 DEF Covered, PassReached
    <3>5. /\ Reached(inv[q].next, Segments')
          /\ \A batch : Due(inv[q].next, batch, lines, gone, Unsettled, Uncounted) =>
               Due(inv[q].next, batch, lines', gone', Unsettled', Uncounted')
      BY <1>1, <1>3, <3>3, <3>4, DueStays
    <3>6. QED
      BY <3>1, <3>4, <3>5 DEF PassDue, PassReached
  <2>3. QED
    BY <2>1, <2>2
<1>7. QED
  BY <1>3, <1>4, <1>5, <1>6 DEF Covered

\* A pass reads on only when nothing before its new cursor is open, and stores
\* that cursor only when everything before it is counted.
LEMMA PassCovers ==
  ASSUME Typed, Covered, NEW p \in Slots, OneSlot(p), DerivesPairs(p)
  PROVE  Covered'
<1> USE DEF At
<1> DEFINE i == inv[p]
<1>1. SlotsOK /\ JournalTypeOK
  BY SMTT(30) DEF Typed
<1>2. i.at \in {"load", "read", "observe", "store"}
  BY DEF DerivesPairs, LoadOffset, ReadTail, Observe, StoreOffset
<1>3. i \in Invocations /\ Good(i, Len(lines)) /\ i.todo \in SUBSET Observations /\ i.next \in Cursors
  BY <1>1, <1>2, AtStatement DEF Invocations
<1>4. /\ Len(lines) \in Nat /\ observed \in [1..Len(lines) -> Nat]
      /\ Kept \in SUBSET Nat /\ Kept \in SUBSET (1..Len(lines))
  BY <1>1, KeptLines DEF JournalTypeOK
<1>5. /\ Aged /\ Rolled /\ Reached(offset, Segments) /\ PassReached(i, Segments)
      /\ PassDue(i, lines, gone, Unsettled, Uncounted)
      /\ Due(offset, {}, lines, gone, Unsettled, Uncounted)
      /\ \A q \in Slots \ {p} : /\ inv'[q] = inv[q] /\ PassReached(inv[q], Segments)
                                /\ PassDue(inv[q], lines, gone, Unsettled, Uncounted)
  BY DEF OneSlot, Covered
<1>6. UNCHANGED <<lines, gone, torn, clock>>
  BY DerivesTyped
<1>7. /\ Aged' /\ Kept' = Kept /\ Segments' = Segments /\ Timely' = Timely
      /\ \A k : NextTries(k)' = NextTries(k)
  BY <1>5, <1>6 DEF Aged, Kept, Segments, Timely, NextTries, Before, IsCommand
<1>8. \A k : NextTry(k)' = NextTry(k) /\ (Corrected(k)' <=> Corrected(k))
  <2>1. \A k : NextTry(k)' = NextTry(k)
    BY <1>6, <1>7 DEF NextTry, Earliest, Before
  <2>2. QED
    BY <1>6, <1>7, <2>1 DEF Corrected
<1>16. Unsettled' = Unsettled /\ Rolled'
  BY <1>5, <1>6, <1>7 DEF Unsettled, Settled, Rolled
<1>9. UNCHANGED observed => Uncounted' = Uncounted
  BY <1>6, <1>7, <1>8 DEF Uncounted
<1>17. ASSUME Uncounted' \in SUBSET Uncounted, Reached(offset', Segments),
              PassReached(inv'[p], Segments),
              PassDue(inv'[p], lines, gone, Unsettled, Uncounted'),
              Due(offset', {}, lines, gone, Unsettled, Uncounted')
       PROVE  Covered'
  <2>1. \A q \in Slots \ {p} : PassDue(inv'[q], lines, gone, Unsettled, Uncounted')
    BY <1>5, <1>17 DEF PassDue, Due
  <2>2. \A q \in Slots : /\ PassDue(inv'[q], lines, gone, Unsettled, Uncounted')
                         /\ PassReached(inv'[q], Segments)
    BY <1>5, <1>17, <2>1
  <2>3. QED
    BY <1>6, <1>7, <1>16, <1>17, <2>2 DEF Covered
<1>10. ASSUME UNCHANGED observed, Reached(offset', Segments), PassReached(inv'[p], Segments),
              PassDue(inv'[p], lines, gone, Unsettled, Uncounted),
              Due(offset', {}, lines, gone, Unsettled, Uncounted)
       PROVE  Covered'
  BY <1>9, <1>10, <1>17
<1>11. CASE LoadOffset(p)
  <2>1. UNCHANGED <<offset, observed>> /\ inv'[p].at = "read" /\ inv'[p].next = offset
    BY <1>1, <1>3, <1>11 DEF LoadOffset, SlotsOK, Invocations, journalVars
  <2>2. QED
    BY <1>5, <1>10, <2>1 DEF PassDue, PassReached
<1>12. CASE ReadTail(p)
  <2>1. UNCHANGED <<offset, observed>> /\ i.at = "read"
    BY <1>12 DEF ReadTail, journalVars
  <2>2. Due(i.next, {}, lines, gone, Unsettled, Uncounted) /\ Reached(i.next, Segments)
    BY <1>5, <2>1 DEF PassDue, PassReached, PassPlaces
  <2>3. PassDue(inv'[p], lines, gone, Unsettled, Uncounted) /\ PassReached(inv'[p], Segments)
    <3>1. CASE Leave(p)
      BY <1>1, <3>1, LeaveGood DEF PassDue, PassReached, PassPlaces, Idle
    <3>2. CASE ~Leave(p)
      <4> DEFINE todo == {[line |-> j, family |-> FamilyBefore(j)] : j \in Pairs(i.next)}
                 at == IF Pairs(i.next) = {} THEN "store" ELSE "observe"
      <4>1. inv'[p] = [i EXCEPT !.at = at, !.todo = todo, !.next = End(i.next)]
            /\ ~Pending(i.next) /\ End(i.next) # i.next
        BY <1>1, <1>12, <3>2 DEF ReadTail, SlotsOK
      <4>2. ASSUME NEW k \in Unsettled PROVE FALSE
        <5>1. k \in Kept /\ Unread(k, i.next) /\ lines[k].kind = "fail" /\ ~Settled(k)
          BY <2>2 DEF Due, Unsettled, Timely, Past, Unread
        <5>2. k \in Failures(i.next) /\ NextTries(k) = {} /\ lines[k].era # clock.era
          BY <4>1, <5>1 DEF Failures, Pending, Settled
        <5>3. lines[k].era <= clock.era /\ lines[k].era \in Nat /\ clock.era \in Nat
          BY <1>1, <1>4, <1>5, <5>1, ErasAreNumbers DEF Aged
        <5>4. QED
          BY <5>1, <5>2, <5>3 DEF Settled
      <4>3. \A k \in Uncounted : k \in Pairs(i.next)
        <5>1. ASSUME NEW k \in Uncounted PROVE k \in Pairs(i.next)
          <6>1. Unread(k, i.next) /\ k \in Kept
            BY <2>2 DEF Due, Uncounted, Timely, Past, Unread
          <6>2. QED
            BY <6>1 DEF Uncounted, Timely, Pairs, Failures
        <5>2. QED
          BY <5>1
      <4>4. ASSUME NEW k \in Uncounted PROVE \E t \in todo : t.line = k
        <5>1. /\ [line |-> k, family |-> FamilyBefore(k)] \in todo
              /\ [line |-> k, family |-> FamilyBefore(k)].line = k
          BY <4>3
        <5>2. QED
          BY <5>1
      <4>5. (at = "store" /\ Uncounted = {}) \/ at = "observe"
        BY <4>3
      <4> HIDE DEF todo, at
      <4>6. inv'[p].at = at /\ inv'[p].todo = todo /\ inv'[p].next = End(i.next)
        BY <1>3, <4>1 DEF Invocations
      <4>7. Reached(End(i.next), Segments)
        <5>1. End(i.next).segment \in Segments
          BY <1>1, <1>3, <4>1, EndIsCursor
        <5>2. \A d \in Segments : d <= d
          BY <1>1, SegmentsAreNumbers
        <5>3. QED
          BY <5>1, <5>2 DEF Reached
      <4>8. QED
        BY <4>2, <4>4, <4>5, <4>6, <4>7 DEF PassDue, Due, PassReached
    <3>3. QED
      BY <3>1, <3>2
  <2>4. QED
    BY <1>5, <1>10, <2>1, <2>3
<1>13. CASE Observe(p)
  <2> DEFINE pair == NextPair(p)
             at == IF i.todo = {pair} THEN "store" ELSE "observe"
  <2>1. i.at = "observe" /\ i.todo # {}
    BY <1>3, <1>13 DEF Observe, Good, Idle
  <2>2. pair \in i.todo
    <3>1. \A t \in i.todo : t.line <= Len(lines)
      BY <1>3, <2>1 DEF Good, Idle
    <3>2. QED
      BY <1>1, <1>3, <2>1, <3>1, NextPairIsFirst
  <2>3. observed' = [observed EXCEPT ![pair.line] = @ + 1] /\ UNCHANGED offset
    BY <1>13 DEF Observe
  <2>4. inv'[p] = [i EXCEPT !.at = at, !.todo = i.todo \ {pair}]
    BY <1>1, <1>13 DEF Observe, SlotsOK
  <2>5. Due(i.next, i.todo, lines, gone, Unsettled, Uncounted) /\ Reached(i.next, Segments)
    BY <1>5, <2>1 DEF PassDue, PassReached, PassPlaces
  <2>6. (at = "store" /\ i.todo \ {pair} = {}) \/ at = "observe"
    OBVIOUS
  <2> HIDE DEF pair, at
  <2>7. inv'[p].at = at /\ inv'[p].todo = i.todo \ {pair} /\ inv'[p].next = i.next
    BY <1>3, <2>4 DEF Invocations
  <2>8. Uncounted' \in SUBSET (Uncounted \ {pair.line})
    <3>1. observed' = [k \in 1..Len(lines) |->
                         IF k = pair.line THEN observed[k] + 1 ELSE observed[k]]
      BY <1>4, <2>3
    <3>2. \A k \in Kept : observed'[k] = 0 => observed[k] = 0 /\ k # pair.line
      BY <1>4, <3>1
    <3>3. QED
      BY <1>4, <1>6, <1>7, <1>8, <3>2 DEF Uncounted, Timely
  <2>9. Due(i.next, i.todo \ {pair}, lines, gone, Unsettled, Uncounted')
    BY <2>5, <2>8 DEF Due
  <2>10. PassDue(inv'[p], lines, gone, Unsettled, Uncounted') /\ PassReached(inv'[p], Segments)
    BY <2>5, <2>6, <2>7, <2>9 DEF PassDue, PassReached
  <2>11. Due(offset', {}, lines, gone, Unsettled, Uncounted')
    BY <1>5, <2>3, <2>8 DEF Due
  <2>12. QED
    BY <1>5, <1>17, <2>3, <2>8, <2>10, <2>11
<1>14. CASE StoreOffset(p)
  <2>1. i.at = "store" /\ offset' = i.next /\ UNCHANGED observed /\ inv'[p] = Idle
    BY <1>1, <1>14, LeaveGood DEF StoreOffset
  <2>2. PassDue(inv'[p], lines, gone, Unsettled, Uncounted) /\ PassReached(inv'[p], Segments)
    BY <2>1 DEF PassDue, PassReached, PassPlaces, Idle
  <2>3. QED
    BY <1>5, <1>10, <2>1, <2>2 DEF PassDue, PassReached, PassPlaces
<1>15. QED
  BY <1>11, <1>12, <1>13, <1>14 DEF DerivesPairs

\* What earlier invocations left was derived up to its cursor.
LEMMA CoveredInit == Init => Covered
<1> SUFFICES ASSUME Init PROVE Covered
  OBVIOUS
<1> PICK h \in Histories :
      /\ lines = h.lines /\ gone = {} /\ torn = {}
      /\ offset = [segment |-> 0, upto |-> h.offset] /\ observed = h.observed
      /\ clock = [day |-> 0, era |-> 0, kept |-> 0]
      /\ inv = [p \in Slots |-> Idle]
  BY DEF Init
<1>0. Leavable(h)
  BY HistoriesAssumption
<1>1. /\ lines \in Seq(Lines) /\ Len(lines) \in Nat
      /\ \A k \in 1..Len(lines) : lines[k].era = 0 /\ lines[k].day = 0
      /\ h.offset \in 0..Len(lines) /\ observed \in [1..Len(lines) -> {0, 1}]
  BY <1>0 DEF Leavable
<1>2. \A k \in 1..h.offset : lines[k].kind = "fail" =>
        /\ Retries(h, k) # {}
        /\ \A j \in Retries(h, k) :
             (\A i \in Retries(h, k) : j <= i) /\ lines[j].kind = "good" => observed[k] = 1
  BY <1>0 DEF Leavable
<1>3. Kept = 1..Len(lines)
  BY DEF Kept
<1>4. \A k \in 1..Len(lines) : NextTries(k) = Retries(h, k)
  BY <1>1, <1>3 DEF NextTries, Retries, Before
<1>5. Aged /\ Rolled /\ Reached(offset, Segments)
  BY <1>1 DEF Aged, Rolled, Reached
<1>6. ASSUME NEW k \in 1..Len(lines), ~Past(lines, gone, k, offset)
      PROVE  k \in 1..h.offset
  BY <1>1, <1>6 DEF Past
<1>7. \A k \in Unsettled : Past(lines, gone, k, offset)
  BY <1>2, <1>3, <1>4, <1>6 DEF Unsettled, Timely, Settled
<1>8. ASSUME NEW k \in Uncounted PROVE Past(lines, gone, k, offset)
  <2>1. k \in 1..Len(lines) /\ lines[k].kind = "fail" /\ Corrected(k) /\ observed[k] = 0
    BY <1>3 DEF Uncounted, Timely
  <2>2. ASSUME ~Past(lines, gone, k, offset) PROVE FALSE
    <3> DEFINE j == NextTry(k)
    <3>1. k \in 1..h.offset /\ NextTries(k) = Retries(h, k) /\ NextTries(k) # {}
      BY <1>4, <1>6, <2>1, <2>2 DEF Corrected
    <3>2. j \in NextTries(k) /\ \A i \in NextTries(k) : ~Before(i, j)
      <4>1. NextTries(k) \in SUBSET (1..Len(lines))
        BY <1>3 DEF NextTries
      <4>2. \E j0 \in NextTries(k) : \A i \in NextTries(k) : ~Before(i, j0)
        BY <1>1, <3>1, <4>1, HasEarliest DEF Before, Sooner
      <4>3. QED
        BY <4>2 DEF NextTry, Earliest
    <3> HIDE DEF j
    <3>3. \A i \in NextTries(k) : j <= i
      BY <1>1, <1>3, <3>2 DEF Before, NextTries
    <3>4. lines[j].kind = "good"
      BY <2>1 DEF Corrected, j
    <3>5. QED
      BY <1>2, <2>1, <3>1, <3>2, <3>3, <3>4
  <2>3. QED
    BY <2>2
<1>9. \A p \in Slots : /\ PassDue(inv[p], lines, gone, Unsettled, Uncounted)
                       /\ PassReached(inv[p], Segments)
  BY DEF PassDue, PassReached, PassPlaces, Idle
<1>10. QED
  BY <1>5, <1>7, <1>8, <1>9 DEF Covered, Due

LEMMA CoveredStep ==
  ASSUME Typed, Covered, [Next]_vars
  PROVE  Covered'
<1>1. SlotsOK /\ JournalTypeOK /\ clock.era \in Nat
  BY DEF Typed, JournalTypeOK, Clocks
<1>2. CASE UNCHANGED vars \/ Tick
  <2>1. UNCHANGED <<lines, gone, torn, observed, offset, inv>>
    BY <1>2 DEF vars, journalVars, Tick, LapseWindow, Midnight, MonthPasses
  <2>2. clock'.era \in Nat /\ clock.era <= clock'.era
    <3>1. clock \in Clocks
      BY <1>1 DEF JournalTypeOK
    <3>2. CASE UNCHANGED vars
      BY <1>1, <3>2 DEF vars, journalVars
    <3>3. CASE LapseWindow \/ Midnight \/ MonthPasses
      BY <1>1, <3>1, <3>3 DEF LapseWindow, Midnight, MonthPasses, Clocks
    <3>4. QED
      BY <1>2, <3>2, <3>3 DEF Tick
  <2>3. Aged' /\ Unsettled' \in SUBSET Unsettled /\ Uncounted' = Uncounted
    BY <1>1, <2>1, <2>2, TimeSettles DEF Covered
  <2>4. Segments' = Segments /\ Rolled'
    BY <2>1 DEF Covered, Rolled, Segments, Kept
  <2>5. \A q \in Slots : /\ PassDue(inv'[q], lines', gone', Unsettled', Uncounted')
                         /\ PassReached(inv'[q], Segments')
    BY <2>1, <2>3, <2>4 DEF Covered, PassDue, Due
  <2>6. QED
    BY <2>1, <2>3, <2>4, <2>5 DEF Covered, Due
<1>3. ASSUME NEW p \in Slots,
             Begins(p) \/ Works(p) \/ Journals(p) \/ DerivesPairs(p) \/ Die(p)
      PROVE  Covered'
  <2>1. OneSlot(p)
    BY <1>1, <1>3, OnlyItsSlot
  <2>2. CASE Begins(p) \/ Works(p) \/ Journals(p)
    BY <2>1, <2>2, OutsideSteps, OutsideCovers DEF Quiet
  <2>3. CASE DerivesPairs(p)
    BY <2>1, <2>3, PassCovers
  <2>4. CASE Die(p)
    <3>1. inv'[p] = Idle /\ UNCHANGED journalVars
      BY <1>1, <2>4, LeaveGood DEF Die
    <3>2. Rolls
      BY <1>1, <3>1, StayingRolls DEF journalVars, JournalTypeOK, TornOK
    <3>3. QED
      BY <2>1, <3>1, <3>2, OutsideCovers DEF Idle, PassPlaces
  <2>5. QED
    BY <1>3, <2>2, <2>3, <2>4
<1>4. QED
  BY <1>2, <1>3 DEF Next

\* Whatever processes derive at once, die, store an older cursor or roll the
\* journal over, a corrected failure before the stored cursor was recorded
\* (derive.go: "a failed pass can never skip unprocessed entries"), unless the
\* failure or its correction was written behind a later segment
\* (AppendJournalEntry names the segment before it writes).
THEOREM NothingIsLost == Spec => []NoObservationIsLost
<1>1. Typed /\ Covered => NoObservationIsLost
  <2>1. SUFFICES ASSUME Typed, Covered, NEW k \in Kept, lines[k].kind = "fail",
                        ~lines[k].late, ~Unread(k, offset), Corrected(k),
                        ~lines[NextTry(k)].late
                 PROVE  observed[k] > 0
    BY DEF NoObservationIsLost
  <2>2. observed[k] \in Nat
    BY <2>1, KeptLines DEF Typed, JournalTypeOK
  <2>3. k \notin Uncounted
    BY <2>1 DEF Covered, Due, Past, Unread
  <2>4. QED
    BY <2>1, <2>2, <2>3 DEF Uncounted, Timely
<1>2. Typed /\ Covered /\ [Next]_vars => Typed' /\ Covered'
  BY TypeStep, CoveredStep
<1>3. QED
  BY <1>1, <1>2, TypeInit, CoveredInit, PTL DEF Spec
=============================================================================
