------------------------------ MODULE Journal ------------------------------
(* The invocation journal (internal/learn/journal.go) and what is read out  *)
(* of it (derive.go, synthesize.go).  There is a segment for each day, and  *)
(* the derivation cursor is a place in a segment.  A line is junk when no   *)
(* reader can parse it.  One command, one misspelt flag and one correction  *)
(* are enough: a "fail" line is a usage error that names the flag and the   *)
(* suggestion, a "good" line the command run with the corrected flag, a     *)
(* "recall" line carries a query family and an "other" line tells no reader *)
(* anything.                                                                *)
EXTENDS QueryFamilies, Naturals, Sequences, FiniteSets

CONSTANTS
  Sessions,    \* journal session keys
  JournalCap   \* how many lines fit below journalMaxTotalBytes

ASSUME JournalCapAssumption == JournalCap \in Nat

VARIABLES
  lines,       \* every complete line ever written, in the order of writing;
               \* late: history, a later segment was there before it
  torn,        \* the segments that end without a newline
  gone,        \* lines in segments that cleanup deleted
  offset,      \* the stored cursor: a segment, and its last line before it
  clock,       \* day: the date; era: quarters of an hour; kept: oldest day
               \* that is not past journalMaxSegmentAgeDays
  observed     \* history: how often each line was counted as a failure
               \* that its session corrected

journalVars == <<lines, torn, gone, offset, clock, observed>>

Kinds == {"recall", "fail", "good", "other", "junk"}
Lines == [kind : Kinds, session : Sessions, family : Families \cup {NoFamily},
          day : Nat, era : Nat, late : BOOLEAN]
Cursors == [segment : Nat, upto : Nat]
Clocks == [day : Nat, era : Nat, kept : Nat]

Kept == (1..Len(lines)) \ gone
Segments == {lines[i].day : i \in Kept} \cup torn

Entry(kind, session, family, day) ==
  [kind |-> kind, session |-> session, family |-> family,
   day |-> day, era |-> clock.era, late |-> \E d \in Segments : d > day]

(* cleanupJournalSegments: the oldest segments first, while one is too old  *)
(* or the rest is too big, and never the newest.                            *)
Rest(text) == (1..Len(text)) \ gone
Since(text, day) == Cardinality({i \in Rest(text) : text[i].day >= day})

Removed(text, cut) ==
  LET days == {text[i].day : i \in Rest(text)} \cup cut
  IN  {d \in days : /\ \E e \in days : e > d
                    /\ d < clock.kept \/ Since(text, d) > JournalCap}

(* repairJournalSegmentTail ends an unfinished line of today's segment; it  *)
(* stays unreadable.                                                        *)
RepairTail(session) ==
  /\ IF clock.day \in torn
     THEN /\ lines' = Append(lines, Entry("junk", session, NoFamily, clock.day))
          /\ observed' = Append(observed, 0)
     ELSE UNCHANGED <<lines, observed>>
  /\ torn' = torn \ {clock.day}
  /\ UNCHANGED <<gone, offset, clock>>

(* The one O_APPEND write of an entry, into the segment chosen before, and  *)
(* the cleanup.  Behind a line torn since the repair it completes that line *)
(* instead: neither can be read.                                            *)
AppendEntry(entry) ==
  LET removed == Removed(lines', torn \ {entry.day})
  IN  /\ lines' = Append(lines, IF entry.day \in torn
                                THEN [entry EXCEPT !.kind = "junk"] ELSE entry)
      /\ observed' = Append(observed, 0)
      /\ torn' = (torn \ {entry.day}) \ removed
      /\ gone' = gone \cup {i \in Rest(lines') : lines'[i].day \in removed}
      /\ UNCHANGED <<offset, clock>>

(* A short write: the disk is full, or the process is killed.               *)
TearEntry(day) ==
  torn' = torn \cup {day} /\ UNCHANGED <<lines, gone, offset, clock, observed>>

----------------------------------------------------------------------------
(* What a pass over the lines after from finds.                             *)
IsCommand(line) == line.kind \in {"fail", "good"}

(* The order in which the segments are read.                                *)
Before(i, j) ==
  lines[i].day < lines[j].day \/ (lines[i].day = lines[j].day /\ i < j)
Earliest(S) == CHOOSE i \in S : \A j \in S : ~Before(j, i)
Latest(S) == CHOOSE i \in S : \A j \in S : ~Before(i, j)

(* ReadJournalFrom: of the cursor's segment what lies behind it, and the    *)
(* later segments.  If that segment was deleted and is there again, it is   *)
(* shorter than the cursor.                                                 *)
Unread(i, from) ==
  \/ lines[i].day > from.segment
  \/ /\ lines[i].day = from.segment /\ i > from.upto
     /\ \A j \in gone : lines[j].day # from.segment

(* The cursor behind the last line of the newest segment.                   *)
LastLine(d) ==
  LET is == {i \in Kept : lines[i].day = d}
  IN  IF is = {} THEN 0 ELSE CHOOSE i \in is : \A j \in is : j <= i
Newest == CHOOSE d \in Segments : \A e \in Segments : e <= d
End(from) ==
  IF Segments = {} THEN from ELSE [segment |-> Newest, upto |-> LastLine(Newest)]

NextTries(i) == {j \in Kept : Before(i, j) /\ IsCommand(lines[j])
                              /\ lines[j].session = lines[i].session}

(* Fault: a pass over the whole journal.                                    *)
AllFailures(from) == {i \in Kept : lines[i].kind = "fail"}
Failures(from) == {i \in Kept : Unread(i, from) /\ lines[i].kind = "fail"}

(* The next invocation of the command in that session decides, and only a   *)
(* success within flagCorrectionWindow makes a pair.                        *)
NextTry(i) == Earliest(NextTries(i))
Corrected(i) ==
  /\ NextTries(i) # {}
  /\ lines[NextTry(i)].kind = "good" /\ lines[NextTry(i)].era = lines[i].era

Pairs(from) == {i \in Failures(from) : Corrected(i)}
(* Fault: no failure holds its batch.                                       *)
NothingPending(from) == FALSE
Pending(from) == \E i \in Failures(from) : NextTries(i) = {} /\ lines[i].era = clock.era

Recalls(session) == {i \in Kept : lines[i].kind = "recall" /\ lines[i].session = session}

FamilyOf(recalls) == IF recalls = {} THEN NoFamily ELSE lines[Latest(recalls)].family

(* The family that anchors a pair: its session's last recall before it.     *)
FamilyBefore(i) == FamilyOf({j \in Recalls(lines[i].session) : Before(j, i)})
LastFamily(session) == FamilyOf(Recalls(session))

(* extractSynthesisEpisode: from the session's last recall of the family to *)
(* the end, unless the session recalled another family on the way.          *)
EpisodeStart(f, session) == {i \in Recalls(session) : lines[i].family = f}

Episode(f, session) ==
  {i \in Kept : Before(Latest(EpisodeStart(f, session)), i) /\ lines[i].session = session}

HasEpisode(f, session) ==
  /\ EpisodeStart(f, session) # {}
  /\ \A i \in Episode(f, session) : lines[i].kind = "recall" => lines[i].family = f
  /\ \E i \in Episode(f, session) : lines[i].kind = "good"

EpisodePayload(f, session) ==
  [steps |-> Cardinality({i \in Episode(f, session) : lines[i].kind = "good"}),
   notes |-> \E i \in Episode(f, session) : lines[i].kind = "fail"]

----------------------------------------------------------------------------
(* Time: a quarter of an hour, midnight, a month.                           *)
LapseWindow == /\ clock' = [clock EXCEPT !.era = @ + 1]
               /\ UNCHANGED <<lines, torn, gone, offset, observed>>

Midnight == /\ clock' = [clock EXCEPT !.day = @ + 1]
            /\ UNCHANGED <<lines, torn, gone, offset, observed>>

MonthPasses == /\ clock' = [day |-> clock.day + 1, era |-> clock.era + 1,
                            kept |-> clock.day + 1]
               /\ UNCHANGED <<lines, torn, gone, offset, observed>>

JournalTypeOK ==
  /\ lines \in Seq(Lines)
  /\ torn \in SUBSET Nat /\ IsFiniteSet(torn)
  /\ gone \in SUBSET (1..Len(lines))
  /\ offset \in Cursors /\ offset.upto <= Len(lines)
  /\ clock \in Clocks
  /\ clock.kept <= clock.day
  /\ observed \in [1..Len(lines) -> Nat]
=============================================================================
