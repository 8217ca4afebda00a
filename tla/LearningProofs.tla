--------------------------- MODULE LearningProofs ---------------------------
(* Theorems about Learning: type correctness, and for every number of       *)
(* invocations that run at once and die at any statement, what the journal, *)
(* the cursor and the candidates keep.                                      *)
EXTENDS Learning, FiniteSetTheorems, SequenceTheorems, WellFoundedInduction, TLAPS

(* The extremes the model chooses exist.                                    *)

\* A set of numbers has a least one.
LEMMA HasLeast ==
  ASSUME NEW S \in SUBSET Nat, S # {}
  PROVE  \E i \in S : \A j \in S : i <= j
<1>1. PICK i \in S : \A j \in S : ~ (<<j, i>> \in OpToRel(<, Nat))
  BY NatLessThanWellFounded, WFMin
<1>2. \A j \in S : ~(j < i)
  BY <1>1 DEF OpToRel
<1>3. QED
  BY <1>2

\* A finite set of numbers has a largest one.
LEMMA HasGreatest ==
  ASSUME NEW S \in SUBSET Nat, S # {}, IsFiniteSet(S)
  PROVE  \E i \in S : \A j \in S : j <= i
<1> DEFINE Above(i) == {j \in S : i <= j}
           Sizes == {Cardinality(Above(i)) : i \in S}
<1>1. \A i \in S : Cardinality(Above(i)) \in Nat /\ IsFiniteSet(Above(i))
  <2>1. \A i \in S : Above(i) \in SUBSET S
    OBVIOUS
  <2> HIDE DEF Above
  <2>2. QED
    BY <2>1, FS_Subset, FS_CardinalityType
<1>2. \E d \in Sizes : \A e \in Sizes : d <= e
  <2>1. Sizes \in SUBSET Nat /\ Sizes # {}
    BY <1>1
  <2> HIDE DEF Sizes
  <2>2. QED
    BY <2>1, HasLeast
<1>3. PICK i \in S : \A j \in S : Cardinality(Above(i)) <= Cardinality(Above(j))
  BY <1>2
<1>4. ASSUME NEW j \in S, i < j PROVE FALSE
  <2>0. S \in SUBSET Nat /\ i \in Nat /\ j \in Nat
    OBVIOUS
  <2>1. Above(j) \in SUBSET Above(i) /\ i \in Above(i) /\ i \notin Above(j)
    <3>1. \A k \in S : k \in Nat /\ (j <= k => i <= k)
      BY <1>4, <2>0
    <3>2. i <= i /\ ~(j <= i)
      BY <1>4, <2>0
    <3>3. QED
      BY <3>1, <3>2, Zenon
  <2> HIDE DEF Above
  <2>2. Cardinality(Above(j)) < Cardinality(Above(i))
    BY <1>1, <2>1, FS_Subset
  <2>3. QED
    BY <1>1, <1>3, <2>2
<1>5. \A j \in S : j <= i
  BY <1>4
<1>6. QED
  BY <1>5

\* The lines' days.
LEMMA DaysAreNumbers ==
  ASSUME JournalTypeOK
  PROVE  Len(lines) \in Nat /\ \A i \in 1..Len(lines) : lines[i].day \in Nat
<1>1. Len(lines) \in Nat /\ \A i \in 1..Len(lines) : lines[i] \in Lines
  BY DEF JournalTypeOK
<1>2. \A line \in Lines : line.day \in Nat
  BY DEF Lines
<1>3. QED
  BY <1>1, <1>2

\* Finitely many lines are in finitely many segments.
LEMMA DaysAreFinite ==
  ASSUME NEW text \in Seq(Lines), NEW S \in SUBSET (1..Len(text))
  PROVE  {text[i].day : i \in S} \in SUBSET Nat /\ IsFiniteSet({text[i].day : i \in S})
<1> DEFINE D == {text[i].day : i \in S}
           f == [i \in S |-> text[i].day]
<1>0. Len(text) \in Nat /\ \A i \in 1..Len(text) : text[i] \in Lines
  OBVIOUS
<1>1. D \in SUBSET Nat
  BY <1>0 DEF Lines
<1>2. IsFiniteSet(S)
  <2>1. IsFiniteSet(1..Len(text))
    BY <1>0, FS_Interval
  <2>2. QED
    BY <2>1, FS_Subset
<1>3. f \in [S -> D] /\ \A d \in D : \E i \in S : f[i] = d
  OBVIOUS
<1> HIDE DEF f, D
<1>4. f \in Surjection(S, D)
  BY <1>3 DEF Surjection
<1>5. IsFiniteSet(D)
  BY <1>2, <1>4, FS_Surjection
<1>6. QED
  BY <1>1, <1>5 DEF D

\* The order in which the lines of a text are read, and the first of some.
Sooner(text, i, j) ==
  text[i].day < text[j].day \/ (text[i].day = text[j].day /\ i < j)

LEMMA HasEarliest ==
  ASSUME NEW text \in Seq(Lines), NEW S \in SUBSET (1..Len(text)), S # {}
  PROVE  \E i \in S : \A j \in S : ~Sooner(text, j, i)
<1> DEFINE D == {text[i].day : i \in S}
<1>0. S \in SUBSET Nat /\ \A i \in S : text[i].day \in Nat
  <2>1. Len(text) \in Nat /\ \A i \in 1..Len(text) : text[i] \in Lines
    OBVIOUS
  <2>2. QED
    BY <2>1 DEF Lines
<1>1. D \in SUBSET Nat /\ D # {}
  BY <1>0
<1>2. \E d \in D : \A e \in D : d <= e
  <2> HIDE DEF D
  <2>1. QED
    BY <1>1, HasLeast
<1>3. PICK d \in D : \A e \in D : d <= e
  BY <1>2
<1> DEFINE T == {i \in S : text[i].day = d}
<1>4. T \in SUBSET Nat /\ T # {}
  BY <1>0, <1>3
<1>5. \E i \in T : \A j \in T : i <= j
  <2> HIDE DEF T
  <2>1. QED
    BY <1>4, HasLeast
<1>6. PICK i \in T : \A j \in T : i <= j
  BY <1>5
<1>7. ASSUME NEW j \in S, Sooner(text, j, i) PROVE FALSE
  <2>1. text[j].day \in Nat /\ text[i].day = d /\ d \in Nat /\ i \in Nat /\ j \in Nat
    BY <1>0, <1>6
  <2>2. d <= text[j].day /\ (text[j].day = d => i <= j)
    BY <1>3, <1>6
  <2>3. QED
    BY <1>7, <2>1, <2>2 DEF Sooner
<1>8. QED
  BY <1>6, <1>7

\* The latest of some lines is one of them.
LEMMA LatestIsIn ==
  ASSUME JournalTypeOK, NEW S \in SUBSET (1..Len(lines)), S # {}
  PROVE  Latest(S) \in S
<1> DEFINE D == {lines[i].day : i \in S}
<1>1. D \in SUBSET Nat /\ D # {} /\ IsFiniteSet(D)
  BY DaysAreFinite DEF JournalTypeOK
<1>2. \E d \in D : \A e \in D : e <= d
  <2> HIDE DEF D
  <2>1. QED
    BY <1>1, HasGreatest
<1>3. PICK d \in D : \A e \in D : e <= d
  BY <1>2
<1> DEFINE T == {i \in S : lines[i].day = d}
<1>4. T \in SUBSET Nat /\ T # {} /\ IsFiniteSet(T)
  <2>0. IsFiniteSet(1..Len(lines)) /\ S \in SUBSET Nat
    BY DaysAreNumbers, FS_Interval
  <2>1. T \in SUBSET (1..Len(lines))
    OBVIOUS
  <2>2. T \in SUBSET Nat /\ T # {}
    BY <1>3, <2>0
  <2> HIDE DEF T
  <2>3. QED
    BY <2>0, <2>1, <2>2, FS_Subset
<1>5. \E i \in T : \A j \in T : j <= i
  <2> HIDE DEF T
  <2>1. QED
    BY <1>4, HasGreatest
<1>6. PICK i \in T : \A j \in T : j <= i
  BY <1>5
<1>7. ASSUME NEW j \in S, Before(i, j) PROVE FALSE
  <2>1. lines[j].day \in Nat /\ lines[i].day = d /\ d \in Nat /\ i \in Nat /\ j \in Nat
    BY <1>4, <1>6, DaysAreNumbers
  <2>2. lines[j].day <= d /\ (lines[j].day = d => j <= i)
    BY <1>3, <1>6
  <2>3. QED
    BY <1>7, <2>1, <2>2 DEF Before
<1>8. \E k \in S : \A j \in S : ~Before(k, j)
  BY <1>6, <1>7
<1>9. QED
  BY <1>8 DEF Latest

\* The cursor behind the newest segment is one.
LEMMA EndIsCursor ==
  ASSUME JournalTypeOK, NEW from \in Cursors
  PROVE  /\ End(from) \in Cursors
         /\ End(from) = from \/ (/\ End(from).upto <= Len(lines)
                                /\ End(from).segment \in Segments
                                /\ \A k \in Kept : ~Unread(k, End(from)))
<1>1. Len(lines) \in Nat /\ Kept \in SUBSET (1..Len(lines))
  BY DaysAreNumbers DEF Kept
<1>2. CASE Segments = {}
  BY <1>2 DEF End
<1>3. CASE Segments # {}
  <2> DEFINE D == {lines[i].day : i \in Kept}
             last == {i \in Kept : lines[i].day = Newest}
  <2>1. D \in SUBSET Nat /\ IsFiniteSet(D)
    BY <1>1, DaysAreFinite DEF JournalTypeOK
  <2>2. Segments = D \cup torn
    BY DEF Segments
  <2> HIDE DEF D
  <2>3. Segments \in SUBSET Nat /\ IsFiniteSet(Segments)
    BY <2>1, <2>2, FS_Union DEF JournalTypeOK
  <2>4. Newest \in Segments /\ \A e \in Segments : e <= Newest
    BY <1>3, <2>3, HasGreatest DEF Newest
  <2>5. LastLine(Newest) \in 0..Len(lines) /\ \A i \in last : i <= LastLine(Newest)
    <3>1. CASE last = {}
      BY <1>1, <3>1 DEF LastLine
    <3>2. CASE last # {}
      <4>0. last \in SUBSET (1..Len(lines)) /\ IsFiniteSet(1..Len(lines))
        <5>1. last \in SUBSET (1..Len(lines))
          BY <1>1
        <5>2. 1 \in Int /\ Len(lines) \in Int
          BY <1>1
        <5>3. QED
          BY <5>1, <5>2, FS_Interval
      <4>1. last \in SUBSET Nat /\ IsFiniteSet(last)
        BY <1>1, <4>0, FS_Subset
      <4>2. LastLine(Newest) = CHOOSE i \in last : \A j \in last : j <= i
        BY <3>2 DEF LastLine
      <4> HIDE DEF last
      <4>3. LastLine(Newest) \in last /\ \A j \in last : j <= LastLine(Newest)
        BY <3>2, <4>1, <4>2, HasGreatest
      <4>4. LastLine(Newest) \in 1..Len(lines)
        BY <4>0, <4>3
      <4> HIDE DEF Newest
      <4>5. QED
        BY <1>1, <4>3, <4>4 DEF last
    <3>3. QED
      BY <3>1, <3>2
  <2>6. End(from) = [segment |-> Newest, upto |-> LastLine(Newest)]
    BY <1>3 DEF End
  <2>7. ASSUME NEW k \in Kept, Unread(k, End(from)) PROVE FALSE
    <3>1. lines[k].day \in Segments /\ lines[k].day \in Nat /\ Newest \in Nat
          /\ k \in Nat /\ LastLine(Newest) \in Nat
      BY <1>1, <2>3, <2>4, <2>5 DEF Segments
    <3>2. QED
      BY <2>4, <2>5, <2>6, <2>7, <3>1 DEF Unread
  <2>8. QED
    BY <1>1, <2>3, <2>4, <2>5, <2>6, <2>7 DEF Cursors
<1>4. QED
  BY <1>2, <1>3

\* SQLite's next id is not that of a row (no AUTOINCREMENT is needed for that).
LEMMA FreshIdIsFresh ==
  ASSUME Ids \in SUBSET (Nat \ {0}), IsFiniteSet(Ids)
  PROVE  FreshId \in Nat \ {0} /\ FreshId \notin Ids
<1>1. CASE Ids = {}
  BY <1>1 DEF FreshId
<1>2. CASE Ids # {}
  <2> DEFINE m == CHOOSE id \in Ids : \A other \in Ids : other <= id
  <2>0. Ids \in SUBSET Nat
    OBVIOUS
  <2>1. m \in Ids /\ \A other \in Ids : other <= m
    BY <1>2, <2>0, HasGreatest
  <2>2. FreshId = 1 + m
    BY <1>2 DEF FreshId
  <2> HIDE DEF m
  <2>3. m \in Nat /\ 1 + m \notin Ids
    BY <2>0, <2>1
  <2>4. QED
    BY <2>2, <2>3
<1>3. QED
  BY <1>1, <1>2

---------------------------------------------------------------------------
(* The types.                                                               *)

\* What an invocation at each statement has: a family where it writes or
\* promotes one, a journal kind where it journals, and a batch within the
\* journal where it derives.
Good(i, n) ==
  \/ i = Idle
  \/ /\ i \in Invocations
     /\ i.at \in {"upsert", "list", "look", "confirm", "note", "gate", "episode",
                  "synthesize", "refresh"} => i.family \in Families
     /\ i.at \in {"repair", "write"} => i.command \in {"fail", "good", "recall", "other"}
     /\ i.at \in {"read", "observe", "store"} => i.next.upto <= n
     /\ i.at = "observe" => i.todo # {} /\ \A t \in i.todo : t.line <= n

SlotsOK ==
  /\ DOMAIN inv = Slots
  /\ inv = [p \in Slots |-> inv[p]]
  /\ \A p \in Slots : Good(inv[p], Len(lines))

StoreOK == StoreTypeOK /\ IsFiniteSet(Ids)

Typed ==
  /\ JournalTypeOK /\ StoreOK /\ SlotsOK
  /\ begun \in 0..MaxCommands /\ crashes \in 0..MaxCrashes /\ replayed \in BOOLEAN

\* Only slot p changes.
OneSlot(p) ==
  /\ inv' = [q \in Slots |-> inv'[q]]
  /\ \A q \in Slots \ {p} : inv'[q] = inv[q]

LEMMA OnlyItsSlot ==
  ASSUME SlotsOK, NEW p \in Slots,
         Begins(p) \/ Works(p) \/ Journals(p) \/ DerivesPairs(p) \/ Die(p)
  PROVE  OneSlot(p)
<1> USE DEF SlotsOK, OneSlot, Go, Leave, Finish, Begin
<1>1. CASE Begins(p)
  BY <1>1 DEF Begins, BeginCommand, BeginRecall, BeginTeach, BeginConfirm, BeginReject,
              BeginPurge, BeginWrite
<1>2. CASE Works(p)
  <2>1. CASE WritePlaybook(p) BY <2>1, SMTT(30) DEF WritePlaybook
  <2>2. CASE ListPromotable(p) BY <2>2, ZenonT(60) DEF ListPromotable
  <2>3. CASE LookForPlaybook(p) \/ Gate(p) BY <2>3 DEF LookForPlaybook, Gate
  <2>4. CASE GetCandidate(p) BY <2>4 DEF GetCandidate
  <2>5. CASE Confirm(p) BY <2>5 DEF Confirm, AfterConfirm
  <2>6. CASE ConfirmNote(p) \/ Reject(p) BY <2>6 DEF ConfirmNote, Reject
  <2>7. CASE Expire(p) \/ Purge(p) \/ Refresh(p) BY <2>7 DEF Expire, Purge, Refresh
  <2>8. CASE ReadEpisode(p) BY <2>8 DEF ReadEpisode
  <2>9. CASE Synthesize(p) BY <2>9 DEF Synthesize
  <2>10. QED
    BY <1>2, <2>1, <2>2, <2>3, <2>4, <2>5, <2>6, <2>7, <2>8, <2>9 DEF Works
<1>3. CASE Journals(p)
  BY <1>3 DEF Journals, Repair, WriteEntry, CutEntryShort, AfterJournal
<1>4. CASE DerivesPairs(p)
  BY <1>4 DEF DerivesPairs, LoadOffset, ReadTail, Observe, StoreOffset
<1>5. CASE Die(p)
  BY <1>5 DEF Die
<1>6. QED
  BY <1>1, <1>2, <1>3, <1>4, <1>5

---------------------------------------------------------------------------
(* The transactions of the store keep its types.                            *)

\* A row put in the table.
LEMMA PutRow ==
  ASSUME StoreOK, NEW id \in Nat \ {0}, NEW row \in Candidates, candidates' = Put(id, row)
  PROVE  /\ Ids' = Ids \cup {id} /\ Ids' \in SUBSET (Nat \ {0}) /\ IsFiniteSet(Ids')
         /\ candidates'[id] = row
         /\ \A other \in Ids \ {id} : candidates'[other] = candidates[other]
         /\ \A x \in Ids' : candidates'[x] \in Candidates
<1>1. Ids' = Ids \cup {id}
  BY DEF Put, Ids
<1>2. IsFiniteSet(Ids \cup {id})
  BY FS_AddElement DEF StoreOK
<1>3. Ids \in SUBSET (Nat \ {0}) /\ \A x \in Ids : candidates[x] \in Candidates
  BY DEF StoreOK, StoreTypeOK, Ids
<1>4. \A x \in Ids \cup {id} : candidates'[x] = IF x = id THEN row ELSE candidates[x]
  BY DEF Put
<1>5. QED
  BY <1>1, <1>2, <1>3, <1>4

\* Another sighting leaves a row a row.
LEMMA SightedIsRow ==
  ASSUME NEW row \in Candidates
  PROVE  /\ Sighted(row) \in Candidates
         /\ Sighted(row).sig = row.sig /\ Sighted(row).family = row.family
         /\ Sighted(row).created = row.created
         /\ Sighted(row).status = IF row.status = "expired" THEN "open" ELSE row.status
         /\ row.status = "rejected" => Sighted(row) = row
<1>1. CASE row.status = "rejected"
  BY <1>1 DEF Sighted
<1>2. CASE row.status # "rejected"
  <2>1. Sighted(row) = [sig |-> row.sig, family |-> row.family, payload |-> row.payload,
                        status |-> IF row.status = "expired" THEN "open" ELSE row.status,
                        sightings |-> row.sightings + 1, unseen |-> FALSE,
                        created |-> row.created]
    BY <1>2 DEF Sighted, Candidates
  <2>2. row.sightings + 1 \in Nat \ {0}
    BY DEF Candidates
  <2>3. QED
    BY <1>2, <2>1, <2>2 DEF Candidates, Statuses
<1>3. QED
  BY <1>1, <1>2

\* The row of a signature that has one.
LEMMA RowOfSignature ==
  ASSUME StoreOK, NEW sig, Has(sig)
  PROVE  /\ IdOf(sig) \in Ids /\ IdOf(sig) \in Nat \ {0}
         /\ candidates[IdOf(sig)] \in Candidates /\ candidates[IdOf(sig)].sig = sig
BY DEF Has, IdOf, StoreOK, StoreTypeOK, Ids

\* The row of a signature that has none yet.
NewRow(sig, family, payload) ==
  [sig |-> sig, family |-> family, payload |-> payload, status |-> "open",
   sightings |-> 1, unseen |-> FALSE, created |-> Len(given) + 1]

LEMMA NewRowIsRow ==
  ASSUME StoreOK, NEW sig \in Signatures, NEW family \in Families \cup {NoFamily},
         NEW payload \in Payloads
  PROVE  NewRow(sig, family, payload) \in Candidates
<1>1. Len(given) + 1 \in Nat \ {0}
  BY DEF StoreOK, StoreTypeOK
<1>2. QED
  BY <1>1 DEF NewRow, Candidates, Statuses

LEMMA FreshIdIsFree ==
  ASSUME StoreOK
  PROVE  FreshId \in Nat \ {0} /\ FreshId \notin Ids
BY FreshIdIsFresh DEF StoreOK, StoreTypeOK, Ids

LEMMA DeriveTyped ==
  ASSUME StoreOK, NEW sig \in Signatures, NEW family \in Families \cup {NoFamily},
         NEW payload \in Payloads, DeriveCandidate(sig, family, payload)
  PROVE  StoreOK'
<1>1. CASE Has(sig)
  <2>1. Sighted(candidates[IdOf(sig)]) \in Candidates
    BY <1>1, RowOfSignature, SightedIsRow
  <2>2. candidates' = Put(IdOf(sig), Sighted(candidates[IdOf(sig)]))
        /\ UNCHANGED <<playbooks, given, blessed>>
    BY <1>1 DEF DeriveCandidate
  <2>3. QED
    BY <1>1, <2>1, <2>2, PutRow, RowOfSignature DEF StoreOK, StoreTypeOK, Ids
<1>2. CASE ~Has(sig)
  <2>1. /\ candidates' = Put(FreshId, NewRow(sig, family, payload))
        /\ given' = Append(given, FreshId)
        /\ blessed' = Append(blessed, 0) /\ UNCHANGED playbooks
    BY <1>2 DEF DeriveCandidate, Insert, NewRow
  <2>2. given' \in Seq(Nat \ {0}) /\ blessed' \in Seq(Nat)
    BY <2>1, FreshIdIsFree DEF StoreOK, StoreTypeOK
  <2>3. QED
    BY <2>1, <2>2, PutRow, NewRowIsRow, FreshIdIsFree DEF StoreOK, StoreTypeOK, Ids
<1>3. QED
  BY <1>1, <1>2

\* No row is new and every row stays the row it is.
Follow ==
  /\ Ids' \in SUBSET Ids
  /\ \A id \in Ids' : /\ candidates'[id] \in Candidates
                      /\ candidates'[id].sig = candidates[id].sig
                      /\ candidates'[id].family = candidates[id].family
                      /\ candidates'[id].created = candidates[id].created

LEMMA FollowTyped ==
  ASSUME StoreOK, Follow, UNCHANGED <<given, blessed>>, UNCHANGED playbooks
  PROVE  StoreOK'
<1>1. IsFiniteSet(Ids')
  BY FS_Subset DEF StoreOK, Follow
<1>2. QED
  BY <1>1 DEF StoreOK, StoreTypeOK, Follow, Ids

\* The status of one row is set.
LEMMA SetStatus ==
  ASSUME StoreOK, NEW id \in Ids, NEW status \in Statuses,
         candidates' = [candidates EXCEPT ![id].status = status]
  PROVE  /\ Follow /\ Ids' = Ids
         /\ candidates'[id] = [candidates[id] EXCEPT !.status = status]
         /\ candidates'[id].status = status
         /\ \A other \in Ids \ {id} : candidates'[other] = candidates[other]
<1>1. \A x \in Ids : candidates[x] \in Candidates
  BY DEF StoreOK, StoreTypeOK, Ids
<1>2. Ids' = Ids /\ \A other \in Ids \ {id} : candidates'[other] = candidates[other]
  BY DEF Ids
<1>3. candidates'[id] = [candidates[id] EXCEPT !.status = status]
  BY DEF Ids
<1>4. /\ candidates'[id] \in Candidates /\ candidates'[id].status = status
      /\ candidates'[id].sig = candidates[id].sig
      /\ candidates'[id].family = candidates[id].family
      /\ candidates'[id].created = candidates[id].created
  BY <1>1, <1>3 DEF Candidates
<1>5. QED
  BY <1>1, <1>2, <1>3, <1>4 DEF Follow

\* learn_candidates where one statement sweeps the open rows.
LEMMA SweepEffect ==
  ASSUME StoreOK, ExpireCandidates \/ MonthUnseen
  PROVE  /\ Follow /\ Ids' = Ids /\ UNCHANGED <<playbooks, given, blessed>>
         /\ \A id \in Ids : candidates[id].status # "open" => candidates'[id] = candidates[id]
         /\ \A id \in Ids : candidates[id].status = "open" =>
              candidates'[id].status \in {"open", "expired"}
<1>1. \A x \in Ids : candidates[x] \in Candidates
  BY DEF StoreOK, StoreTypeOK, Ids
<1>2. CASE ExpireCandidates
  <2>1. Ids' = Ids /\ UNCHANGED <<playbooks, given, blessed>>
    BY <1>2 DEF ExpireCandidates, Ids
  <2>2. \A id \in Ids : \/ candidates'[id] = candidates[id]
                        \/ /\ candidates[id].status = "open"
                           /\ candidates'[id] = [candidates[id] EXCEPT !.status = "expired"]
    BY <1>2 DEF ExpireCandidates, Ids
  <2>3. \A row \in Candidates :
          LET new == [row EXCEPT !.status = "expired"]
          IN  /\ new \in Candidates /\ new.status = "expired" /\ new.sig = row.sig
              /\ new.family = row.family /\ new.created = row.created
    BY DEF Candidates, Statuses
  <2>4. \A id \in Ids :
          /\ candidates'[id] \in Candidates /\ candidates'[id].sig = candidates[id].sig
          /\ candidates'[id].family = candidates[id].family
          /\ candidates'[id].created = candidates[id].created
    <3> SUFFICES ASSUME NEW id \in Ids
                 PROVE  /\ candidates'[id] \in Candidates
                        /\ candidates'[id].sig = candidates[id].sig
                        /\ candidates'[id].family = candidates[id].family
                        /\ candidates'[id].created = candidates[id].created
      OBVIOUS
    <3>1. candidates[id] \in Candidates
      BY <1>1
    <3>2. CASE candidates'[id] = candidates[id]
      BY <3>1, <3>2
    <3>3. CASE candidates'[id] = [candidates[id] EXCEPT !.status = "expired"]
      BY <2>3, <3>1, <3>3
    <3>4. QED
      BY <2>2, <3>2, <3>3
  <2>5. \A id \in Ids : candidates[id].status = "open" =>
          candidates'[id].status \in {"open", "expired"}
    <3> SUFFICES ASSUME NEW id \in Ids, candidates[id].status = "open"
                 PROVE  candidates'[id].status \in {"open", "expired"}
      OBVIOUS
    <3>1. CASE candidates'[id] = candidates[id]
      BY <3>1
    <3>2. CASE candidates'[id] = [candidates[id] EXCEPT !.status = "expired"]
      BY <1>1, <2>3, <3>2
    <3>3. QED
      BY <2>2, <3>1, <3>2
  <2>6. \A id \in Ids : candidates[id].status # "open" => candidates'[id] = candidates[id]
    BY <2>2
  <2>7. QED
    BY <2>1, <2>4, <2>5, <2>6 DEF Follow
<1>3. CASE MonthUnseen
  <2>1. Ids' = Ids /\ UNCHANGED <<playbooks, given, blessed>>
    BY <1>3 DEF MonthUnseen, Ids
  <2>2. \A id \in Ids : \/ candidates'[id] = candidates[id]
                        \/ /\ candidates[id].status = "open"
                           /\ candidates'[id] = [candidates[id] EXCEPT !.unseen = TRUE]
    BY <1>3 DEF MonthUnseen, Ids
  <2>3. \A row \in Candidates :
          LET new == [row EXCEPT !.unseen = TRUE]
          IN  /\ new \in Candidates /\ new.status = row.status /\ new.sig = row.sig
              /\ new.family = row.family /\ new.created = row.created
    BY DEF Candidates
  <2>4. QED
    BY <1>1, <2>1, <2>2, <2>3 DEF Follow
<1>4. QED
  BY <1>2, <1>3

LEMMA PurgeEffect ==
  ASSUME StoreOK, NEW tombstones \in BOOLEAN, PurgeCandidates(tombstones)
  PROVE  /\ Follow /\ UNCHANGED <<playbooks, given, blessed>>
         /\ \A id \in Ids' : candidates'[id] = candidates[id]
         /\ \A id \in Ids : candidates[id].status = "rejected" /\ ~tombstones => id \in Ids'
<1>1. Ids' = {id \in Ids : candidates[id].status \notin Purged(tombstones)}
      /\ UNCHANGED <<playbooks, given, blessed>>
  BY DEF PurgeCandidates, Ids
<1>2. \A id \in Ids' : candidates'[id] = candidates[id]
  BY <1>1 DEF PurgeCandidates
<1>3. QED
  BY <1>1, <1>2 DEF Follow, Purged, StoreOK, StoreTypeOK, Ids

LEMMA RefreshEffect ==
  ASSUME StoreOK, NEW id, NEW payload \in Payloads, RefreshPayload(id, payload)
  PROVE  /\ Follow /\ Ids' = Ids /\ UNCHANGED <<playbooks, given, blessed>>
         /\ \A x \in Ids : candidates'[x].status = candidates[x].status
         /\ \A x \in Ids : candidates[x].status # "open" => candidates'[x] = candidates[x]
<1>1. \A x \in Ids : candidates[x] \in Candidates
  BY DEF StoreOK, StoreTypeOK, Ids
<1>2. Ids' = Ids /\ UNCHANGED <<playbooks, given, blessed>>
  BY DEF RefreshPayload, Ids
<1>3. \A x \in Ids : \/ candidates'[x] = candidates[x]
                     \/ /\ candidates[x].status = "open"
                        /\ candidates'[x] = [candidates[x] EXCEPT !.payload = payload]
  BY DEF RefreshPayload, OpenForConfirm, Ids
<1>4. \A row \in Candidates :
        LET new == [row EXCEPT !.payload = payload]
        IN  /\ new \in Candidates /\ new.status = row.status /\ new.sig = row.sig
            /\ new.family = row.family /\ new.created = row.created
  BY DEF Candidates
<1>5. QED
  BY <1>1, <1>2, <1>3, <1>4 DEF Follow

\* Writing a playbook: its family has one, and no other loses its own.
PlaybooksGrow(f) ==
  /\ DOMAIN playbooks' = DOMAIN playbooks \cup {f}
  /\ \A g \in DOMAIN playbooks' : playbooks'[g] \in Playbooks

LEMMA UpsertEffect ==
  ASSUME StoreOK, NEW f \in Families, NEW payload \in Payloads, UpsertPlaybookRow(f, payload)
  PROVE  PlaybooksGrow(f)
<1>1. \A row \in Playbooks : PutPlaybook(f, row) => PlaybooksGrow(f)
  BY DEF PutPlaybook, PlaybooksGrow, StoreOK, StoreTypeOK
<1>2. Written(payload) \in SUBSET {"text", "correction"}
  BY DEF Written
<1>3. HasPlaybook(f) => playbooks[f] \in Playbooks
  BY DEF HasPlaybook, StoreOK, StoreTypeOK
<1>4. QED
  BY <1>1, <1>2, <1>3 DEF UpsertPlaybookRow, Playbooks, Payloads

LEMMA AppendNoteEffect ==
  ASSUME StoreOK, NEW f \in Families, NEW note \in {"text", "correction"}, AppendNoteRow(f, note)
  PROVE  PlaybooksGrow(f)
<1>1. \A row \in Playbooks : PutPlaybook(f, row) => PlaybooksGrow(f)
  BY DEF PutPlaybook, PlaybooksGrow, StoreOK, StoreTypeOK
<1>2. HasPlaybook(f) => playbooks[f] \in Playbooks
  BY DEF HasPlaybook, StoreOK, StoreTypeOK
<1>3. CASE HasPlaybook(f)
  <2>1. [playbooks[f] EXCEPT !.notes = @ \cup {note}] \in Playbooks
    BY <1>2, <1>3 DEF Playbooks
  <2>2. QED
    BY <1>1, <1>3, <2>1 DEF AppendNoteRow
<1>4. CASE ~HasPlaybook(f)
  <2>1. [steps |-> 0, notes |-> {note}] \in Playbooks
    BY DEF Playbooks
  <2>2. QED
    BY <1>1, <1>4, <2>1 DEF AppendNoteRow
<1>5. QED
  BY <1>3, <1>4
---------------------------------------------------------------------------
(* The journal.                                                             *)

\* At most one line is written, it is of the present, and segments are only
\* deleted.
Grow(line) == lines' = Append(lines, line) /\ observed' = Append(observed, 0)

Appends ==
  /\ \/ UNCHANGED <<lines, observed>>
     \/ \E line \in Lines : line.era = clock.era /\ Grow(line)
  /\ gone \in SUBSET gone' /\ gone' \in SUBSET (1..Len(lines'))
  /\ UNCHANGED <<offset, clock>>

TornOK == torn \in SUBSET Nat /\ IsFiniteSet(torn)

LEMMA GrowEffect ==
  ASSUME JournalTypeOK, NEW line \in Lines, Grow(line)
  PROVE  /\ lines' \in Seq(Lines) /\ Len(lines') = Len(lines) + 1
         /\ \A i \in 1..Len(lines) : lines'[i] = lines[i]
         /\ lines'[Len(lines) + 1] = line
         /\ observed' \in [1..Len(lines') -> Nat]
         /\ \A i \in 1..Len(lines) : observed'[i] = observed[i]
         /\ observed'[Len(lines) + 1] = 0
<1>1. /\ lines \in Seq(Lines) /\ Len(lines) \in Nat /\ lines' = Append(lines, line)
      /\ observed \in [1..Len(lines) -> Nat] /\ observed' = Append(observed, 0)
  BY DEF JournalTypeOK, Grow
<1>2. /\ lines' \in Seq(Lines) /\ Len(lines') = Len(lines) + 1
      /\ \A i \in 1..Len(lines) : lines'[i] = lines[i]
      /\ lines'[Len(lines) + 1] = line
  BY <1>1
<1>3. observed \in Seq(Nat) /\ Len(observed) = Len(lines)
  BY <1>1, IsASeq, LenProperties
<1>4. /\ observed' \in Seq(Nat) /\ Len(observed') = Len(lines) + 1
      /\ \A i \in 1..Len(lines) : observed'[i] = observed[i]
      /\ observed'[Len(lines) + 1] = 0
  BY <1>1, <1>3
<1>5. observed' \in [1..Len(lines') -> Nat]
  BY <1>2, <1>4, LenProperties
<1>6. QED
  BY <1>2, <1>4, <1>5

LEMMA AppendsTyped ==
  ASSUME JournalTypeOK, Appends, TornOK'
  PROVE  /\ JournalTypeOK' /\ Len(lines') \in Nat /\ Len(lines) <= Len(lines')
         /\ \A i \in 1..Len(lines) : lines'[i] = lines[i] /\ observed'[i] = observed[i]
<1>1. CASE UNCHANGED <<lines, observed>>
  BY <1>1 DEF Appends, JournalTypeOK, Clocks, TornOK
<1>2. CASE \E line \in Lines : line.era = clock.era /\ Grow(line)
  <2>1. PICK line \in Lines : line.era = clock.era /\ Grow(line)
    BY <1>2
  <2>2. /\ lines' \in Seq(Lines) /\ Len(lines') = Len(lines) + 1
        /\ \A i \in 1..Len(lines) : lines'[i] = lines[i] /\ observed'[i] = observed[i]
        /\ observed' \in [1..Len(lines') -> Nat]
    BY <2>1, GrowEffect
  <2>3. Len(lines) \in Nat /\ offset.upto <= Len(lines) /\ offset.upto \in Nat
    BY DEF JournalTypeOK, Cursors
  <2>4. offset.upto <= Len(lines')
    BY <2>2, <2>3
  <2>5. QED
    BY <2>2, <2>3, <2>4 DEF Appends, JournalTypeOK, TornOK
<1>3. QED
  BY <1>1, <1>2 DEF Appends

\* An entry is a line.
LEMMA EntryIsLine ==
  ASSUME JournalTypeOK, NEW kind \in Kinds, NEW session \in Sessions,
         NEW family \in Families \cup {NoFamily}, NEW day \in Nat
  PROVE  /\ Entry(kind, session, family, day) \in Lines
         /\ Entry(kind, session, family, day).era = clock.era
         /\ Entry(kind, session, family, day).day = day
         /\ [Entry(kind, session, family, day) EXCEPT !.kind = "junk"] \in Lines
         /\ [Entry(kind, session, family, day) EXCEPT !.kind = "junk"].era = clock.era
BY DEF Entry, Lines, Kinds, JournalTypeOK, Clocks

LEMMA RepairAppends ==
  ASSUME JournalTypeOK, NEW session \in Sessions, RepairTail(session)
  PROVE  Appends /\ TornOK'
<1>1. TornOK'
  BY FS_Subset DEF RepairTail, JournalTypeOK, TornOK
<1>2. CASE clock.day \in torn
  <2> DEFINE line == Entry("junk", session, NoFamily, clock.day)
  <2>0. clock.day \in Nat /\ "junk" \in Kinds /\ NoFamily \in Families \cup {NoFamily}
    BY DEF Kinds, JournalTypeOK, Clocks
  <2>1. line \in Lines /\ line.era = clock.era
    BY <2>0 DEF Entry, Lines, JournalTypeOK, Clocks
  <2>2. Grow(line) /\ UNCHANGED <<gone, offset, clock>>
    BY <1>2 DEF RepairTail, Grow
  <2> HIDE DEF line
  <2>3. gone' \in SUBSET (1..Len(lines'))
    BY <2>1, <2>2, GrowEffect DEF JournalTypeOK
  <2>4. QED
    BY <1>1, <2>1, <2>2, <2>3 DEF Appends
<1>3. CASE clock.day \notin torn
  BY <1>1, <1>3 DEF RepairTail, JournalTypeOK, Appends
<1>4. QED
  BY <1>2, <1>3

\* What AppendEntry writes, and where the line goes.
LineOf(entry) == IF entry.day \in torn THEN [entry EXCEPT !.kind = "junk"] ELSE entry

LEMMA WrittenIsLine ==
  ASSUME JournalTypeOK, NEW kind \in Kinds, NEW session \in Sessions,
         NEW family \in Families \cup {NoFamily}, NEW day \in Nat
  PROVE  LET entry == Entry(kind, session, family, day)
         IN  /\ LineOf(entry) \in Lines /\ LineOf(entry).era = clock.era
             /\ LineOf(entry).day = day
             /\ LineOf(entry).late <=> \E d \in Segments : d > day
BY EntryIsLine DEF LineOf, Entry

LEMMA EntryAppends ==
  ASSUME JournalTypeOK, NEW kind \in Kinds, NEW session \in Sessions,
         NEW family \in Families \cup {NoFamily}, NEW day \in Nat,
         AppendEntry(Entry(kind, session, family, day))
  PROVE  Appends /\ TornOK'
<1> DEFINE entry == Entry(kind, session, family, day)
           line == LineOf(entry)
           removed == Removed(lines', torn \ {entry.day})
<1>1. line \in Lines /\ line.era = clock.era
  BY WrittenIsLine
<1>2. /\ Grow(line) /\ torn' = (torn \ {entry.day}) \ removed
      /\ gone' = gone \cup {i \in Rest(lines') : lines'[i].day \in removed}
      /\ UNCHANGED <<offset, clock>>
  BY DEF AppendEntry, Grow, LineOf
<1> HIDE DEF line, removed, entry
<1>3. TornOK'
  BY <1>2, FS_Subset DEF JournalTypeOK, TornOK
<1>4. Len(lines) \in Nat /\ Len(lines') = Len(lines) + 1 /\ gone \in SUBSET (1..Len(lines))
  BY <1>1, <1>2, GrowEffect DEF JournalTypeOK
<1>5. gone' \in SUBSET (1..Len(lines')) /\ gone \in SUBSET gone'
  BY <1>2, <1>4 DEF Rest
<1>6. QED
  BY <1>1, <1>2, <1>3, <1>5 DEF Appends
---------------------------------------------------------------------------
(* The invocations.                                                         *)

\* An invocation at a statement is one, and has what it needs there.
LEMMA AtStatement ==
  ASSUME SlotsOK, NEW p \in Slots, inv[p].at # "idle"
  PROVE  inv[p] \in Invocations /\ Good(inv[p], Len(lines))
BY DEF SlotsOK, Good, Idle

LEMMA MoveGood ==
  ASSUME NEW i \in Invocations, NEW at \in Places
  PROVE  /\ [i EXCEPT !.at = at] \in Invocations
         /\ [i EXCEPT !.at = at].at = at
         /\ [i EXCEPT !.at = at].family = i.family
         /\ [i EXCEPT !.at = at].command = i.command
         /\ [i EXCEPT !.at = at].next = i.next
         /\ [i EXCEPT !.at = at].todo = i.todo
BY DEF Invocations

LEMMA ReturnedGood ==
  ASSUME NEW i \in Invocations, NEW n
  PROVE  Good(Returned(i), n) /\ Returned(i).at = "repair"
<1>1. KindOf(i.command) \in {"fail", "good", "recall", "other"}
  BY DEF KindOf
<1>2. Returned(i) \in Invocations /\ Returned(i).command = KindOf(i.command)
      /\ Returned(i).at = "repair"
  BY <1>1 DEF Returned, Invocations, Places, Commands, NoPayload, Payloads, Beginning, Cursors
<1>3. QED
  BY <1>1, <1>2 DEF Good

LEMMA GoodGrows ==
  ASSUME NEW i, NEW n \in Nat, NEW m \in Nat, n <= m, Good(i, n)
  PROVE  Good(i, m)
<1>1. CASE i = Idle
  BY <1>1 DEF Good
<1>2. CASE i # Idle
  <2>1. /\ i \in Invocations /\ i.next.upto \in Nat
        /\ \A t \in i.todo : t.line \in Nat
    BY <1>2 DEF Good, Invocations, Cursors, Observations
  <2>2. /\ i.next.upto <= n => i.next.upto <= m
        /\ \A t \in i.todo : t.line <= n => t.line <= m
    BY <2>1
  <2>3. QED
    BY <1>2, <2>2 DEF Good
<1>3. QED
  BY <1>1, <1>2

\* Moving on to a statement that needs no more than the present one has.
LEMMA GoGood ==
  ASSUME SlotsOK, NEW p \in Slots, inv[p].at # "idle", NEW at \in Places, Go(p, at),
         \/ at \in {"confirm", "list", "gate", "episode"} /\ inv[p].family \in Families
         \/ at \in {"purge", "load"}
  PROVE  Good(inv'[p], Len(lines))
<1>1. inv[p] \in Invocations /\ Good(inv[p], Len(lines))
  BY AtStatement
<1>2. inv'[p] = [inv[p] EXCEPT !.at = at]
  BY DEF Go, SlotsOK
<1>3. /\ inv'[p] \in Invocations /\ inv'[p].at = at /\ inv'[p].family = inv[p].family
      /\ inv'[p].command = inv[p].command
  BY <1>1, <1>2, MoveGood
<1>4. QED
  BY <1>3 DEF Good

LEMMA LeaveGood ==
  ASSUME SlotsOK, NEW p \in Slots, Leave(p) PROVE Good(inv'[p], Len(lines)) /\ inv'[p] = Idle
BY DEF Leave, SlotsOK, Good

LEMMA FinishGood ==
  ASSUME SlotsOK, NEW p \in Slots, inv[p].at # "idle", Finish(p)
  PROVE  Good(inv'[p], Len(lines)) /\ inv'[p].at = "repair"
<1>1. inv[p] \in Invocations /\ inv'[p] = Returned(inv[p])
  BY AtStatement DEF Finish, SlotsOK
<1>2. QED
  BY <1>1, ReturnedGood

\* What Begin puts in the slot.
LEMMA BeginEffect ==
  ASSUME SlotsOK, NEW p \in Slots, NEW command \in Commands, NEW at \in Places,
         NEW session \in Callers, NEW family \in Families \cup {NoFamily},
         NEW flag \in BOOLEAN, NEW id \in Nat,
         Begin(p, command, at, session, family, flag, id)
  PROVE  /\ inv'[p] \in Invocations
         /\ inv'[p].at = at /\ inv'[p].command = command /\ inv'[p].family = family
<1>1. session \in Sessions
  BY CallersAssumption
<1>2. inv'[p] = [at |-> at, command |-> command, session |-> session, family |-> family,
                 flag |-> flag, id |-> id, created |-> 0, payload |-> NoPayload,
                 todo |-> {}, next |-> Beginning, segment |-> 0]
  BY DEF Begin, SlotsOK
<1>3. Beginning \in Cursors
  BY DEF Beginning, Cursors
<1>4. QED
  BY <1>1, <1>2, <1>3 DEF Invocations, NoPayload, Payloads

LEMMA BeginsGood ==
  ASSUME Typed, NEW p \in Slots, Begins(p)
  PROVE  /\ Good(inv'[p], Len(lines))
         /\ inv'[p].at \in {"repair", "upsert", "list", "get", "reject", "expire"}
<1> USE DEF Typed
<1>1. \A id \in Ids : id \in Nat
  BY DEF StoreOK, StoreTypeOK, Ids
<1>2. /\ 0 \in Nat /\ NoFamily \in Families \cup {NoFamily} /\ SlotsOK
      /\ \A f \in Families : f \in Families \cup {NoFamily}
  OBVIOUS
<1>0. /\ {"fail", "good", "recall", "teach", "confirm", "reject", "purge", "amend",
          "teach-playbook"} \in SUBSET Commands
      /\ {"repair", "upsert", "list", "get", "reject", "expire"} \in SUBSET Places
  BY DEF Commands, Places
<1>3. CASE BeginCommand(p)
  <2>1. PICK s \in Callers, outcome \in {"fail", "good"} :
          Begin(p, outcome, "repair", s, NoFamily, FALSE, 0)
    BY <1>3 DEF BeginCommand
  <2>2. outcome \in Commands /\ "repair" \in Places
    BY <1>0
  <2>3. inv'[p] \in Invocations /\ inv'[p].at = "repair" /\ inv'[p].command = outcome
    BY <1>2, <2>2, <2>1, BeginEffect
  <2>4. QED
    BY <2>1, <2>3 DEF Good
<1>4. CASE BeginRecall(p)
  <2>1. PICK s \in Callers, f \in Families : Begin(p, "recall", "repair", s, f, FALSE, 0)
    BY <1>4 DEF BeginRecall
  <2>2. f \in Families \cup {NoFamily} /\ "recall" \in Commands /\ "repair" \in Places
    BY <1>0
  <2>3. inv'[p] \in Invocations /\ inv'[p].at = "repair" /\ inv'[p].command = "recall"
    BY <1>2, <2>2, <2>1, BeginEffect
  <2>4. QED
    BY <2>1, <2>3 DEF Good
<1>5. CASE BeginTeach(p)
  <2>1. PICK s \in Callers, f \in Families, at \in {"upsert", "list"} :
          Begin(p, "teach", at, s, f, FALSE, 0)
    BY <1>5 DEF BeginTeach
  <2>2. f \in Families \cup {NoFamily} /\ "teach" \in Commands /\ at \in Places
    BY <1>0
  <2>3. inv'[p] \in Invocations /\ inv'[p].at = at /\ inv'[p].family = f
    BY <1>2, <2>2, <2>1, BeginEffect
  <2>4. QED
    BY <2>1, <2>3 DEF Good
<1>6. CASE BeginConfirm(p)
  <2>1. PICK s \in Callers, id \in Ids : Begin(p, "confirm", "get", s, NoFamily, TRUE, id)
    BY <1>6 DEF BeginConfirm
  <2>2. inv'[p] \in Invocations /\ inv'[p].at = "get"
    BY <1>1, <1>2, <1>0, <2>1, BeginEffect
  <2>3. QED
    BY <2>1, <2>2 DEF Good
<1>7. CASE BeginReject(p)
  <2>1. PICK s \in Callers, id \in Ids : Begin(p, "reject", "reject", s, NoFamily, FALSE, id)
    BY <1>7 DEF BeginReject
  <2>2. inv'[p] \in Invocations /\ inv'[p].at = "reject"
    BY <1>1, <1>2, <1>0, <2>1, BeginEffect
  <2>3. QED
    BY <2>1, <2>2 DEF Good
<1>8. CASE BeginPurge(p)
  <2>1. PICK s \in Callers, tombstones \in BOOLEAN :
          Begin(p, "purge", "expire", s, NoFamily, tombstones, 0)
    BY <1>8 DEF BeginPurge
  <2>2. inv'[p] \in Invocations /\ inv'[p].at = "expire"
    BY <1>2, <1>0, <2>1, BeginEffect
  <2>3. QED
    BY <2>1, <2>2 DEF Good
<1>9. CASE BeginWrite(p)
  <2>1. PICK s \in Callers, f \in Families, command \in {"amend", "teach-playbook"} :
          Begin(p, command, "upsert", s, f, FALSE, 0)
    BY <1>9 DEF BeginWrite
  <2>2. f \in Families \cup {NoFamily} /\ command \in Commands /\ "upsert" \in Places
    BY <1>0
  <2>3. inv'[p] \in Invocations /\ inv'[p].at = "upsert" /\ inv'[p].family = f
    BY <1>2, <2>2, <2>1, BeginEffect
  <2>4. QED
    BY <2>1, <2>3 DEF Good
<1>10. QED
  BY <1>3, <1>4, <1>5, <1>6, <1>7, <1>8, <1>9 DEF Begins

\* What is read out of the journal is of the right type.
LEMMA KeptLines ==
  ASSUME JournalTypeOK
  PROVE  /\ Kept \in SUBSET Nat /\ IsFiniteSet(Kept) /\ Kept \in SUBSET (1..Len(lines))
         /\ \A i \in Kept : lines[i] \in Lines
<1>1. Len(lines) \in Nat /\ Kept \in SUBSET (1..Len(lines))
  BY DEF JournalTypeOK, Kept
<1>2. IsFiniteSet(Kept)
  <2>1. IsFiniteSet(1..Len(lines))
    BY <1>1, FS_Interval
  <2>2. QED
    BY <1>1, <2>1, FS_Subset
<1>3. QED
  BY <1>1, <1>2 DEF JournalTypeOK

LEMMA FamilyOfTyped ==
  ASSUME JournalTypeOK, NEW S \in SUBSET Kept
  PROVE  FamilyOf(S) \in Families \cup {NoFamily}
<1>1. CASE S = {}
  BY <1>1 DEF FamilyOf
<1>2. CASE S # {}
  <2>1. S \in SUBSET (1..Len(lines))
    BY KeptLines
  <2>2. Latest(S) \in Kept
    BY <1>2, <2>1, LatestIsIn
  <2>3. lines[Latest(S)].family \in Families \cup {NoFamily}
    BY <2>2, KeptLines DEF Lines
  <2>4. QED
    BY <1>2, <2>3 DEF FamilyOf
<1>3. QED
  BY <1>1, <1>2

LEMMA AnchorTyped ==
  ASSUME JournalTypeOK, StoreOK, NEW id \in Ids, NEW session
  PROVE  Anchor(id, session) \in Families \cup {NoFamily}
<1>1. LastFamily(session) \in Families \cup {NoFamily}
  BY FamilyOfTyped DEF LastFamily, Recalls
<1>2. candidates[id].family \in Families \cup {NoFamily}
  BY DEF StoreOK, StoreTypeOK, Ids, Candidates
<1>3. QED
  BY <1>1, <1>2 DEF Anchor

LEMMA EpisodePayloadTyped ==
  ASSUME JournalTypeOK, NEW f, NEW session
  PROVE  EpisodePayload(f, session) \in Payloads
<1> DEFINE G == {i \in Episode(f, session) : lines[i].kind = "good"}
<1>1. G \in SUBSET Kept
  BY DEF Episode
<1>2. Cardinality(G) \in Nat
  BY <1>1, KeptLines, FS_Subset, FS_CardinalityType
<1>3. QED
  BY <1>2 DEF EpisodePayload, Payloads

\* Confirming: one open row becomes confirmed, its family's playbook may grow,
\* and one candidate is materialised once more.
LEMMA ConfirmTyped ==
  ASSUME StoreOK, NEW id, NEW created, NEW f \in Families, NEW payload \in Payloads,
         \/ ConfirmCandidate(id)
         \/ ConfirmCandidateWithPlaybook(id, created, f, payload)
         \/ ConfirmCandidateWithPlaybookNote(id, created, f)
  PROVE  /\ StoreOK' /\ Follow /\ Ids' = Ids /\ UNCHANGED given
         /\ id \in Ids /\ candidates[id].status = "open" /\ candidates'[id].status = "confirmed"
         /\ \A other \in Ids \ {id} : candidates'[other] = candidates[other]
         /\ \/ UNCHANGED playbooks
            \/ PlaybooksGrow(f)
<1>1. OpenForConfirm(id) /\ MarkConfirmed(id) /\ UNCHANGED given
  BY DEF ConfirmCandidate, ConfirmCandidateWithPlaybook, ConfirmCandidateWithPlaybookNote
<1>2. id \in Ids /\ candidates[id].status = "open"
  BY <1>1 DEF OpenForConfirm
<1>3. "confirmed" \in Statuses /\ candidates' = [candidates EXCEPT ![id].status = "confirmed"]
  BY <1>1 DEF Statuses, MarkConfirmed
<1>4. /\ Follow /\ Ids' = Ids /\ candidates'[id].status = "confirmed"
      /\ \A other \in Ids \ {id} : candidates'[other] = candidates[other]
  BY <1>2, <1>3, SetStatus
<1>5. UNCHANGED playbooks \/ PlaybooksGrow(f)
  BY UpsertEffect, AppendNoteEffect
     DEF ConfirmCandidate, ConfirmCandidateWithPlaybook, ConfirmCandidateWithPlaybookNote
<1>6. UNCHANGED blessed \/ blessed' = [blessed EXCEPT ![created] = @ + 1]
  BY DEF ConfirmCandidate, ConfirmCandidateWithPlaybook, ConfirmCandidateWithPlaybookNote
<1>7. blessed' \in Seq(Nat)
  <2>1. blessed \in [1..Len(blessed) -> Nat] /\ Len(blessed) \in Nat
    BY DEF StoreOK, StoreTypeOK
  <2>2. blessed' \in [1..Len(blessed) -> Nat]
    BY <1>6, <2>1
  <2>3. QED
    BY <2>1, <2>2, IsASeq
<1>8. StoreOK'
  <2>1. IsFiniteSet(Ids')
    BY <1>4 DEF StoreOK
  <2>2. Ids' \in SUBSET (Nat \ {0}) /\ \A x \in Ids' : candidates'[x] \in Candidates
    BY <1>4 DEF Follow, StoreOK, StoreTypeOK, Ids
  <2>3. DOMAIN playbooks' \in SUBSET Families /\ \A g \in DOMAIN playbooks' : playbooks'[g] \in Playbooks
    BY <1>5 DEF PlaybooksGrow, StoreOK, StoreTypeOK
  <2>4. QED
    BY <1>1, <1>7, <2>1, <2>2, <2>3 DEF StoreOK, StoreTypeOK, Ids
<1>9. QED
  BY <1>1, <1>2, <1>4, <1>5, <1>8

\* What confirm knows of the row it has read.
PickUp(i, at, f, created, payload) ==
  [i EXCEPT !.at = at, !.family = f, !.created = created, !.payload = payload]

LEMMA PickedUp ==
  ASSUME NEW i \in Invocations, NEW at \in Places, NEW f \in Families \cup {NoFamily},
         NEW created \in Nat, NEW payload \in Payloads
  PROVE  /\ PickUp(i, at, f, created, payload) \in Invocations
         /\ PickUp(i, at, f, created, payload).at = at
         /\ PickUp(i, at, f, created, payload).family = f
         /\ PickUp(i, at, f, created, payload).id = i.id
         /\ PickUp(i, at, f, created, payload).created = created
         /\ PickUp(i, at, f, created, payload).flag = i.flag
         /\ PickUp(i, at, f, created, payload).command = i.command
BY DEF Invocations, PickUp

LEMMA PickedFlag ==
  ASSUME NEW i \in Invocations, i.flag, NEW at, NEW f, NEW created, NEW payload
  PROVE  PickUp(i, at, f, created, payload).flag
BY DEF Invocations, PickUp

Unshared == UNCHANGED <<journalVars, begun, crashes, replayed>>

\* Every statement of a command keeps the types.
LEMMA WorksTyped ==
  ASSUME Typed, NEW p \in Slots, Works(p)
  PROVE  StoreOK' /\ Good(inv'[p], Len(lines)) /\ Unshared
<1> USE DEF Statement, At
<1> DEFINE i == inv[p]
<1>1. SlotsOK /\ StoreOK /\ JournalTypeOK
  BY DEF Typed
<1>2. i.at # "idle"
  BY DEF Works, WritePlaybook, ListPromotable, LookForPlaybook, GetCandidate, Confirm,
         ConfirmNote, Reject, Expire, Purge, Gate, ReadEpisode, Synthesize, Refresh
<1>3. Unshared
  BY DEF Unshared, Works, WritePlaybook, ListPromotable, LookForPlaybook, GetCandidate, Confirm,
         ConfirmNote, Reject, Expire, Purge, Gate, ReadEpisode, Synthesize, Refresh
<1>4. i \in Invocations /\ Good(i, Len(lines))
  BY <1>1, <1>2, AtStatement
<1>5. /\ i.session \in Sessions /\ i.payload \in Payloads /\ i.flag \in BOOLEAN
      /\ i.id \in Nat /\ i.created \in Nat
  BY <1>4 DEF Invocations
<1>6. i.at \in {"upsert", "list", "look", "confirm", "note", "gate", "episode", "synthesize",
                "refresh"} => i.family \in Families
  BY <1>4 DEF Good, Idle
<1>7. {"list", "gate", "confirm", "episode", "purge"} \in SUBSET Places
  BY DEF Places
<1>8. ASSUME UNCHANGED storeVars PROVE StoreOK'
  BY <1>1, <1>8 DEF storeVars, StoreOK, StoreTypeOK, Ids
<1>9. \A f \in Families : f \in Signatures /\ f \in Families \cup {NoFamily}
  BY DEF Signatures
<1>10. CASE WritePlaybook(p)
  <2>1. Choreography \in Payloads /\ NotesOnly \in Payloads /\ i.family \in Families
    BY <1>6, <1>10 DEF WritePlaybook, Choreography, NotesOnly, Payloads
  <2>2. PlaybooksGrow(i.family) /\ UNCHANGED <<candidates, given, blessed>>
    BY <1>1, <1>10, <2>1, UpsertEffect, AppendNoteEffect
       DEF WritePlaybook, AppendPlaybookNotes, UpsertPlaybook
  <2>3. StoreOK'
    BY <1>1, <2>1, <2>2 DEF PlaybooksGrow, StoreOK, StoreTypeOK, Ids
  <2>4. Good(inv'[p], Len(lines))
    BY <1>1, <1>2, <1>7, <1>10, <2>1, GoGood, FinishGood DEF WritePlaybook
  <2>5. QED
    BY <1>3, <2>3, <2>4
<1>11. CASE LookForPlaybook(p)
  <2>1. /\ inv'[p] = [i EXCEPT !.at = "confirm", !.flag = ~HasPlaybook(i.family)]
        /\ i.family \in Families /\ UNCHANGED storeVars
    BY <1>1, <1>6, <1>11 DEF LookForPlaybook, SlotsOK
  <2>2. inv'[p] \in Invocations /\ inv'[p].at = "confirm" /\ inv'[p].family = i.family
    BY <1>4, <2>1 DEF Invocations, Places, HasPlaybook
  <2>3. QED
    BY <1>3, <1>8, <2>1, <2>2 DEF Good
<1>12. CASE ListPromotable(p)
  <2>1. i.family \in Families /\ UNCHANGED storeVars
    BY <1>6, <1>12 DEF ListPromotable
  <2>2. CASE Go(p, "gate")
    BY <1>1, <1>2, <1>3, <1>7, <1>8, <2>1, <2>2, GoGood
  <2>3. ASSUME NEW id \in Ids,
               inv' = [inv EXCEPT ![p].at = "look", ![p].id = id,
                                  ![p].created = candidates[id].created,
                                  ![p].payload = candidates[id].payload]
        PROVE  Good(inv'[p], Len(lines))
    <3>1. /\ candidates[id].created \in Nat /\ candidates[id].payload \in Payloads /\ id \in Nat
      BY <1>1 DEF StoreOK, StoreTypeOK, Ids, Candidates
    <3>2. inv'[p] = [i EXCEPT !.at = "look", !.id = id, !.created = candidates[id].created,
                              !.payload = candidates[id].payload]
      BY <1>1, <2>3 DEF SlotsOK
    <3>3. inv'[p] \in Invocations /\ inv'[p].at = "look" /\ inv'[p].family = i.family
      BY <1>4, <3>1, <3>2 DEF Invocations, Places
    <3>4. QED
      BY <2>1, <3>3 DEF Good
  <2>4. QED
    BY <1>3, <1>8, <1>12, <2>1, <2>2, <2>3 DEF ListPromotable
<1>13. CASE GetCandidate(p)
  <2>1. UNCHANGED storeVars
    BY <1>13 DEF GetCandidate
  <2>2. CASE Finish(p)
    BY <1>1, <1>2, <1>3, <1>8, <2>1, <2>2, FinishGood
  <2>3. ASSUME Confirmable(i.id, i.session), NEW at \in {"note", "confirm"},
               inv' = [inv EXCEPT ![p].at = at,
                                  ![p].family = Anchor(i.id, i.session),
                                  ![p].created = candidates[i.id].created,
                                  ![p].payload = candidates[i.id].payload]
        PROVE  Good(inv'[p], Len(lines))
    <3>1. /\ candidates[i.id].created \in Nat /\ candidates[i.id].payload \in Payloads
          /\ i.id \in Ids
      BY <1>1, <2>3 DEF StoreOK, StoreTypeOK, Ids, Candidates, Confirmable
    <3>2. Anchor(i.id, i.session) \in Families
      BY <1>1, <2>3, <3>1, AnchorTyped DEF Confirmable
    <3>3. inv'[p] = PickUp(i, at, Anchor(i.id, i.session), candidates[i.id].created,
                           candidates[i.id].payload)
      BY <1>1, <2>3 DEF SlotsOK, PickUp
    <3>4. at \in Places /\ Anchor(i.id, i.session) \in Families \cup {NoFamily}
      BY <2>3, <3>2 DEF Places
    <3>5. /\ inv'[p] \in Invocations /\ inv'[p].at = at
          /\ inv'[p].family = Anchor(i.id, i.session)
      BY <1>4, <3>1, <3>3, <3>4, PickedUp, SMTT(30)
    <3>6. QED
      BY <2>3, <3>2, <3>5 DEF Good
  <2>4. QED
    BY <1>3, <1>8, <1>13, <2>1, <2>2, <2>3 DEF GetCandidate
<1>14. CASE Confirm(p) \/ ConfirmNote(p)
  <2>1. i.family \in Families
    BY <1>6, <1>14 DEF Confirm, ConfirmNote
  <2>2. \/ UNCHANGED storeVars
        \/ ConfirmCandidate(i.id)
        \/ ConfirmCandidateWithPlaybook(i.id, i.created, i.family, i.payload)
        \/ ConfirmCandidateWithPlaybookNote(i.id, i.created, i.family)
    BY <1>14 DEF Confirm, ConfirmNote
  <2>3. StoreOK'
    BY <1>1, <1>5, <1>8, <2>1, <2>2, ConfirmTyped
  <2>4. Good(inv'[p], Len(lines))
    BY <1>1, <1>2, <1>7, <1>14, <2>1, GoGood, FinishGood DEF Confirm, ConfirmNote, AfterConfirm
  <2>5. QED
    BY <1>3, <2>3, <2>4
<1>15. CASE Reject(p)
  <2>1. ASSUME RejectCandidate(i.id) PROVE StoreOK'
    <3>1. /\ i.id \in Ids /\ candidates' = [candidates EXCEPT ![i.id].status = "rejected"]
          /\ "rejected" \in Statuses /\ UNCHANGED <<playbooks, given, blessed>>
      BY <2>1 DEF RejectCandidate, CanReject, Statuses
    <3>2. QED
      BY <1>1, <3>1, SetStatus, FollowTyped
  <2>2. Good(inv'[p], Len(lines))
    BY <1>1, <1>2, <1>15, FinishGood DEF Reject
  <2>3. QED
    BY <1>3, <1>8, <1>15, <2>1, <2>2 DEF Reject
<1>16. CASE Expire(p) \/ Purge(p) \/ Refresh(p)
  <2>1. StoreOK'
    BY <1>1, <1>5, <1>16, SweepEffect, PurgeEffect, RefreshEffect, FollowTyped
       DEF Expire, Purge, Refresh
  <2>2. Good(inv'[p], Len(lines))
    BY <1>1, <1>2, <1>7, <1>16, GoGood, FinishGood DEF Expire, Purge, Refresh
  <2>3. QED
    BY <1>3, <2>1, <2>2
<1>17. CASE Gate(p)
  <2>1. i.family \in Families /\ UNCHANGED storeVars
    BY <1>6, <1>17 DEF Gate
  <2>2. Good(inv'[p], Len(lines))
    BY <1>1, <1>2, <1>7, <1>17, <2>1, GoGood, FinishGood DEF Gate
  <2>3. QED
    BY <1>3, <1>8, <2>1, <2>2
<1>18. CASE ReadEpisode(p)
  <2>1. i.family \in Families /\ UNCHANGED storeVars
    BY <1>6, <1>18 DEF ReadEpisode
  <2>2. CASE Finish(p)
    BY <1>1, <1>2, <1>3, <1>8, <2>1, <2>2, FinishGood
  <2>3. ASSUME inv' = [inv EXCEPT ![p].at = "synthesize",
                                  ![p].payload = EpisodePayload(i.family, i.session)]
        PROVE  Good(inv'[p], Len(lines))
    <3>1. EpisodePayload(i.family, i.session) \in Payloads
      BY <1>1, EpisodePayloadTyped
    <3>2. inv'[p] = [i EXCEPT !.at = "synthesize", !.payload = EpisodePayload(i.family, i.session)]
      BY <1>1, <2>3 DEF SlotsOK
    <3>3. inv'[p] \in Invocations /\ inv'[p].at = "synthesize" /\ inv'[p].family = i.family
      BY <1>4, <3>1, <3>2 DEF Invocations, Places
    <3>4. QED
      BY <2>1, <3>3 DEF Good
  <2>4. QED
    BY <1>3, <1>8, <1>18, <2>1, <2>2, <2>3 DEF ReadEpisode
<1>19. CASE Synthesize(p)
  <2>1. /\ i.family \in Families /\ DeriveCandidate(i.family, i.family, i.payload)
    BY <1>6, <1>19 DEF Synthesize
  <2>2. StoreOK'
    BY <1>1, <1>5, <1>9, <2>1, DeriveTyped
  <2>3. CASE Finish(p)
    BY <1>1, <1>2, <1>3, <2>2, <2>3, FinishGood
  <2>4. ASSUME Has(i.family), inv' = [inv EXCEPT ![p].at = "refresh", ![p].id = IdOf(i.family)]
        PROVE  Good(inv'[p], Len(lines))
    <3>1. IdOf(i.family) \in Nat
      BY <1>1, <2>4, RowOfSignature
    <3>2. inv'[p] = [i EXCEPT !.at = "refresh", !.id = IdOf(i.family)]
      BY <1>1, <2>4 DEF SlotsOK
    <3>3. inv'[p] \in Invocations /\ inv'[p].at = "refresh" /\ inv'[p].family = i.family
      BY <1>4, <3>1, <3>2 DEF Invocations, Places
    <3>4. QED
      BY <2>1, <3>3 DEF Good
  <2>5. QED
    BY <1>3, <1>19, <2>2, <2>3, <2>4 DEF Synthesize
<1>20. QED
  BY <1>10, <1>11, <1>12, <1>13, <1>14, <1>15, <1>16, <1>17, <1>18, <1>19 DEF Works

\* Writing the journal entry keeps the types; it adds at most a line.
LEMMA JournalsTyped ==
  ASSUME Typed, NEW p \in Slots, Journals(p)
  PROVE  /\ Appends /\ TornOK' /\ UNCHANGED <<storeVars, begun, replayed>>
         /\ Good(inv'[p], Len(lines)) /\ crashes' \in 0..MaxCrashes
         /\ inv'[p] = Idle \/ inv'[p].at \in {"write", "load"}
<1> USE DEF At
<1> DEFINE i == inv[p]
<1>1. SlotsOK /\ JournalTypeOK /\ crashes \in 0..MaxCrashes /\ clock.day \in Nat
  BY DEF Typed, JournalTypeOK, Clocks
<1>2. i.at \in {"repair", "write"}
  BY DEF Journals, Repair, WriteEntry, CutEntryShort
<1>3. i \in Invocations /\ i.command \in {"fail", "good", "recall", "other"}
  BY <1>1, <1>2, AtStatement DEF Good, Idle
<1>4. i.session \in Sessions /\ i.family \in Families \cup {NoFamily} /\ i.segment \in Nat
  BY <1>3 DEF Invocations
<1>5. {"write", "load"} \in SUBSET Places /\ i.command \in Kinds
  BY <1>3 DEF Places, Kinds
<1>6. ASSUME AfterJournal(p)
      PROVE  /\ Good(inv'[p], Len(lines))
             /\ inv'[p] = Idle \/ inv'[p].at \in {"write", "load"}
  <2>1. CASE Go(p, "load")
    <3>1. Good(inv'[p], Len(lines))
      BY <1>1, <1>2, <1>5, <2>1, GoGood
    <3>2. inv'[p].at = "load"
      BY <1>1, <1>3, <2>1 DEF Go, SlotsOK, Invocations
    <3>3. QED
      BY <3>1, <3>2
  <2>2. CASE Leave(p)
    BY <1>1, <2>2, LeaveGood
  <2>3. QED
    BY <1>6, <2>1, <2>2 DEF AfterJournal
<1>7. CASE Repair(p)
  <2>1. Appends /\ TornOK'
    BY <1>1, <1>4, <1>7, RepairAppends DEF Repair
  <2>2. Good(inv'[p], Len(lines)) /\ inv'[p].at = "write"
    <3>1. inv'[p] = [i EXCEPT !.at = "write", !.segment = clock.day]
      BY <1>1, <1>7 DEF Repair, SlotsOK
    <3>2. inv'[p] \in Invocations /\ inv'[p].at = "write" /\ inv'[p].command = i.command
      BY <1>1, <1>3, <1>5, <3>1 DEF Invocations
    <3>3. QED
      BY <1>3, <3>2 DEF Good
  <2>3. UNCHANGED <<storeVars, begun, crashes, replayed>>
    BY <1>7 DEF Repair
  <2>4. QED
    BY <1>1, <2>1, <2>2, <2>3
<1>8. CASE WriteEntry(p)
  <2>1. Appends /\ TornOK'
    BY <1>1, <1>4, <1>5, <1>8, EntryAppends DEF WriteEntry
  <2>2. UNCHANGED <<storeVars, begun, crashes, replayed>> /\ AfterJournal(p)
    BY <1>8 DEF WriteEntry
  <2>3. QED
    BY <1>1, <1>6, <2>1, <2>2
<1>9. CASE CutEntryShort(p)
  <2>1. TornOK' /\ UNCHANGED <<lines, gone, offset, clock, observed>>
    BY <1>1, <1>4, <1>9, FS_AddElement DEF CutEntryShort, TearEntry, JournalTypeOK, TornOK
  <2>2. Appends
    BY <1>1, <2>1 DEF Appends, JournalTypeOK
  <2>3. UNCHANGED <<storeVars, begun, replayed>> /\ AfterJournal(p) /\ crashes' \in 0..MaxCrashes
    BY <1>1, <1>9, BoundsAssumption DEF CutEntryShort
  <2>4. QED
    BY <1>6, <2>1, <2>2, <2>3
<1>10. QED
  BY <1>7, <1>8, <1>9 DEF Journals

\* The pair recorded next is one of the batch.
LEMMA NextPairIsFirst ==
  ASSUME JournalTypeOK, NEW p, inv[p].todo \in SUBSET Observations, inv[p].todo # {},
         \A t \in inv[p].todo : t.line <= Len(lines)
  PROVE  NextPair(p) \in inv[p].todo /\ NextPair(p) \in Observations
<1> DEFINE S == {t.line : t \in inv[p].todo}
<1>1. S \in SUBSET (1..Len(lines)) /\ S # {}
  BY DaysAreNumbers DEF Observations
<1>2. \E n \in S : \A m \in S : ~Before(m, n)
  <2> HIDE DEF S
  <2>1. QED
    BY <1>1, HasEarliest DEF JournalTypeOK, Before, Sooner
<1>3. \E t \in inv[p].todo : \A u \in inv[p].todo : ~Before(u.line, t.line)
  BY <1>2
<1>4. QED
  BY <1>3 DEF NextPair

\* The statements of a derivation pass keep the types.
LEMMA DerivesTyped ==
  ASSUME Typed, NEW p \in Slots, DerivesPairs(p)
  PROVE  /\ JournalTypeOK' /\ StoreOK' /\ Good(inv'[p], Len(lines))
         /\ UNCHANGED <<lines, torn, gone, clock, begun, crashes>> /\ replayed' \in BOOLEAN
<1> USE DEF At
<1> DEFINE i == inv[p]
<1>1. SlotsOK /\ StoreOK /\ JournalTypeOK /\ replayed \in BOOLEAN
  BY DEF Typed
<1>2. i.at \in {"load", "read", "observe", "store"}
  BY DEF DerivesPairs, LoadOffset, ReadTail, Observe, StoreOffset
<1>3. i \in Invocations /\ Good(i, Len(lines))
  BY <1>1, <1>2, AtStatement
<1>4. i.todo \in SUBSET Observations /\ i.next \in Cursors
  BY <1>3 DEF Invocations
<1>5. Len(lines) \in Nat /\ offset \in Cursors /\ offset.upto <= Len(lines)
  BY <1>1 DEF JournalTypeOK
<1>6. {"read", "observe", "store"} \in SUBSET Places
  BY DEF Places
<1>7. ASSUME UNCHANGED <<journalVars, storeVars>> PROVE JournalTypeOK' /\ StoreOK'
  BY <1>1, <1>7 DEF journalVars, storeVars, JournalTypeOK, StoreOK, StoreTypeOK, Ids
<1>8. CASE LoadOffset(p)
  <2>1. inv'[p] = [i EXCEPT !.at = "read", !.next = offset]
    BY <1>1, <1>8 DEF LoadOffset, SlotsOK
  <2>2. inv'[p] \in Invocations /\ inv'[p].at = "read" /\ inv'[p].next = offset
    <3>1. offset \in Cursors /\ "read" \in Places
      BY <1>5, <1>6
    <3>2. QED
      BY <1>3, <2>1, <3>1 DEF Invocations
  <2>3. Good(inv'[p], Len(lines))
    BY <1>5, <2>2 DEF Good
  <2>4. replayed' \in BOOLEAN
    BY <1>1, <1>8 DEF LoadOffset
  <2>5. QED
    BY <1>7, <1>8, <2>3, <2>4 DEF LoadOffset, journalVars
<1>9. CASE ReadTail(p)
  <2>1. CASE Leave(p)
    BY <1>1, <1>7, <1>9, <2>1, LeaveGood DEF ReadTail, journalVars
  <2>2. CASE ~Leave(p)
    <3> DEFINE todo == {[line |-> j, family |-> FamilyBefore(j)] : j \in Pairs(i.next)}
               at == IF Pairs(i.next) = {} THEN "store" ELSE "observe"
    <3>1. inv'[p] = [i EXCEPT !.at = at, !.todo = todo, !.next = End(i.next)]
          /\ End(i.next) # i.next
      BY <1>1, <1>9, <2>2 DEF ReadTail, SlotsOK
    <3>0. End(i.next) \in Cursors /\ End(i.next).upto <= Len(lines)
      BY <1>1, <1>4, <3>1, EndIsCursor
    <3>2. \A j \in Pairs(i.next) : j \in 1..Len(lines) /\ FamilyBefore(j) \in Families \cup {NoFamily}
      <4>1. Pairs(i.next) \in SUBSET Kept
        BY DEF Pairs, Failures
      <4>2. Kept \in SUBSET (1..Len(lines))
        BY <1>1, KeptLines
      <4>3. \A j : FamilyBefore(j) \in Families \cup {NoFamily}
        BY <1>1, FamilyOfTyped DEF FamilyBefore, Recalls
      <4>4. QED
        BY <4>1, <4>2, <4>3
    <3>3. todo \in SUBSET Observations /\ at \in {"store", "observe"}
          /\ (at = "observe" => todo # {}) /\ \A t \in todo : t.line <= Len(lines)
      <4>1. \A j \in Pairs(i.next) :
              /\ [line |-> j, family |-> FamilyBefore(j)] \in Observations
              /\ [line |-> j, family |-> FamilyBefore(j)].line <= Len(lines)
        BY <1>5, <3>2 DEF Observations
      <4>2. /\ todo \in SUBSET Observations /\ (Pairs(i.next) # {} => todo # {})
            /\ \A t \in todo : t.line <= Len(lines)
        BY <4>1
      <4>3. QED
        BY <4>2
    <3> HIDE DEF todo, at
    <3>4. at \in Places
      BY <1>6, <3>3
    <3>5. inv'[p] \in Invocations /\ inv'[p].at = at /\ inv'[p].todo = todo
          /\ inv'[p].next = End(i.next)
      BY <1>3, <3>0, <3>1, <3>3, <3>4 DEF Invocations
    <3>6. Good(inv'[p], Len(lines))
      BY <3>0, <3>3, <3>5 DEF Good
    <3>7. QED
      BY <1>1, <1>7, <1>9, <3>6 DEF ReadTail, journalVars
  <2>3. QED
    BY <2>1, <2>2
<1>10. CASE Observe(p)
  <2> DEFINE pair == NextPair(p)
  <2>1. i.todo # {} /\ i.next.upto <= Len(lines) /\ \A t \in i.todo : t.line <= Len(lines)
    BY <1>3, <1>10 DEF Observe, Good, Idle
  <2>2. pair \in i.todo /\ pair.line \in Nat /\ pair.family \in Families \cup {NoFamily}
    BY <1>1, <1>4, <2>1, NextPairIsFirst DEF Observations
  <2>3. StoreOK'
    <3>1. Alias \in Signatures /\ NoPayload \in Payloads
      BY DEF Signatures, NoPayload, Payloads
    <3>2. QED
      BY <1>1, <1>10, <2>2, <3>1, DeriveTyped DEF Observe
  <2>4. JournalTypeOK'
    <3>1. observed' = [observed EXCEPT ![pair.line] = @ + 1]
          /\ UNCHANGED <<lines, torn, gone, offset, clock>>
      BY <1>10 DEF Observe
    <3> HIDE DEF pair
    <3>2. observed \in [1..Len(lines) -> Nat]
      BY <1>1 DEF JournalTypeOK
    <3>3. observed' \in [1..Len(lines) -> Nat]
      <4>1. observed' = [j \in 1..Len(lines) |-> IF j = pair.line THEN observed[j] + 1 ELSE observed[j]]
        BY <3>1, <3>2
      <4>2. QED
        BY <3>2, <4>1
    <3>4. QED
      BY <1>1, <3>1, <3>3 DEF JournalTypeOK
  <2>5. Good(inv'[p], Len(lines))
    <3> DEFINE at == IF i.todo = {pair} THEN "store" ELSE "observe"
    <3>1. inv'[p] = [i EXCEPT !.at = at, !.todo = i.todo \ {pair}]
      BY <1>1, <1>10 DEF Observe, SlotsOK
    <3>2. /\ at \in {"store", "observe"} /\ (at = "observe" => i.todo \ {pair} # {})
          /\ i.todo \ {pair} \in SUBSET Observations
      BY <1>4, <2>2
    <3> HIDE DEF at, pair
    <3>3. at \in Places
      BY <1>6, <3>2
    <3>4. inv'[p] \in Invocations /\ inv'[p].at = at /\ inv'[p].todo = i.todo \ {pair}
          /\ inv'[p].next = i.next
      BY <1>3, <3>1, <3>2, <3>3 DEF Invocations
    <3>5. QED
      BY <2>1, <3>2, <3>4 DEF Good
  <2>6. QED
    BY <1>1, <1>10, <2>3, <2>4, <2>5 DEF Observe
<1>11. CASE StoreOffset(p)
  <2>1. i.next \in Cursors /\ i.next.upto <= Len(lines)
    BY <1>3, <1>4, <1>11 DEF StoreOffset, Good, Idle
  <2>2. offset' = i.next /\ UNCHANGED <<lines, torn, gone, clock, observed, storeVars, begun,
                                         crashes, replayed>> /\ Leave(p)
    BY <1>11 DEF StoreOffset
  <2>3. JournalTypeOK' /\ StoreOK'
    BY <1>1, <2>1, <2>2 DEF JournalTypeOK, storeVars, StoreOK, StoreTypeOK, Ids
  <2>4. QED
    BY <1>1, <2>2, <2>3, LeaveGood
<1>12. QED
  BY <1>8, <1>9, <1>10, <1>11 DEF DerivesPairs
---------------------------------------------------------------------------
(* Type correctness.                                                        *)

\* What earlier invocations left is of the right types.
LEMMA TypeInit == Init => Typed
<1> SUFFICES ASSUME Init PROVE Typed
  OBVIOUS
<1> PICK h \in Histories :
      /\ lines = h.lines /\ torn = {} /\ gone = {}
      /\ offset = [segment |-> 0, upto |-> h.offset]
      /\ clock = [day |-> 0, era |-> 0, kept |-> 0]
      /\ observed = h.observed
      /\ candidates = h.candidates /\ playbooks = h.playbooks
      /\ given = h.given /\ blessed = h.blessed
      /\ inv = [p \in Slots |-> Idle]
      /\ begun = 0 /\ crashes = 0 /\ replayed = FALSE
  BY DEF Init
<1>0. Leavable(h)
  BY HistoriesAssumption
<1>1. JournalTypeOK
  <2>1. /\ lines \in Seq(Lines) /\ Len(lines) \in Nat /\ h.offset \in 0..Len(lines)
        /\ observed \in [1..Len(lines) -> {0, 1}]
    BY <1>0 DEF Leavable
  <2>2. observed \in [1..Len(lines) -> Nat]
    BY <2>1
  <2>3. clock \in Clocks /\ clock.kept <= clock.day
    BY DEF Clocks
  <2>4. /\ offset \in Cursors /\ offset.upto <= Len(lines)
        /\ gone \in SUBSET (1..Len(lines)) /\ torn \in SUBSET Nat /\ IsFiniteSet(torn)
    BY <2>1, FS_EmptySet DEF Cursors
  <2>5. QED
    BY <2>1, <2>2, <2>3, <2>4 DEF JournalTypeOK
<1>2. blessed \in Seq(Nat)
  <2>1. given \in Seq(Nat \ {0}) /\ blessed = [c \in DOMAIN given |-> 0]
    BY <1>0 DEF Leavable
  <2>2. blessed = [c \in 1..Len(given) |-> 0] /\ Len(given) \in Nat
    BY <2>1
  <2>3. QED
    BY <2>2, IsASeq
<1>3. StoreOK
  BY <1>0, <1>2 DEF Leavable, StoreOK, StoreTypeOK, Ids
<1>4. SlotsOK
  BY DEF SlotsOK, Good
<1>5. begun \in 0..MaxCommands /\ crashes \in 0..MaxCrashes /\ replayed \in BOOLEAN
  <2>1. 0 \in 0..MaxCommands /\ 0 \in 0..MaxCrashes
    BY BoundsAssumption
  <2>2. QED
    BY <2>1
<1>6. QED
  BY <1>1, <1>3, <1>4, <1>5 DEF Typed

\* An action of slot p that leaves the slot good leaves all of them good.
LEMMA SlotsStep ==
  ASSUME Typed, NEW p \in Slots, OneSlot(p), Good(inv'[p], Len(lines)),
         Len(lines) <= Len(lines'), Len(lines') \in Nat
  PROVE  SlotsOK'
<1>1. Len(lines) \in Nat
  BY DEF Typed, JournalTypeOK
<1>2. \A q \in Slots : Good(inv'[q], Len(lines))
  BY DEF OneSlot, Typed, SlotsOK
<1>3. \A q \in Slots : Good(inv'[q], Len(lines'))
  BY <1>1, <1>2, GoodGrows
<1>4. QED
  BY <1>3 DEF OneSlot, SlotsOK

\* Every step keeps the types.
LEMMA TypeStep ==
  ASSUME Typed, [Next]_vars
  PROVE  Typed'
<1>1. JournalTypeOK /\ StoreOK /\ SlotsOK /\ Len(lines) \in Nat
  BY DEF Typed, JournalTypeOK
<1>2. CASE UNCHANGED vars
  BY <1>2 DEF Typed, vars, journalVars, storeVars, JournalTypeOK, StoreOK, StoreTypeOK, Ids, SlotsOK
<1>3. CASE Tick
  <2>1. UNCHANGED <<inv, begun, crashes, replayed>>
    BY <1>3 DEF Tick
  <2>2. JournalTypeOK' /\ UNCHANGED lines
    <3>1. UNCHANGED <<lines, gone, offset, observed, torn>>
      BY <1>1, <1>3 DEF Tick, LapseWindow, Midnight, MonthPasses, JournalTypeOK
    <3>2. clock \in Clocks /\ clock.kept <= clock.day
      BY <1>1 DEF JournalTypeOK
    <3>3. clock' \in Clocks /\ clock'.kept <= clock'.day
      <4>1. CASE LapseWindow
        BY <3>2, <4>1 DEF LapseWindow, Clocks
      <4>2. CASE Midnight
        BY <3>2, <4>2 DEF Midnight, Clocks
      <4>3. CASE MonthPasses
        BY <3>2, <4>3 DEF MonthPasses, Clocks
      <4>4. QED
        BY <1>3, <4>1, <4>2, <4>3 DEF Tick
    <3>4. QED
      BY <1>1, <3>1, <3>3 DEF JournalTypeOK
  <2>3. CASE UNCHANGED storeVars
    BY <1>1, <2>1, <2>2, <2>3 DEF Typed, SlotsOK, storeVars, StoreOK, StoreTypeOK, Ids
  <2>4. CASE MonthUnseen
    <3>1. StoreOK'
      BY <1>1, <2>4, SweepEffect, FollowTyped
    <3>2. QED
      BY <1>1, <2>1, <2>2, <3>1 DEF Typed, SlotsOK
  <2>5. QED
    BY <1>3, <2>3, <2>4 DEF Tick
<1>4. ASSUME NEW p \in Slots,
             Begins(p) \/ Works(p) \/ Journals(p) \/ DerivesPairs(p) \/ Die(p)
      PROVE  Typed'
  <2>1. OneSlot(p)
    BY <1>1, <1>4, OnlyItsSlot
  <2>2. CASE Begins(p)
    <3>1. /\ begun < MaxCommands /\ begun' = begun + 1
          /\ UNCHANGED <<journalVars, storeVars, crashes, replayed>>
      BY <2>2 DEF Begins, BeginCommand, BeginRecall, BeginTeach, BeginConfirm, BeginReject,
                  BeginPurge, BeginWrite, Start
    <3>2. SlotsOK'
      BY <1>1, <2>1, <2>2, <3>1, BeginsGood, SlotsStep DEF journalVars
    <3>3. begun' \in 0..MaxCommands
      BY <3>1, BoundsAssumption DEF Typed
    <3>4. QED
      BY <1>1, <3>1, <3>2, <3>3
         DEF Typed, journalVars, storeVars, JournalTypeOK, StoreOK, StoreTypeOK, Ids
  <2>3. CASE Works(p)
    <3>1. StoreOK' /\ Good(inv'[p], Len(lines)) /\ Unshared
      BY <2>3, WorksTyped
    <3>2. SlotsOK'
      BY <1>1, <2>1, <3>1, SlotsStep DEF Unshared, journalVars
    <3>3. QED
      BY <1>1, <3>1, <3>2 DEF Typed, Unshared, journalVars, JournalTypeOK
  <2>4. CASE Journals(p)
    <3>1. /\ Appends /\ TornOK' /\ UNCHANGED <<storeVars, begun, replayed>>
          /\ Good(inv'[p], Len(lines)) /\ crashes' \in 0..MaxCrashes
      BY <2>4, JournalsTyped
    <3>2. JournalTypeOK' /\ Len(lines') \in Nat /\ Len(lines) <= Len(lines')
      BY <1>1, <3>1, AppendsTyped DEF TornOK
    <3>3. SlotsOK'
      BY <2>1, <3>1, <3>2, SlotsStep
    <3>4. QED
      BY <1>1, <3>1, <3>2, <3>3 DEF Typed, storeVars, StoreOK, StoreTypeOK, Ids
  <2>5. CASE DerivesPairs(p)
    <3>1. /\ JournalTypeOK' /\ StoreOK' /\ Good(inv'[p], Len(lines))
          /\ UNCHANGED <<lines, begun, crashes>> /\ replayed' \in BOOLEAN
      BY <2>5, DerivesTyped
    <3>2. SlotsOK'
      BY <1>1, <2>1, <3>1, SlotsStep
    <3>3. QED
      BY <3>1, <3>2 DEF Typed
  <2>6. CASE Die(p)
    <3>1. /\ crashes < MaxCrashes /\ crashes' = crashes + 1 /\ Leave(p)
          /\ UNCHANGED <<journalVars, storeVars, begun>> /\ replayed' \in BOOLEAN
      BY <2>6 DEF Die, Typed
    <3>2. SlotsOK'
      BY <1>1, <2>1, <3>1, LeaveGood, SlotsStep DEF journalVars
    <3>3. crashes' \in 0..MaxCrashes
      BY <3>1, BoundsAssumption DEF Typed
    <3>4. QED
      BY <1>1, <3>1, <3>2, <3>3
         DEF Typed, journalVars, storeVars, JournalTypeOK, StoreOK, StoreTypeOK, Ids
  <2>7. QED
    BY <1>4, <2>2, <2>3, <2>4, <2>5, <2>6
<1>5. QED
  BY <1>2, <1>3, <1>4 DEF Next

\* The journal, the store and the running invocations have the types TypeOK
\* gives them (journal.go, candidates.go, playbooks.go).
THEOREM TypeCorrect == Spec => []TypeOK
<1>1. Typed => TypeOK
  BY DEF Typed, TypeOK, StoreOK, SlotsOK, Good
<1>2. QED
  BY <1>1, TypeInit, TypeStep, PTL DEF Spec

---------------------------------------------------------------------------
(* Tombstones.                                                              *)

\* No statement touches a rejected row but purge --tombstones.
LEMMA TombstoneStep ==
  ASSUME Typed, [Next]_vars, NEW id \in Ids, candidates[id].status = "rejected"
  PROVE  \/ id \in Ids' /\ candidates'[id] = candidates[id]
         \/ \E p \in Slots : At(p, "purge") /\ inv[p].flag
<1> DEFINE Stands == id \in Ids' /\ candidates'[id] = candidates[id]
<1>1. JournalTypeOK /\ StoreOK /\ SlotsOK
  BY DEF Typed
<1>2. CASE UNCHANGED candidates
  BY <1>2 DEF Ids
<1>3. ASSUME MonthUnseen \/ ExpireCandidates PROVE Stands
  BY <1>1, <1>3, SweepEffect
<1>4. ASSUME NEW sig \in Signatures, NEW family \in Families \cup {NoFamily},
             NEW payload \in Payloads, DeriveCandidate(sig, family, payload)
      PROVE  Stands
  <2>1. CASE Has(sig)
    <3>1. candidates' = Put(IdOf(sig), Sighted(candidates[IdOf(sig)]))
      BY <1>4, <2>1 DEF DeriveCandidate
    <3>2. candidates[IdOf(sig)] \in Candidates /\ IdOf(sig) \in Ids
      BY <1>1, <2>1, RowOfSignature
    <3>3. id = IdOf(sig) => Sighted(candidates[IdOf(sig)]) = candidates[id]
      BY <3>2, SightedIsRow
    <3>4. QED
      BY <3>1, <3>2, <3>3 DEF Put, Ids
  <2>2. CASE ~Has(sig)
    <3>1. candidates' = Put(FreshId, NewRow(sig, family, payload))
      BY <1>4, <2>2 DEF DeriveCandidate, Insert, NewRow
    <3>2. FreshId # id
      BY <1>1, FreshIdIsFree
    <3>3. QED
      BY <3>1, <3>2 DEF Put, Ids
  <2>3. QED
    BY <2>1, <2>2
<1>5. ASSUME NEW p \in Slots, Works(p), ~Purge(p)
      PROVE  Stands
  <2> DEFINE i == inv[p]
  <2>1. CASE UNCHANGED candidates
    BY <2>1, SMTT(30) DEF Ids
  <2>2. i.at # "idle"
    BY <1>5 DEF Works, WritePlaybook, ListPromotable, LookForPlaybook, GetCandidate, Confirm,
                ConfirmNote, Reject, Expire, Purge, Gate, ReadEpisode, Synthesize, Refresh,
                Statement, At
  <2>3. /\ i.payload \in Payloads /\ i.flag \in BOOLEAN
        /\ i.at \in {"confirm", "note", "synthesize"} => i.family \in Families
    BY <1>1, <2>2, AtStatement DEF Good, Idle, Invocations
  <2>4. CASE Confirm(p) \/ ConfirmNote(p)
    <3>1. i.family \in Families
      BY <2>3, <2>4 DEF Confirm, ConfirmNote, Statement, At
    <3>2. \/ UNCHANGED candidates
          \/ ConfirmCandidate(i.id)
          \/ ConfirmCandidateWithPlaybook(i.id, i.created, i.family, i.payload)
          \/ ConfirmCandidateWithPlaybookNote(i.id, i.created, i.family)
      BY <2>4 DEF Confirm, ConfirmNote, storeVars
    <3>3. QED
      BY <1>1, <2>1, <2>3, <3>1, <3>2, ConfirmTyped
  <2>5. CASE Reject(p)
    <3>1. CASE RejectCandidate(i.id)
      <4>1. i.id # id /\ candidates' = [candidates EXCEPT ![i.id].status = "rejected"]
        BY <3>1 DEF RejectCandidate, CanReject
      <4>2. QED
        BY <4>1 DEF Ids
    <3>2. QED
      BY <2>1, <2>5, <3>1 DEF Reject, storeVars
  <2>6. CASE Expire(p)
    BY <1>3, <2>6 DEF Expire
  <2>7. CASE Synthesize(p)
    <3>1. i.family \in Families /\ DeriveCandidate(i.family, i.family, i.payload)
      BY <2>3, <2>7 DEF Synthesize, Statement, At
    <3>2. i.family \in Signatures /\ i.family \in Families \cup {NoFamily}
      BY <3>1 DEF Signatures
    <3>3. QED
      BY <1>4, <2>3, <3>1, <3>2
  <2>8. CASE Refresh(p)
    <3>1. RefreshPayload(i.id, i.payload)
      BY <2>8 DEF Refresh
    <3>2. QED
      BY <1>1, <2>3, <3>1, RefreshEffect
  <2>9. CASE WritePlaybook(p) \/ ListPromotable(p) \/ LookForPlaybook(p) \/ GetCandidate(p)
              \/ Gate(p) \/ ReadEpisode(p)
    BY <2>1, <2>9 DEF WritePlaybook, ListPromotable, LookForPlaybook, GetCandidate, Gate,
                      ReadEpisode, storeVars, AppendPlaybookNotes, UpsertPlaybook
  <2>10. QED
    BY <1>5, <2>4, <2>5, <2>6, <2>7, <2>8, <2>9 DEF Works
<1>6. ASSUME NEW p \in Slots, Observe(p)
      PROVE  Stands
  <2>1. /\ inv[p].todo \in SUBSET Observations /\ inv[p].todo # {}
        /\ \A t \in inv[p].todo : t.line <= Len(lines)
    BY <1>1, <1>6, AtStatement DEF Observe, At, Good, Idle, Invocations
  <2>2. NextPair(p).family \in Families \cup {NoFamily}
    BY <2>1, NextPairIsFirst DEF Observations, Typed
  <2>3. QED
    BY <1>4, <1>6, <2>2 DEF Observe, Signatures, NoPayload, Payloads
<1>7. ASSUME NEW p \in Slots,
             Begins(p) \/ Journals(p) \/ (DerivesPairs(p) /\ ~Observe(p)) \/ Die(p)
      PROVE  UNCHANGED candidates
  BY <1>7 DEF Begins, BeginCommand, BeginRecall, BeginTeach, BeginConfirm, BeginReject, BeginPurge,
              BeginWrite, Start, Journals, Repair, WriteEntry, CutEntryShort, DerivesPairs,
              LoadOffset, ReadTail, StoreOffset, Die, storeVars
<1>8. CASE Tick
  BY <1>2, <1>3, <1>8 DEF Tick, storeVars
<1>9. ASSUME NEW p \in Slots, Purge(p)
      PROVE  Stands \/ (At(p, "purge") /\ inv[p].flag)
  <2>1. At(p, "purge") /\ PurgeCandidates(inv[p].flag)
    BY <1>9 DEF Purge, Statement
  <2>2. inv[p].flag \in BOOLEAN
    BY <1>1, <2>1, AtStatement DEF At, Invocations
  <2>3. inv[p].flag \/ Stands
    BY <1>1, <2>1, <2>2, PurgeEffect
  <2>4. QED
    BY <2>1, <2>3
<1>10. QED
  BY <1>2, <1>5, <1>6, <1>7, <1>8, <1>9 DEF Next, DerivesPairs, vars, storeVars

\* From its rejection on a candidate stays as it is until purge --tombstones
\* deletes it (candidates.go), whatever confirm, teach and the passes have read.
THEOREM TombstonesStand == Spec => TombstonesHold
<1>1. ASSUME Typed, [Next]_vars
      PROVE  [\A id \in Ids : candidates[id].status = "rejected" =>
                \/ id \in DOMAIN candidates' /\ candidates'[id] = candidates[id]
                \/ \E p \in Slots : At(p, "purge") /\ inv[p].flag]_vars
  BY <1>1, TombstoneStep DEF Ids
<1>2. QED
  BY <1>1, TypeInit, TypeStep, PTL DEF Spec, TombstonesHold
---------------------------------------------------------------------------
(* Blessing.                                                                *)

\* A row is the last candidate its id was given to, and a playbook candidate's
\* family is its signature.
Linked ==
  /\ DOMAIN blessed = DOMAIN given
  /\ \A id \in Ids :
       /\ candidates[id].created \in DOMAIN given
       /\ given[candidates[id].created] = id
       /\ candidates[id].sig # Alias => candidates[id].family = candidates[id].sig

\* What a promotion has read is true of its candidate for as long as the row is
\* that candidate's; where it will not materialise, the family has a playbook.
Flying(i, rows, ids, books) ==
  /\ i.created \in DOMAIN ids /\ ids[i.created] = i.id
  /\ i.id \in DOMAIN rows /\ rows[i.id].created = i.created =>
       IF i.at = "note" THEN rows[i.id].sig = Alias
       ELSE rows[i.id].sig # Alias /\ i.family = rows[i.id].family
  /\ i.at = "confirm" /\ ~i.flag => i.family \in DOMAIN books

Promoting(i) == i.at \in {"look", "confirm", "note"}

Prepared(i, rows, ids, books) ==
  /\ Promoting(i) => Flying(i, rows, ids, books)
  /\ i.at = "get" => i.flag

Flight == \A p \in Slots : Prepared(inv[p], candidates, given, playbooks)

\* BlessedExactlyOnce, a row at a time.
Reused(c, ids) == \E d \in DOMAIN ids : d # c /\ ids[d] = ids[c]

RowBlessed(row, times, families) ==
  /\ row.status \in {"open", "expired"} => times[row.created] = 0
  /\ row.status = "confirmed" =>
       IF row.sig = Alias THEN times[row.created] = 1 ELSE row.family \in families

RowsBlessed ==
  /\ \A c \in DOMAIN given : Reused(c, given) \/ blessed[c] <= 1
  /\ \A id \in Ids : \/ Reused(candidates[id].created, given)
                    \/ RowBlessed(candidates[id], blessed, DOMAIN playbooks)

LEMMA RowByRow == BlessedExactlyOnce <=> RowsBlessed
<1>1. \A id \in Ids :
        (CASE candidates[id].status \in {"open", "expired"} -> blessed[candidates[id].created] = 0
           [] candidates[id].status = "confirmed" ->
                IF candidates[id].sig = Alias THEN blessed[candidates[id].created] = 1
                ELSE HasPlaybook(candidates[id].family)
           [] OTHER -> TRUE)
        <=> RowBlessed(candidates[id], blessed, DOMAIN playbooks)
  BY DEF RowBlessed, HasPlaybook
<1>2. QED
  BY <1>1 DEF BlessedExactlyOnce, RowsBlessed, IdIsReused, Reused

Blessing == Linked /\ Flight /\ RowsBlessed

PlaybooksStay == DOMAIN playbooks \in SUBSET DOMAIN playbooks'

\* What was read stays true while rows follow, playbooks stay and no id is given.
LEMMA FlyingFollows ==
  ASSUME StoreOK, Follow, PlaybooksStay, UNCHANGED given,
         NEW i, Flying(i, candidates, given, playbooks)
  PROVE  Flying(i, candidates', given', playbooks')
BY DEF Flying, Follow, PlaybooksStay, Ids

\* A new row is another candidate than the one that was read.
LEMMA FlyingInserted ==
  ASSUME StoreOK, NEW id \in Nat \ {0}, NEW row \in Candidates, candidates' = Put(id, row),
         row.created = Len(given) + 1, given' = Append(given, id), UNCHANGED playbooks,
         NEW i, Flying(i, candidates, given, playbooks)
  PROVE  Flying(i, candidates', given', playbooks')
<1>1. /\ given \in Seq(Nat \ {0}) /\ Len(given) \in Nat /\ DOMAIN given = 1..Len(given)
  BY DEF StoreOK, StoreTypeOK
<1>2. /\ DOMAIN given' = 1..(Len(given) + 1)
      /\ \A c \in 1..Len(given) : given'[c] = given[c]
  BY <1>1
<1>3. i.created \in 1..Len(given) /\ given[i.created] = i.id
  BY <1>1 DEF Flying
<1>4. i.created \in DOMAIN given' /\ given'[i.created] = i.id /\ i.created # row.created
  BY <1>1, <1>2, <1>3
<1>5. /\ Ids' = Ids \cup {id} /\ candidates'[id] = row
      /\ \A other \in Ids \ {id} : candidates'[other] = candidates[other]
  BY PutRow
<1>6. i.id \in DOMAIN candidates' /\ candidates'[i.id].created = i.created =>
        i.id \in DOMAIN candidates /\ candidates'[i.id] = candidates[i.id]
  BY <1>4, <1>5 DEF Ids
<1>7. DOMAIN playbooks' = DOMAIN playbooks
  OBVIOUS
<1>8. QED
  BY <1>4, <1>6, <1>7 DEF Flying

\* An id that was given twice was given twice.
LEMMA ReusedStays ==
  ASSUME StoreOK, NEW id \in Nat \ {0}, UNCHANGED given \/ given' = Append(given, id),
         NEW c \in DOMAIN given, Reused(c, given)
  PROVE  Reused(c, given')
<1>1. /\ given \in Seq(Nat \ {0}) /\ Len(given) \in Nat /\ DOMAIN given = 1..Len(given)
  BY DEF StoreOK, StoreTypeOK
<1>2. \A d \in DOMAIN given : d \in DOMAIN given' /\ given'[d] = given[d]
  BY <1>1
<1>3. QED
  BY <1>2 DEF Reused

\* Rows that follow and keep their status, or are expired, reopened or rejected,
\* stay blessed as they are.
LEMMA FollowBlesses ==
  ASSUME StoreOK, Linked, RowsBlessed, Follow, UNCHANGED <<given, blessed>>, PlaybooksStay,
         \A id \in Ids' :
           \/ candidates'[id].status = candidates[id].status
           \/ /\ candidates[id].status \in {"open", "expired"}
              /\ candidates'[id].status \in {"open", "expired"}
           \/ candidates'[id].status = "rejected"
  PROVE  Linked' /\ RowsBlessed'
<1>1. Linked'
  BY DEF Linked, Follow, Ids
<1>3. ASSUME NEW id \in Ids', ~Reused(candidates'[id].created, given)
      PROVE  RowBlessed(candidates'[id], blessed', DOMAIN playbooks')
  <2>1. /\ id \in Ids /\ candidates'[id].created = candidates[id].created
        /\ candidates'[id].sig = candidates[id].sig /\ candidates'[id].family = candidates[id].family
    BY <1>3 DEF Follow
  <2>2. RowBlessed(candidates[id], blessed, DOMAIN playbooks)
    BY <1>3, <2>1 DEF RowsBlessed
  <2>3. QED
    BY <1>3, <2>1, <2>2 DEF PlaybooksStay, RowBlessed
<1>4. \A id \in Ids' : \/ Reused(candidates'[id].created, given)
                      \/ RowBlessed(candidates'[id], blessed', DOMAIN playbooks')
  BY <1>3
<1>5. \A c \in DOMAIN given : Reused(c, given) \/ blessed'[c] <= 1
  BY DEF RowsBlessed
<1>6. QED
  BY <1>1, <1>4, <1>5 DEF RowsBlessed

\* What every promotion has read stays true.
FlyingStays ==
  \A i : Flying(i, candidates, given, playbooks) => Flying(i, candidates', given', playbooks')

\* A new row is not blessed yet, and takes no blessing from another.
LEMMA InsertBlesses ==
  ASSUME StoreOK, Linked, RowsBlessed, NEW id \in Nat \ {0}, id \notin Ids,
         NEW row \in Candidates, candidates' = Put(id, row),
         row.created = Len(given) + 1, row.status = "open",
         row.sig # Alias => row.family = row.sig,
         given' = Append(given, id), blessed' = Append(blessed, 0), UNCHANGED playbooks
  PROVE  Linked' /\ RowsBlessed'
<1>1. /\ given \in Seq(Nat \ {0}) /\ Len(given) \in Nat /\ DOMAIN given = 1..Len(given)
      /\ blessed \in Seq(Nat) /\ Len(blessed) = Len(given)
  <2>1. /\ given \in Seq(Nat \ {0}) /\ Len(given) \in Nat /\ DOMAIN given = 1..Len(given)
        /\ blessed \in Seq(Nat) /\ Len(blessed) \in Nat /\ DOMAIN blessed = 1..Len(blessed)
        /\ DOMAIN blessed = DOMAIN given
    BY DEF StoreOK, StoreTypeOK, Linked
  <2>2. \A n \in Nat, m \in Nat : 1..n = 1..m => n <= m
    <3>1. \A n \in Nat, m \in Nat : 1..n = 1..m /\ n # 0 => n \in 1..m
      OBVIOUS
    <3>2. QED
      BY <3>1
  <2>3. Len(blessed) <= Len(given) /\ Len(given) <= Len(blessed)
    BY <2>1, <2>2
  <2>4. Len(blessed) = Len(given)
    <3>1. Len(blessed) \in Nat /\ Len(given) \in Nat
      BY <2>1
    <3>2. QED
      BY <2>3, <3>1
  <2>5. QED
    BY <2>1, <2>4
<1>2. /\ DOMAIN given' = 1..(Len(given) + 1) /\ DOMAIN blessed' = 1..(Len(given) + 1)
      /\ given'[Len(given) + 1] = id /\ blessed'[Len(given) + 1] = 0
      /\ \A c \in 1..Len(given) : given'[c] = given[c] /\ blessed'[c] = blessed[c]
  BY <1>1
<1>3. /\ Ids' = Ids \cup {id} /\ candidates'[id] = row
      /\ \A other \in Ids : candidates'[other] = candidates[other]
  BY PutRow
<1>4. \A c \in DOMAIN given : Reused(c, given) => Reused(c, given')
  BY ReusedStays
<1>5. \A other \in Ids : candidates[other].created \in 1..Len(given)
  BY <1>1 DEF Linked
<1>6. Linked'
  <2>1. ASSUME NEW x \in Ids'
        PROVE  /\ candidates'[x].created \in DOMAIN given'
               /\ given'[candidates'[x].created] = x
               /\ candidates'[x].sig # Alias => candidates'[x].family = candidates'[x].sig
    <3>1. CASE x = id
      BY <1>1, <1>2, <1>3, <3>1
    <3>2. CASE x \in Ids
      BY <1>1, <1>2, <1>3, <1>5, <3>2 DEF Linked
    <3>3. QED
      BY <1>3, <3>1, <3>2
  <2>2. QED
    BY <1>2, <2>1 DEF Linked
<1>7. ASSUME NEW x \in Ids'
      PROVE  \/ Reused(candidates'[x].created, given')
             \/ RowBlessed(candidates'[x], blessed', DOMAIN playbooks')
  <2>1. CASE x = id
    BY <1>2, <1>3, <2>1 DEF RowBlessed
  <2>2. CASE x \in Ids
    <3>1. \/ Reused(candidates[x].created, given)
          \/ RowBlessed(candidates[x], blessed, DOMAIN playbooks)
      BY <2>2 DEF RowsBlessed
    <3>2. candidates'[x] = candidates[x] /\ candidates[x].created \in DOMAIN given
          /\ blessed'[candidates[x].created] = blessed[candidates[x].created]
      BY <1>1, <1>2, <1>3, <1>5, <2>2
    <3>3. QED
      BY <1>4, <3>1, <3>2 DEF RowBlessed
  <2>3. QED
    BY <1>3, <2>1, <2>2
<1>8. ASSUME NEW c \in DOMAIN given'
      PROVE  Reused(c, given') \/ blessed'[c] <= 1
  <2>1. CASE c = Len(given) + 1
    BY <1>2, <2>1
  <2>2. CASE c \in 1..Len(given)
    <3>1. c \in DOMAIN given /\ blessed'[c] = blessed[c]
      BY <1>1, <1>2, <2>2
    <3>2. Reused(c, given) \/ blessed[c] <= 1
      BY <3>1 DEF RowsBlessed
    <3>3. QED
      BY <1>4, <3>1, <3>2
  <2>3. QED
    BY <1>1, <1>2, <2>1, <2>2
<1>9. QED
  BY <1>6, <1>7, <1>8 DEF RowsBlessed

LEMMA DeriveBlesses ==
  ASSUME StoreOK, Linked, RowsBlessed, NEW sig \in Signatures, NEW family \in Families \cup {NoFamily},
         NEW payload \in Payloads, sig # Alias => family = sig,
         DeriveCandidate(sig, family, payload)
  PROVE  Linked' /\ RowsBlessed' /\ FlyingStays
<1>1. CASE Has(sig)
  <2> DEFINE id == IdOf(sig)
  <2>1. id \in Ids /\ id \in Nat \ {0} /\ candidates[id] \in Candidates
    BY <1>1, RowOfSignature
  <2>2. candidates' = Put(id, Sighted(candidates[id])) /\ UNCHANGED <<playbooks, given, blessed>>
    BY <1>1 DEF DeriveCandidate
  <2> HIDE DEF id
  <2>3. /\ Ids' = Ids /\ candidates'[id] = Sighted(candidates[id])
        /\ \A other \in Ids \ {id} : candidates'[other] = candidates[other]
        /\ \A x \in Ids : candidates'[x] \in Candidates
    <3>1. Sighted(candidates[id]) \in Candidates
      BY <2>1, SightedIsRow
    <3>2. QED
      BY <2>1, <2>2, <3>1, PutRow
  <2>4. /\ candidates'[id].sig = candidates[id].sig /\ candidates'[id].family = candidates[id].family
        /\ candidates'[id].created = candidates[id].created
        /\ candidates'[id].status = IF candidates[id].status = "expired" THEN "open"
                                    ELSE candidates[id].status
    BY <2>1, <2>3, SightedIsRow
  <2>5. Follow
    BY <2>3, <2>4 DEF Follow
  <2>6. \A x \in Ids' : \/ candidates'[x].status = candidates[x].status
                        \/ /\ candidates[x].status \in {"open", "expired"}
                           /\ candidates'[x].status \in {"open", "expired"}
    BY <2>3, <2>4
  <2>7. PlaybooksStay
    BY <2>2 DEF PlaybooksStay
  <2>8. QED
    BY <2>2, <2>5, <2>6, <2>7, FollowBlesses, FlyingFollows DEF FlyingStays
<1>2. CASE ~Has(sig)
  <2> DEFINE row == NewRow(sig, family, payload)
  <2>1. /\ candidates' = Put(FreshId, row) /\ given' = Append(given, FreshId)
        /\ blessed' = Append(blessed, 0) /\ UNCHANGED playbooks
    BY <1>2 DEF DeriveCandidate, Insert, NewRow
  <2>2. /\ row \in Candidates /\ row.created = Len(given) + 1 /\ row.status = "open"
        /\ row.sig # Alias => row.family = row.sig
    <3>1. row \in Candidates
      BY NewRowIsRow
    <3>2. QED
      BY <3>1 DEF NewRow
  <2> HIDE DEF row
  <2>3. QED
    BY <2>1, <2>2, FreshIdIsFree, InsertBlesses, FlyingInserted DEF FlyingStays
<1>3. QED
  BY <1>1, <1>2

\* Confirming one open row: the candidate read, if the row is still that one,
\* had not been materialised.
LEMMA ConfirmBlesses ==
  ASSUME StoreOK, Linked, RowsBlessed, NEW i \in Invocations, i.family \in Families,
         Promoting(i), Flying(i, candidates, given, playbooks),
         \/ i.at = "confirm" /\ ~i.flag /\ ConfirmCandidate(i.id)
         \/ i.at = "confirm" /\ ConfirmCandidateWithPlaybook(i.id, i.created, i.family, i.payload)
         \/ i.at = "note" /\ ConfirmCandidateWithPlaybookNote(i.id, i.created, i.family)
  PROVE  Linked' /\ RowsBlessed' /\ FlyingStays
<1>1. i.payload \in Payloads
  BY DEF Invocations
<1>2. /\ Follow /\ Ids' = Ids /\ UNCHANGED given
      /\ i.id \in Ids /\ candidates[i.id].status = "open" /\ candidates'[i.id].status = "confirmed"
      /\ \A other \in Ids \ {i.id} : candidates'[other] = candidates[other]
      /\ UNCHANGED playbooks \/ PlaybooksGrow(i.family)
  BY <1>1, ConfirmTyped
<1>3. PlaybooksStay
  BY <1>2 DEF PlaybooksStay, PlaybooksGrow
<1>4. Linked'
  <2>1. DOMAIN blessed' = DOMAIN blessed
    BY DEF ConfirmCandidate, ConfirmCandidateWithPlaybook, ConfirmCandidateWithPlaybookNote
  <2>2. QED
    BY <1>2, <2>1 DEF Linked, Follow
<1>5. FlyingStays
  BY <1>2, <1>3, FlyingFollows DEF FlyingStays
<1> DEFINE c0 == i.created
           row == candidates[i.id]
<1>6. /\ c0 \in DOMAIN given /\ given[c0] = i.id
      /\ row.created \in DOMAIN given /\ given[row.created] = i.id
      /\ row.created # c0 => Reused(c0, given) /\ Reused(row.created, given)
  <2>1. /\ c0 \in DOMAIN given /\ given[c0] = i.id
        /\ row.created \in DOMAIN given /\ given[row.created] = i.id
    BY <1>2 DEF Flying, Linked
  <2>2. QED
    BY <2>1 DEF Reused
<1>7. DOMAIN blessed = DOMAIN given /\ \A c \in DOMAIN given : blessed[c] \in Nat
  BY DEF Linked, StoreOK, StoreTypeOK
<1>8. /\ \A c \in DOMAIN given \ {c0} : blessed'[c] = blessed[c]
      /\ \/ blessed'[c0] = blessed[c0] /\ i.at = "confirm" /\ ~i.flag /\ UNCHANGED playbooks
         \/ /\ blessed'[c0] = blessed[c0] + 1
            /\ i.at = "note" \/ (row.sig # Alias /\ PlaybooksGrow(i.family))
  <2>1. CASE i.at = "confirm" /\ ~i.flag /\ ConfirmCandidate(i.id)
    BY <2>1 DEF ConfirmCandidate
  <2>2. CASE i.at = "confirm" /\ ConfirmCandidateWithPlaybook(i.id, i.created, i.family, i.payload)
    <3>1. /\ blessed' = [blessed EXCEPT ![c0] = @ + 1] /\ ~IsAlias(i.id)
          /\ UpsertPlaybookRow(i.family, i.payload)
      BY <2>2 DEF ConfirmCandidateWithPlaybook
    <3>2. QED
      BY <1>1, <1>6, <1>7, <3>1, UpsertEffect DEF IsAlias
  <2>3. CASE i.at = "note" /\ ConfirmCandidateWithPlaybookNote(i.id, i.created, i.family)
    <3>1. blessed' = [blessed EXCEPT ![c0] = @ + 1]
      BY <2>3 DEF ConfirmCandidateWithPlaybookNote
    <3>2. blessed'[c0] = blessed[c0] + 1 /\ \A c \in DOMAIN given \ {c0} : blessed'[c] = blessed[c]
      BY <1>6, <1>7, <3>1
    <3>3. QED
      BY <2>3, <3>2
  <2>4. QED
    BY <2>1, <2>2, <2>3
<1>9. ASSUME ~Reused(row.created, given)
      PROVE  /\ row.created = c0 /\ blessed[c0] = 0
             /\ IF i.at = "note" THEN row.sig = Alias
                ELSE row.sig # Alias /\ i.family = row.family
  <2>1. row.created = c0
    BY <1>6, <1>9
  <2>2. RowBlessed(row, blessed, DOMAIN playbooks)
    BY <1>2, <1>9 DEF RowsBlessed
  <2>3. QED
    BY <1>2, <2>1, <2>2 DEF RowBlessed, Flying, Ids
<1>10. ASSUME NEW c \in DOMAIN given'
       PROVE  Reused(c, given') \/ blessed'[c] <= 1
  <2>1. CASE c # c0
    BY <1>2, <1>8, <2>1 DEF RowsBlessed
  <2>2. CASE c = c0
    <3>1. CASE Reused(c0, given)
      BY <1>2, <2>2, <3>1
    <3>2. CASE ~Reused(c0, given)
      <4>1. row.created = c0
        BY <1>6, <3>2
      <4>2. blessed[c0] = 0
        BY <1>9, <3>2, <4>1
      <4>3. QED
        BY <1>8, <2>2, <4>2
    <3>3. QED
      BY <3>1, <3>2
  <2>3. QED
    BY <2>1, <2>2
<1>11. ASSUME NEW id \in Ids', ~Reused(candidates'[id].created, given')
       PROVE  RowBlessed(candidates'[id], blessed', DOMAIN playbooks')
  <2>1. CASE id = i.id
    <3>1. /\ candidates'[id].created = c0 /\ blessed[c0] = 0
          /\ candidates'[id].sig = row.sig /\ candidates'[id].family = row.family
          /\ IF i.at = "note" THEN row.sig = Alias ELSE row.sig # Alias /\ i.family = row.family
      BY <1>2, <1>9, <1>11, <2>1 DEF Follow
    <3>2. i.at = "confirm" => i.family \in DOMAIN playbooks'
      BY <1>2, <1>3, <1>8 DEF Flying, PlaybooksGrow, PlaybooksStay
    <3>3. QED
      BY <1>2, <1>8, <2>1, <3>1, <3>2 DEF RowBlessed, Promoting
  <2>2. CASE id # i.id
    <3>1. candidates'[id] = candidates[id] /\ candidates[id].created \in DOMAIN given
          /\ given[candidates[id].created] = id
      BY <1>2, <2>2 DEF Linked
    <3>2. RowBlessed(candidates[id], blessed, DOMAIN playbooks)
      BY <1>2, <1>11, <3>1 DEF RowsBlessed
    <3>3. candidates[id].created # c0
      BY <1>6, <2>2, <3>1
    <3>4. blessed'[candidates[id].created] = blessed[candidates[id].created]
      BY <1>8, <3>1, <3>3
    <3>5. QED
      BY <1>3, <3>1, <3>2, <3>4 DEF RowBlessed, PlaybooksStay
  <2>3. QED
    BY <2>1, <2>2
<1>12. QED
  BY <1>4, <1>5, <1>10, <1>11 DEF RowsBlessed

StoreBlesses == Linked' /\ RowsBlessed' /\ FlyingStays

LEMMA UnchangedBlesses ==
  ASSUME Linked, RowsBlessed, UNCHANGED storeVars PROVE StoreBlesses
BY DEF StoreBlesses, storeVars, Linked, RowsBlessed, FlyingStays, Ids

\* Neither promoting nor about to read a row.
Elsewhere(p) == ~Promoting(inv'[p]) /\ inv'[p].at # "get"

LEMMA GoElsewhere ==
  ASSUME SlotsOK, NEW p \in Slots, inv[p].at # "idle",
         NEW at \in {"list", "gate", "episode", "purge", "write", "load"},
         Go(p, at) \/ Finish(p) \/ Leave(p)
  PROVE  Elsewhere(p)
<1>1. inv[p] \in Invocations
  BY AtStatement
<1>2. CASE Go(p, at)
  BY <1>1, <1>2 DEF Go, SlotsOK, Invocations, Elsewhere, Promoting
<1>3. CASE Finish(p)
  BY <1>3, FinishGood DEF Elsewhere, Promoting
<1>4. CASE Leave(p)
  BY <1>4, LeaveGood DEF Elsewhere, Promoting, Idle
<1>5. QED
  BY <1>2, <1>3, <1>4

\* One statement of a command keeps the blessings.
LEMMA WorksBless ==
  ASSUME Typed, Blessing, NEW p \in Slots, Works(p)
  PROVE  StoreBlesses /\ Prepared(inv'[p], candidates', given', playbooks')
<1> USE DEF Statement, At
<1> DEFINE i == inv[p]
<1>1. SlotsOK /\ StoreOK /\ JournalTypeOK /\ Linked /\ RowsBlessed
      /\ Prepared(i, candidates, given, playbooks)
  BY DEF Typed, Blessing, Flight
<1>2. i.at # "idle"
  BY DEF Works, WritePlaybook, ListPromotable, LookForPlaybook, GetCandidate, Confirm,
         ConfirmNote, Reject, Expire, Purge, Gate, ReadEpisode, Synthesize, Refresh
<1>3. i \in Invocations /\ i.payload \in Payloads /\ i.flag \in BOOLEAN
      /\ (i.at \in {"upsert", "look", "confirm", "note", "synthesize"} => i.family \in Families)
  BY <1>1, <1>2, AtStatement DEF Good, Idle, Invocations
<1>4. ASSUME UNCHANGED storeVars PROVE StoreBlesses
  BY <1>1, <1>4, UnchangedBlesses
<1>5. ASSUME Elsewhere(p) PROVE Prepared(inv'[p], candidates', given', playbooks')
  BY <1>5 DEF Elsewhere, Prepared
<1>6. \A at \in {"list", "gate", "episode", "purge", "write", "load"} :
        Go(p, at) \/ Finish(p) \/ Leave(p) => Elsewhere(p)
  BY <1>1, <1>2, GoElsewhere
<1>7. ASSUME Follow, UNCHANGED <<given, blessed>>, PlaybooksStay,
             \A id \in Ids' :
               \/ candidates'[id].status = candidates[id].status
               \/ /\ candidates[id].status \in {"open", "expired"}
                  /\ candidates'[id].status \in {"open", "expired"}
               \/ candidates'[id].status = "rejected"
      PROVE  StoreBlesses
  BY <1>1, <1>7, FollowBlesses, FlyingFollows DEF StoreBlesses, FlyingStays
<1>8. ASSUME UNCHANGED playbooks PROVE PlaybooksStay
  BY <1>8 DEF PlaybooksStay
<1>9. CASE WritePlaybook(p)
  <2>1. Choreography \in Payloads /\ NotesOnly \in Payloads /\ i.family \in Families
    BY <1>3, <1>9 DEF WritePlaybook, Choreography, NotesOnly, Payloads
  <2>2. PlaybooksGrow(i.family) /\ UNCHANGED <<candidates, given, blessed>>
    BY <1>1, <1>9, <2>1, UpsertEffect, AppendNoteEffect
       DEF WritePlaybook, AppendPlaybookNotes, UpsertPlaybook
  <2>3. Follow /\ PlaybooksStay
    BY <1>1, <2>2 DEF Follow, PlaybooksStay, PlaybooksGrow, StoreOK, StoreTypeOK, Ids
  <2>4. Elsewhere(p)
    BY <1>6, <1>9 DEF WritePlaybook
  <2>5. QED
    BY <1>5, <1>7, <2>2, <2>3, <2>4 DEF Ids
<1>10. CASE ListPromotable(p)
  <2>1. UNCHANGED storeVars
    BY <1>10 DEF ListPromotable
  <2>2. CASE Go(p, "gate")
    BY <1>4, <1>5, <1>6, <2>1, <2>2
  <2>3. ASSUME NEW id \in Ids, IsPromotable(id, i.family),
               inv' = [inv EXCEPT ![p].at = "look", ![p].id = id,
                                  ![p].created = candidates[id].created,
                                  ![p].payload = candidates[id].payload]
        PROVE  Prepared(inv'[p], candidates', given', playbooks')
    <3>1. /\ inv'[p].at = "look" /\ inv'[p].id = id /\ inv'[p].created = candidates[id].created
          /\ inv'[p].family = i.family
      BY <1>1, <1>3, <2>3 DEF SlotsOK, Invocations
    <3>2. /\ candidates[id].created \in DOMAIN given /\ given[candidates[id].created] = id
          /\ candidates[id].sig # Alias /\ candidates[id].family = i.family
      BY <1>1, <2>3 DEF Linked, IsPromotable
    <3>3. QED
      BY <2>1, <3>1, <3>2 DEF Prepared, Flying, storeVars
  <2>4. QED
    BY <1>4, <1>10, <2>1, <2>2, <2>3 DEF ListPromotable
<1>11. CASE LookForPlaybook(p)
  <2>1. /\ inv'[p] = [i EXCEPT !.at = "confirm", !.flag = ~HasPlaybook(i.family)]
        /\ i.at = "look" /\ UNCHANGED storeVars
    BY <1>1, <1>11 DEF LookForPlaybook, SlotsOK
  <2>2. /\ inv'[p].at = "confirm" /\ inv'[p].id = i.id /\ inv'[p].created = i.created
        /\ inv'[p].family = i.family /\ inv'[p].flag = ~HasPlaybook(i.family)
    BY <1>3, <2>1 DEF Invocations
  <2>3. Flying(i, candidates, given, playbooks)
    BY <1>1, <2>1 DEF Prepared, Promoting
  <2>4. /\ inv'[p].created \in DOMAIN given' /\ given'[inv'[p].created] = inv'[p].id
        /\ inv'[p].id \in DOMAIN candidates' /\ candidates'[inv'[p].id].created = inv'[p].created =>
              candidates'[inv'[p].id].sig # Alias /\ inv'[p].family = candidates'[inv'[p].id].family
    BY <2>1, <2>2, <2>3 DEF Flying, storeVars
  <2>5. ~inv'[p].flag => inv'[p].family \in DOMAIN playbooks'
    BY <2>1, <2>2 DEF HasPlaybook, storeVars
  <2>6. Prepared(inv'[p], candidates', given', playbooks')
    BY <2>2, <2>4, <2>5 DEF Prepared, Flying
  <2>7. QED
    BY <1>4, <2>1, <2>6
<1>12. CASE GetCandidate(p)
  <2>1. UNCHANGED storeVars /\ i.flag
    BY <1>1, <1>12 DEF GetCandidate, Prepared
  <2>2. CASE Finish(p)
    BY <1>4, <1>5, <1>6, <2>1, <2>2
  <2>3. ASSUME Confirmable(i.id, i.session),
               inv' = [inv EXCEPT ![p].at = IF IsAlias(i.id) THEN "note" ELSE "confirm",
                                  ![p].family = Anchor(i.id, i.session),
                                  ![p].created = candidates[i.id].created,
                                  ![p].payload = candidates[i.id].payload]
        PROVE  Prepared(inv'[p], candidates', given', playbooks')
    <3> DEFINE at == IF IsAlias(i.id) THEN "note" ELSE "confirm"
               j == PickUp(i, at, Anchor(i.id, i.session), candidates[i.id].created,
                           candidates[i.id].payload)
    <3>1. /\ i.id \in Ids /\ candidates[i.id].created \in Nat /\ candidates[i.id].payload \in Payloads
          /\ candidates[i.id].sig \in Signatures /\ at \in Places
      BY <1>1, <2>3 DEF StoreOK, StoreTypeOK, Ids, Candidates, Confirmable, Places
    <3>2. Anchor(i.id, i.session) \in Families \cup {NoFamily}
      BY <1>1, <3>1, AnchorTyped
    <3>3. inv'[p] = j
      BY <1>1, <2>3 DEF SlotsOK, PickUp
    <3> DEFINE created == candidates[i.id].created
               payload == candidates[i.id].payload
               f == Anchor(i.id, i.session)
    <3>4. created \in Nat /\ payload \in Payloads /\ at \in Places /\ f \in Families \cup {NoFamily}
      BY <3>1, <3>2
    <3>5. j = PickUp(i, at, f, created, payload)
      OBVIOUS
    <3>6. /\ f = Anchor(i.id, i.session) /\ created = candidates[i.id].created
           /\ at = IF IsAlias(i.id) THEN "note" ELSE "confirm"
      OBVIOUS
    <3> HIDE DEF at, f, created, payload, j
    <3>7. i \in Invocations
      BY <1>3
    <3>8. /\ PickUp(i, at, f, created, payload).at = at
           /\ PickUp(i, at, f, created, payload).family = f
           /\ PickUp(i, at, f, created, payload).id = i.id
           /\ PickUp(i, at, f, created, payload).created = created
      BY ONLY <3>4, <3>7, PickedUp
    <3>9. /\ j.at = at /\ j.id = i.id /\ j.created = candidates[i.id].created
          /\ j.family = Anchor(i.id, i.session)
      BY <3>5, <3>6, <3>8
    <3>10. /\ candidates[i.id].created \in DOMAIN given
          /\ given[candidates[i.id].created] = i.id
      BY <1>1, <3>1 DEF Linked
    <3>11. IF at = "note" THEN candidates[i.id].sig = Alias
          ELSE candidates[i.id].sig # Alias /\ Anchor(i.id, i.session) = candidates[i.id].family
      <4>1. CASE IsAlias(i.id)
        BY <3>6, <4>1 DEF IsAlias
      <4>2. CASE ~IsAlias(i.id)
        <5>1. candidates[i.id].sig # Alias /\ candidates[i.id].sig \in Families
          BY <3>1, <4>2 DEF IsAlias, Signatures
        <5>2. candidates[i.id].family # NoFamily
          BY <1>1, <3>1, <5>1, NoFamilyAssumption DEF Linked
        <5>3. QED
          BY <3>6, <4>2, <5>1, <5>2 DEF Anchor
      <4>3. QED
        BY <4>1, <4>2
    <3>12. inv'[p].at # "get"
      BY <3>3, <3>9, <3>6
    <3>13. PickUp(i, at, f, created, payload).flag
      BY <2>1, <3>4, <3>7, PickedFlag
    <3>14. inv'[p].flag
      BY <3>3, <3>5, <3>13
    <3>15. /\ inv'[p].created \in DOMAIN given' /\ given'[inv'[p].created] = inv'[p].id
           /\ inv'[p].id \in DOMAIN candidates' /\ candidates'[inv'[p].id].created = inv'[p].created =>
                IF inv'[p].at = "note" THEN candidates'[inv'[p].id].sig = Alias
                ELSE candidates'[inv'[p].id].sig # Alias
                     /\ inv'[p].family = candidates'[inv'[p].id].family
      BY <2>1, <3>3, <3>9, <3>10, <3>11 DEF storeVars
    <3>16. Flying(inv'[p], candidates', given', playbooks')
      BY <3>14, <3>15 DEF Flying
    <3>17. QED
      BY <3>12, <3>16 DEF Prepared
  <2>4. QED
    BY <1>4, <1>12, <2>1, <2>2, <2>3 DEF GetCandidate
<1>13. CASE Confirm(p) \/ ConfirmNote(p)
  <2>1. Promoting(i) /\ Flying(i, candidates, given, playbooks) /\ i.family \in Families
    BY <1>1, <1>3, <1>13 DEF Confirm, ConfirmNote, Prepared, Promoting
  <2>2. \/ UNCHANGED storeVars
        \/ i.at = "confirm" /\ ~i.flag /\ ConfirmCandidate(i.id)
        \/ i.at = "confirm" /\ ConfirmCandidateWithPlaybook(i.id, i.created, i.family, i.payload)
        \/ i.at = "note" /\ ConfirmCandidateWithPlaybookNote(i.id, i.created, i.family)
    BY <1>13 DEF Confirm, ConfirmNote
  <2>3. StoreBlesses
    BY <1>1, <1>3, <1>4, <2>1, <2>2, ConfirmBlesses DEF StoreBlesses
  <2>4. Elsewhere(p)
    BY <1>6, <1>13 DEF Confirm, ConfirmNote, AfterConfirm
  <2>5. QED
    BY <1>5, <2>3, <2>4
<1>14. CASE Reject(p)
  <2>1. ASSUME RejectCandidate(i.id) PROVE StoreBlesses
    <3>1. /\ i.id \in Ids /\ candidates' = [candidates EXCEPT ![i.id].status = "rejected"]
          /\ "rejected" \in Statuses /\ UNCHANGED <<playbooks, given, blessed>>
      BY <2>1 DEF RejectCandidate, CanReject, Statuses
    <3>2. /\ Follow /\ Ids' = Ids /\ candidates'[i.id].status = "rejected"
          /\ \A other \in Ids \ {i.id} : candidates'[other] = candidates[other]
      BY <1>1, <3>1, SetStatus
    <3>3. QED
      BY <1>7, <1>8, <3>1, <3>2
  <2>2. Elsewhere(p)
    BY <1>6, <1>14 DEF Reject
  <2>3. QED
    BY <1>4, <1>5, <1>14, <2>1, <2>2 DEF Reject
<1>15. CASE Expire(p)
  <2>1. /\ Follow /\ Ids' = Ids /\ UNCHANGED <<playbooks, given, blessed>>
        /\ \A id \in Ids : candidates[id].status # "open" => candidates'[id] = candidates[id]
        /\ \A id \in Ids : candidates[id].status = "open" =>
             candidates'[id].status \in {"open", "expired"}
    BY <1>1, <1>15, SweepEffect DEF Expire
  <2>2. \A id \in Ids' : \/ candidates'[id].status = candidates[id].status
                         \/ /\ candidates[id].status \in {"open", "expired"}
                            /\ candidates'[id].status \in {"open", "expired"}
    BY <2>1
  <2>3. Elsewhere(p)
    BY <1>6, <1>15 DEF Expire
  <2>4. QED
    BY <1>5, <1>7, <1>8, <2>1, <2>2, <2>3
<1>16. CASE Purge(p)
  <2>1. /\ Follow /\ UNCHANGED <<playbooks, given, blessed>>
        /\ \A id \in Ids' : candidates'[id] = candidates[id]
    BY <1>1, <1>3, <1>16, PurgeEffect DEF Purge
  <2>2. Elsewhere(p)
    BY <1>6, <1>16 DEF Purge
  <2>3. QED
    BY <1>5, <1>7, <1>8, <2>1, <2>2
<1>17. CASE Refresh(p)
  <2>1. /\ Follow /\ Ids' = Ids /\ UNCHANGED <<playbooks, given, blessed>>
        /\ \A x \in Ids : candidates'[x].status = candidates[x].status
    BY <1>1, <1>3, <1>17, RefreshEffect DEF Refresh
  <2>2. Elsewhere(p)
    BY <1>6, <1>17 DEF Refresh
  <2>3. QED
    BY <1>5, <1>7, <1>8, <2>1, <2>2
<1>18. CASE Gate(p)
  <2>1. UNCHANGED storeVars /\ Elsewhere(p)
    BY <1>6, <1>18 DEF Gate
  <2>2. QED
    BY <1>4, <1>5, <2>1
<1>19. CASE ReadEpisode(p)
  <2>1. UNCHANGED storeVars
    BY <1>19 DEF ReadEpisode
  <2>2. Elsewhere(p)
    <3>1. CASE Finish(p)
      BY <1>6, <3>1
    <3>2. CASE inv' = [inv EXCEPT ![p].at = "synthesize",
                                  ![p].payload = EpisodePayload(i.family, i.session)]
      BY <1>1, <1>3, <3>2 DEF SlotsOK, Invocations, Elsewhere, Promoting
    <3>3. QED
      BY <1>19, <3>1, <3>2 DEF ReadEpisode
  <2>3. QED
    BY <1>4, <1>5, <2>1, <2>2
<1>20. CASE Synthesize(p)
  <2>1. i.family \in Families /\ DeriveCandidate(i.family, i.family, i.payload)
    BY <1>3, <1>20 DEF Synthesize
  <2>2. i.family \in Signatures /\ i.family \in Families \cup {NoFamily}
    BY <2>1 DEF Signatures
  <2>3. StoreBlesses
    BY <1>1, <1>3, <2>1, <2>2, DeriveBlesses DEF StoreBlesses
  <2>4. Elsewhere(p)
    <3>1. CASE Finish(p)
      BY <1>6, <3>1
    <3>2. CASE inv' = [inv EXCEPT ![p].at = "refresh", ![p].id = IdOf(i.family)]
      BY <1>1, <1>3, <3>2 DEF SlotsOK, Invocations, Elsewhere, Promoting
    <3>3. QED
      BY <1>20, <3>1, <3>2 DEF Synthesize
  <2>5. QED
    BY <1>5, <2>3, <2>4
<1>21. QED
  BY <1>9, <1>10, <1>11, <1>12, <1>13, <1>14, <1>15, <1>16, <1>17, <1>18, <1>19, <1>20 DEF Works

\* A derivation pass keeps the blessings.
LEMMA DerivesBless ==
  ASSUME Typed, Blessing, NEW p \in Slots, DerivesPairs(p)
  PROVE  StoreBlesses /\ Elsewhere(p)
<1> USE DEF At
<1> DEFINE i == inv[p]
<1>1. SlotsOK /\ StoreOK /\ JournalTypeOK /\ Linked /\ RowsBlessed
  BY DEF Typed, Blessing
<1>2. i.at # "idle" /\ i \in Invocations /\ Good(i, Len(lines)) /\ i.todo \in SUBSET Observations
  <2>1. i.at # "idle"
    BY DEF DerivesPairs, LoadOffset, ReadTail, Observe, StoreOffset
  <2>2. QED
    BY <1>1, <2>1, AtStatement DEF Invocations
<1>3. CASE LoadOffset(p) \/ ReadTail(p) \/ StoreOffset(p)
  <2>1. UNCHANGED storeVars
    BY <1>3 DEF LoadOffset, ReadTail, StoreOffset
  <2>2. Elsewhere(p)
    <3>1. CASE Leave(p)
      BY <1>1, <3>1, LeaveGood DEF Elsewhere, Promoting, Idle
    <3>2. CASE LoadOffset(p)
      BY <1>1, <1>2, <3>2 DEF LoadOffset, SlotsOK, Invocations, Elsewhere, Promoting
    <3>3. CASE ReadTail(p) /\ ~Leave(p)
      BY <1>1, <1>2, <3>3 DEF ReadTail, SlotsOK, Invocations, Elsewhere, Promoting
    <3>4. QED
      BY <1>1, <1>3, <3>1, <3>2, <3>3 DEF StoreOffset
  <2>3. QED
    BY <1>1, <2>1, <2>2, UnchangedBlesses
<1>4. CASE Observe(p)
  <2> DEFINE pair == NextPair(p)
  <2>1. pair.family \in Families \cup {NoFamily}
    BY <1>1, <1>2, <1>4, NextPairIsFirst DEF Observe, Good, Idle, Observations, Typed
  <2>2. DeriveCandidate(Alias, pair.family, NoPayload)
    BY <1>4 DEF Observe
  <2> HIDE DEF pair
  <2>3. Alias \in Signatures /\ NoPayload \in Payloads
    BY DEF Signatures, NoPayload, Payloads
  <2>4. StoreBlesses
    BY <1>1, <2>1, <2>2, <2>3, DeriveBlesses DEF StoreBlesses
  <2>5. Elsewhere(p)
    BY <1>1, <1>2, <1>4 DEF Observe, SlotsOK, Invocations, Elsewhere, Promoting
  <2>6. QED
    BY <2>4, <2>5
<1>5. QED
  BY <1>3, <1>4 DEF DerivesPairs

\* A confirm begins with the flag that makes it materialise, and nothing else
\* begins with a promotion.
LEMMA BeginsPrepared ==
  ASSUME Typed, NEW p \in Slots, Begins(p), NEW rows, NEW ids, NEW books
  PROVE  Prepared(inv'[p], rows, ids, books)
<1>1. SlotsOK
  BY DEF Typed
<1>2. ~Promoting(inv'[p])
  BY BeginsGood DEF Promoting
<1>3. inv'[p].at = "get" => inv'[p].flag
  BY <1>1 DEF Begins, Begin, BeginCommand, BeginRecall, BeginTeach, BeginConfirm, BeginReject,
              BeginPurge, BeginWrite, SlotsOK
<1>4. QED
  BY <1>2, <1>3 DEF Prepared

\* The action of one slot leaves the others as prepared as they were.
LEMMA FlightStep ==
  ASSUME Flight, NEW p \in Slots, OneSlot(p), FlyingStays,
         Prepared(inv'[p], candidates', given', playbooks')
  PROVE  Flight'
<1>1. \A q \in Slots \ {p} : inv'[q] = inv[q] /\ Prepared(inv[q], candidates, given, playbooks)
  BY DEF OneSlot, Flight
<1>2. \A q \in Slots \ {p} : Prepared(inv'[q], candidates', given', playbooks')
  BY <1>1 DEF FlyingStays, Prepared
<1>3. QED
  BY <1>2 DEF Flight

LEMMA BlessingInit == Init => Blessing
<1> SUFFICES ASSUME Init PROVE Blessing
  OBVIOUS
<1> PICK h \in Histories :
      /\ candidates = h.candidates /\ playbooks = h.playbooks
      /\ given = h.given /\ blessed = h.blessed
      /\ inv = [p \in Slots |-> Idle]
  BY DEF Init
<1>1. Leavable(h)
  BY HistoriesAssumption
<1>2. /\ blessed = [c \in DOMAIN given |-> 0]
      /\ \A id \in Ids : /\ candidates[id].status = "open"
                         /\ candidates[id].sig # Alias => candidates[id].family = candidates[id].sig
                         /\ candidates[id].created \in DOMAIN given
                         /\ given[candidates[id].created] = id
  BY <1>1 DEF Leavable, Ids
<1>3. Linked
  BY <1>2 DEF Linked
<1>4. \A c \in DOMAIN given : blessed[c] = 0
  BY <1>2
<1>5. RowsBlessed
  BY <1>2, <1>4 DEF RowsBlessed, RowBlessed
<1>6. Flight
  BY DEF Flight, Prepared, Promoting, Idle
<1>7. QED
  BY <1>3, <1>5, <1>6 DEF Blessing

\* Every step keeps the blessings.
LEMMA BlessingStep ==
  ASSUME Typed, Blessing, [Next]_vars
  PROVE  Blessing'
<1>1. SlotsOK /\ StoreOK /\ Linked /\ RowsBlessed /\ Flight
  BY DEF Typed, Blessing
<1>2. ASSUME StoreBlesses, UNCHANGED inv PROVE Blessing'
  BY <1>1, <1>2 DEF StoreBlesses, Blessing, Flight, FlyingStays, Prepared
<1>3. CASE UNCHANGED vars
  BY <1>1, <1>2, <1>3, UnchangedBlesses DEF vars
<1>4. CASE Tick
  <2>1. CASE UNCHANGED storeVars
    BY <1>1, <1>2, <1>4, <2>1, UnchangedBlesses DEF Tick
  <2>2. CASE MonthUnseen
    <3>1. /\ Follow /\ Ids' = Ids /\ UNCHANGED <<playbooks, given, blessed>>
          /\ \A id \in Ids : candidates[id].status # "open" => candidates'[id] = candidates[id]
          /\ \A id \in Ids : candidates[id].status = "open" =>
               candidates'[id].status \in {"open", "expired"}
      BY <1>1, <2>2, SweepEffect
    <3>2. \A id \in Ids' : \/ candidates'[id].status = candidates[id].status
                           \/ /\ candidates[id].status \in {"open", "expired"}
                              /\ candidates'[id].status \in {"open", "expired"}
      BY <3>1
    <3>3. PlaybooksStay
      BY <3>1 DEF PlaybooksStay
    <3>4. StoreBlesses
      BY <1>1, <3>1, <3>2, <3>3, FollowBlesses, FlyingFollows DEF StoreBlesses, FlyingStays
    <3>5. QED
      BY <1>2, <1>4, <3>4 DEF Tick
  <2>3. QED
    BY <1>4, <2>1, <2>2 DEF Tick
<1>5. ASSUME NEW p \in Slots,
             Begins(p) \/ Works(p) \/ Journals(p) \/ DerivesPairs(p) \/ Die(p)
      PROVE  Blessing'
  <2>1. OneSlot(p)
    BY <1>1, <1>5, OnlyItsSlot
  <2>2. ASSUME StoreBlesses, Prepared(inv'[p], candidates', given', playbooks') PROVE Blessing'
    BY <1>1, <2>1, <2>2, FlightStep DEF StoreBlesses, Blessing
  <2>3. ASSUME Elsewhere(p) PROVE Prepared(inv'[p], candidates', given', playbooks')
    BY <2>3 DEF Elsewhere, Prepared
  <2>4. CASE Begins(p)
    <3>1. UNCHANGED storeVars
      BY <2>4 DEF Begins, BeginCommand, BeginRecall, BeginTeach, BeginConfirm, BeginReject,
                  BeginPurge, BeginWrite, Start
    <3>2. QED
      BY <1>1, <2>2, <2>4, <3>1, UnchangedBlesses, BeginsPrepared
  <2>5. CASE Works(p)
    BY <2>2, <2>5, WorksBless
  <2>6. CASE Journals(p)
    <3>1. UNCHANGED storeVars /\ (inv'[p] = Idle \/ inv'[p].at \in {"write", "load"})
      BY <2>6, JournalsTyped
    <3>2. Elsewhere(p)
      BY <3>1 DEF Elsewhere, Promoting, Idle
    <3>3. QED
      BY <1>1, <2>2, <2>3, <3>1, <3>2, UnchangedBlesses
  <2>7. CASE DerivesPairs(p)
    BY <2>2, <2>3, <2>7, DerivesBless
  <2>8. CASE Die(p)
    <3>1. UNCHANGED storeVars /\ inv'[p] = Idle
      BY <1>1, <2>8, LeaveGood DEF Die
    <3>2. Elsewhere(p)
      BY <3>1 DEF Elsewhere, Promoting, Idle
    <3>3. QED
      BY <1>1, <2>2, <2>3, <3>1, <3>2, UnchangedBlesses
  <2>9. QED
    BY <1>5, <2>4, <2>5, <2>6, <2>7, <2>8
<1>6. QED
  BY <1>3, <1>4, <1>5 DEF Next

\* No candidate is materialised twice, none before it is confirmed, and a
\* confirmed one has its note or its family's playbook, except where the id of
\* a purged row was given again (candidates.go, "only an explicit confirm
\* materializes a payload").
THEOREM BlessedOnce == Spec => []BlessedExactlyOnce
<1>1. Typed /\ Blessing => BlessedExactlyOnce
  BY RowByRow DEF Blessing
<1>2. Typed /\ Blessing /\ [Next]_vars => Typed' /\ Blessing'
  BY TypeStep, BlessingStep
<1>3. QED
  BY <1>1, <1>2, TypeInit, BlessingInit, PTL DEF Spec
=============================================================================
