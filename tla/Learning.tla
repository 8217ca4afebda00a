------------------------------ MODULE Learning ------------------------------
(* The learning loop of the Go CLI: invocations of the command line tool,   *)
(* each a process of its own, that share the journal, its derivation cursor *)
(* and the SQLite store and hold no lock across two of their statements.    *)
(* Every invocation ends in root.go's Execute: it journals itself and, if   *)
(* it is not a learn command, derives flag corrections from the journal.    *)
EXTENDS Journal, Candidates

CONSTANTS
  Callers,      \* the sessions that run further commands
  Slots,        \* invocations that can run at the same time
  Histories,    \* the journal and the store earlier invocations left
  MaxCommands,  \* bound: invocations begun
  MaxCrashes,   \* bound: invocations killed, or entries cut short
  MaxTicks      \* bound: passages of time

ASSUME CallersAssumption == Callers \subseteq Sessions
ASSUME BoundsAssumption ==
  MaxCommands \in Nat /\ MaxCrashes \in Nat /\ MaxTicks \in Nat

(* In what earlier invocations left, every failure before the cursor was    *)
(* tried again and is recorded if that was a success, and no candidate was  *)
(* confirmed, rejected or expired yet.                                      *)
Retries(h, i) ==
  {j \in (i + 1)..Len(h.lines) : IsCommand(h.lines[j]) /\ h.lines[j].session = h.lines[i].session}

Leavable(h) ==
  /\ h.lines \in Seq(Lines)
  /\ \A i \in 1..Len(h.lines) :
       h.lines[i].era = 0 /\ h.lines[i].day = 0 /\ ~h.lines[i].late
  /\ h.offset \in 0..Len(h.lines)
  /\ h.observed \in [1..Len(h.lines) -> {0, 1}]
  /\ \A i \in 1..Len(h.lines) : i > h.offset => h.observed[i] = 0
  /\ \A i \in 1..h.offset : h.lines[i].kind = "fail" =>
       /\ Retries(h, i) # {}
       /\ \A j \in Retries(h, i) :
            (\A k \in Retries(h, i) : j <= k) /\ h.lines[j].kind = "good" =>
              h.observed[i] = 1
  /\ DOMAIN h.candidates \in SUBSET (Nat \ {0}) /\ IsFiniteSet(DOMAIN h.candidates)
  /\ h.given \in Seq(Nat \ {0})
  /\ h.blessed = [c \in DOMAIN h.given |-> 0]
  /\ \A id \in DOMAIN h.candidates :
       /\ h.candidates[id] \in Candidates
       /\ h.candidates[id].status = "open"
       /\ h.candidates[id].sig # Alias => h.candidates[id].family = h.candidates[id].sig
       /\ h.candidates[id].created \in DOMAIN h.given
       /\ h.given[h.candidates[id].created] = id
  /\ DOMAIN h.playbooks \in SUBSET Families
  /\ \A f \in DOMAIN h.playbooks : h.playbooks[f] \in Playbooks

ASSUME HistoriesAssumption == \A h \in Histories : Leavable(h)

VARIABLES
  inv,          \* slot -> the invocation in it
  begun,        \* invocations begun
  crashes,      \* invocations killed and entries cut short
  replayed      \* history: two derivation passes overlapped, or one was killed

vars == <<journalVars, storeVars, inv, begun, crashes, replayed>>

Commands == {"fail", "good", "recall", "teach", "confirm", "reject", "purge",
             "amend", "teach-playbook", "other"}
NoPayload == [steps |-> 0, notes |-> FALSE]
Choreography == [steps |-> 1, notes |-> FALSE]
NotesOnly == [steps |-> 0, notes |-> TRUE]
Beginning == [segment |-> 0, upto |-> 0]

Idle == [at |-> "idle"]
Running(p) == inv[p] # Idle
At(p, at) == inv[p].at = at
Go(p, at) == inv' = [inv EXCEPT ![p].at = at]
Leave(p) == inv' = [inv EXCEPT ![p] = Idle]

(* RunE has returned: what is left of the invocation is its journal entry.  *)
KindOf(command) == IF command \in {"fail", "good", "recall"} THEN command ELSE "other"
Returned(i) ==
  [at |-> "repair", command |-> KindOf(i.command), session |-> i.session,
   family |-> IF i.command = "recall" THEN i.family ELSE NoFamily, flag |-> FALSE,
   id |-> 0, created |-> 0, payload |-> NoPayload, todo |-> {},
   next |-> Beginning, segment |-> 0]
Finish(p) == inv' = [inv EXCEPT ![p] = Returned(@)]

Init == \E h \in Histories :
  /\ lines = h.lines /\ torn = {} /\ gone = {}
  /\ offset = [segment |-> 0, upto |-> h.offset]
  /\ clock = [day |-> 0, era |-> 0, kept |-> 0]
  /\ observed = h.observed
  /\ candidates = h.candidates /\ playbooks = h.playbooks
  /\ given = h.given /\ blessed = h.blessed
  /\ inv = [p \in Slots |-> Idle]
  /\ begun = 0 /\ crashes = 0 /\ replayed = FALSE

----------------------------------------------------------------------------
(* Starting an invocation; teach is given a playbook (upsert) or not.       *)
Start(p) ==
  /\ ~Running(p) /\ begun < MaxCommands
  /\ begun' = begun + 1
  /\ UNCHANGED <<journalVars, storeVars, crashes, replayed>>

Begin(p, command, at, session, family, flag, id) ==
  inv' = [inv EXCEPT ![p] =
    [at |-> at, command |-> command, session |-> session, family |-> family,
     flag |-> flag, id |-> id, created |-> 0, payload |-> NoPayload,
     todo |-> {}, next |-> Beginning, segment |-> 0]]

BeginCommand(p) == Start(p) /\ \E s \in Callers, outcome \in {"fail", "good"} :
  Begin(p, outcome, "repair", s, NoFamily, FALSE, 0)
BeginRecall(p) == Start(p) /\ \E s \in Callers, f \in Families :
  Begin(p, "recall", "repair", s, f, FALSE, 0)
BeginTeach(p) == Start(p) /\ \E s \in Callers, f \in Families, at \in {"upsert", "list"} :
  Begin(p, "teach", at, s, f, FALSE, 0)
BeginConfirm(p) == Start(p) /\ \E s \in Callers, id \in Ids :
  Begin(p, "confirm", "get", s, NoFamily, TRUE, id)
BeginReject(p) == Start(p) /\ \E s \in Callers, id \in Ids :
  Begin(p, "reject", "reject", s, NoFamily, FALSE, id)
BeginPurge(p) == Start(p) /\ \E s \in Callers, tombstones \in BOOLEAN :
  Begin(p, "purge", "expire", s, NoFamily, tombstones, 0)
BeginWrite(p) == Start(p) /\ \E s \in Callers, f \in Families,
                               command \in {"amend", "teach-playbook"} :
  Begin(p, command, "upsert", s, f, FALSE, 0)

----------------------------------------------------------------------------
(* The bodies of the commands, one statement at a time.                     *)
Statement(p, at) ==
  At(p, at) /\ UNCHANGED <<journalVars, begun, crashes, replayed>>

(* amend, teach-playbook with either input, and teach --playbook-json.      *)
WritePlaybook(p) ==
  /\ Statement(p, "upsert")
  /\ IF inv[p].command = "amend" THEN AppendPlaybookNotes(inv[p].family)
     ELSE \E payload \in {Choreography, NotesOnly} : UpsertPlaybook(inv[p].family, payload)
  /\ IF inv[p].command = "teach" THEN Go(p, "list") ELSE Finish(p)

(* promoteCandidateOnTeach: list, look for a playbook, then confirm with or *)
(* without materialising.  The signature admits one candidate per family.   *)
IsPromotable(id, f) ==
  candidates[id].status = "open" /\ candidates[id].sig # Alias /\ candidates[id].family = f

ListPromotable(p) ==
  /\ Statement(p, "list")
  /\ \/ /\ \A id \in Ids : ~IsPromotable(id, inv[p].family)
        /\ Go(p, "gate")
     \/ \E id \in Ids :
          /\ IsPromotable(id, inv[p].family)
          /\ inv' = [inv EXCEPT ![p].at = "look", ![p].id = id,
                                ![p].created = candidates[id].created,
                                ![p].payload = candidates[id].payload]
  /\ UNCHANGED storeVars

LookForPlaybook(p) ==
  /\ Statement(p, "look")
  /\ inv' = [inv EXCEPT ![p].at = "confirm", ![p].flag = ~HasPlaybook(inv[p].family)]
  /\ UNCHANGED storeVars

(* learnings confirm: read the row, refuse it unless it is open, and find   *)
(* the family of a correction that has none in the session's last recall.   *)
Anchor(id, session) ==
  IF candidates[id].family # NoFamily THEN candidates[id].family ELSE LastFamily(session)

Confirmable(id, session) ==
  id \in Ids /\ candidates[id].status = "open" /\ Anchor(id, session) # NoFamily

GetCandidate(p) ==
  /\ Statement(p, "get")
  /\ LET id == inv[p].id IN
     \/ /\ ~Confirmable(id, inv[p].session)
        /\ Finish(p)
     \/ /\ Confirmable(id, inv[p].session)
        /\ inv' = [inv EXCEPT ![p].at = IF IsAlias(id) THEN "note" ELSE "confirm",
                              ![p].family = Anchor(id, inv[p].session),
                              ![p].created = candidates[id].created,
                              ![p].payload = candidates[id].payload]
  /\ UNCHANGED storeVars

AfterConfirm(p) == IF inv[p].command = "teach" THEN Go(p, "gate") ELSE Finish(p)

(* confirmAndMaterializeCandidate; a refused transaction is rolled back.    *)
Confirm(p) ==
  /\ Statement(p, "confirm")
  /\ LET i == inv[p] IN
     IF i.flag
     THEN \/ ConfirmCandidateWithPlaybook(i.id, i.created, i.family, i.payload)
          \/ ~(OpenForConfirm(i.id) /\ ~IsAlias(i.id)) /\ UNCHANGED storeVars
     ELSE \/ ConfirmCandidate(i.id)
          \/ ~OpenForConfirm(i.id) /\ UNCHANGED storeVars
  /\ AfterConfirm(p)

ConfirmNote(p) ==
  /\ Statement(p, "note")
  /\ LET i == inv[p] IN
     \/ ConfirmCandidateWithPlaybookNote(i.id, i.created, i.family)
     \/ ~(OpenForConfirm(i.id) /\ IsAlias(i.id)) /\ UNCHANGED storeVars
  /\ Finish(p)

Reject(p) ==
  /\ Statement(p, "reject")
  /\ RejectCandidate(inv[p].id) \/ (~CanReject(inv[p].id) /\ UNCHANGED storeVars)
  /\ Finish(p)

Expire(p) == Statement(p, "expire") /\ ExpireCandidates /\ Go(p, "purge")
Purge(p) == Statement(p, "purge") /\ PurgeCandidates(inv[p].flag) /\ Finish(p)

(* SynthesizePlaybookCandidate: the gate, the journal, the derivation and   *)
(* the refresh are four accesses.                                           *)
Gate(p) ==
  /\ Statement(p, "gate")
  /\ IF HasPlaybook(inv[p].family) THEN Finish(p) ELSE Go(p, "episode")
  /\ UNCHANGED storeVars

ReadEpisode(p) ==
  /\ Statement(p, "episode")
  /\ LET f == inv[p].family IN
     LET s == inv[p].session IN
     \/ ~HasEpisode(f, s) /\ Finish(p)
     \/ /\ HasEpisode(f, s)
        /\ inv' = [inv EXCEPT ![p].at = "synthesize", ![p].payload = EpisodePayload(f, s)]
  /\ UNCHANGED storeVars

IsShorter(payload, id) ==
  candidates[id].status # "rejected" /\ payload.steps < candidates[id].payload.steps

Synthesize(p) ==
  /\ Statement(p, "synthesize")
  /\ LET f == inv[p].family IN
     /\ DeriveCandidate(f, f, inv[p].payload)
     /\ IF Has(f) /\ IsShorter(inv[p].payload, IdOf(f))
        THEN inv' = [inv EXCEPT ![p].at = "refresh", ![p].id = IdOf(f)]
        ELSE Finish(p)

Refresh(p) ==
  /\ Statement(p, "refresh")
  /\ RefreshPayload(inv[p].id, inv[p].payload)
  /\ Finish(p)

----------------------------------------------------------------------------
(* Execute's two deferred calls: journalInvocation, deriveFlagCorrections.  *)
Derives(p) == inv[p].command \in {"fail", "good"}
AfterJournal(p) == IF Derives(p) THEN Go(p, "load") ELSE Leave(p)

(* AppendJournalEntry chooses today's segment, and then writes to it.       *)
Repair(p) ==
  /\ At(p, "repair") /\ RepairTail(inv[p].session)
  /\ inv' = [inv EXCEPT ![p].at = "write", ![p].segment = clock.day]
  /\ UNCHANGED <<storeVars, begun, crashes, replayed>>

WriteEntry(p) ==
  /\ At(p, "write")
  /\ AppendEntry(Entry(inv[p].command, inv[p].session, inv[p].family, inv[p].segment))
  /\ AfterJournal(p)
  /\ UNCHANGED <<storeVars, begun, crashes, replayed>>

CutEntryShort(p) ==
  /\ At(p, "write") /\ crashes < MaxCrashes
  /\ TearEntry(inv[p].segment)
  /\ AfterJournal(p)
  /\ crashes' = crashes + 1
  /\ UNCHANGED <<storeVars, begun, replayed>>

Passing(p) == inv[p].at \in {"read", "observe", "store"}

LoadOffset(p) ==
  /\ At(p, "load")
  /\ inv' = [inv EXCEPT ![p].at = "read", ![p].next = offset]
  /\ replayed' = (replayed \/ \E q \in Slots \ {p} : Passing(q))
  /\ UNCHANGED <<journalVars, storeVars, begun, crashes>>

(* Nothing new: nothing to do.  A failure that may yet be corrected holds   *)
(* the whole batch.                                                         *)
ReadTail(p) ==
  LET from == inv[p].next IN
  /\ At(p, "read")
  /\ IF End(from) = from \/ Pending(from) THEN Leave(p)
     ELSE inv' = [inv EXCEPT
            ![p].at = IF Pairs(from) = {} THEN "store" ELSE "observe",
            ![p].todo = {[line |-> i, family |-> FamilyBefore(i)] : i \in Pairs(from)},
            ![p].next = End(from)]
  /\ UNCHANGED <<journalVars, storeVars, begun, crashes, replayed>>

(* The pairs of a batch are recorded in order, each in a statement.         *)
NextPair(p) ==
  CHOOSE t \in inv[p].todo : \A u \in inv[p].todo : ~Before(u.line, t.line)

Observe(p) ==
  LET pair == NextPair(p) IN
  /\ At(p, "observe")
  /\ DeriveCandidate(Alias, pair.family, NoPayload)
  /\ observed' = [observed EXCEPT ![pair.line] = @ + 1]
  /\ inv' = [inv EXCEPT ![p].at = IF inv[p].todo = {pair} THEN "store" ELSE "observe",
                        ![p].todo = @ \ {pair}]
  /\ UNCHANGED <<lines, torn, gone, offset, clock, begun, crashes, replayed>>

(* Fault: the cursor one line too far.                                      *)
StorePastEnd(p) ==
  /\ At(p, "store")
  /\ offset' = [inv[p].next EXCEPT !.upto = @ + 1]
  /\ Leave(p)
  /\ UNCHANGED <<lines, torn, gone, clock, observed, storeVars, begun, crashes, replayed>>

StoreOffset(p) ==
  /\ At(p, "store")
  /\ offset' = inv[p].next
  /\ Leave(p)
  /\ UNCHANGED <<lines, torn, gone, clock, observed, storeVars, begun, crashes, replayed>>

(* The process is killed, or the statement it is at fails (a busy database) *)
(* and ends the pass: what it did stays, what was to come is not done.      *)
Die(p) ==
  /\ Running(p) /\ crashes < MaxCrashes
  /\ Leave(p)
  /\ crashes' = crashes + 1
  /\ replayed' = (replayed \/ Passing(p))
  /\ UNCHANGED <<journalVars, storeVars, begun>>

(* No command takes a quarter of an hour, but it may be midnight in one.    *)
Tick ==
  /\ clock.day + clock.era < MaxTicks
  /\ \/ /\ \A p \in Slots : At(p, "write") => inv[p].segment = clock.day
        /\ Midnight /\ UNCHANGED storeVars
     \/ /\ \A p \in Slots : ~Running(p)
        /\ \/ LapseWindow /\ UNCHANGED storeVars
           \/ MonthPasses /\ MonthUnseen
  /\ UNCHANGED <<inv, begun, crashes, replayed>>

Begins(p) ==
  \/ BeginCommand(p) \/ BeginRecall(p) \/ BeginTeach(p) \/ BeginConfirm(p)
  \/ BeginReject(p) \/ BeginPurge(p) \/ BeginWrite(p)

Works(p) ==
  \/ WritePlaybook(p) \/ ListPromotable(p) \/ LookForPlaybook(p)
  \/ GetCandidate(p) \/ Confirm(p) \/ ConfirmNote(p)
  \/ Reject(p) \/ Expire(p) \/ Purge(p)
  \/ Gate(p) \/ ReadEpisode(p) \/ Synthesize(p) \/ Refresh(p)

Journals(p) == Repair(p) \/ WriteEntry(p) \/ CutEntryShort(p)
DerivesPairs(p) == LoadOffset(p) \/ ReadTail(p) \/ Observe(p) \/ StoreOffset(p)

Next ==
  \/ Tick
  \/ \E p \in Slots : Begins(p) \/ Works(p) \/ Journals(p) \/ DerivesPairs(p) \/ Die(p)

Spec == Init /\ [][Next]_vars

----------------------------------------------------------------------------
Places == {"upsert", "list", "look", "get", "confirm", "note", "reject", "expire",
           "purge", "gate", "episode", "synthesize", "refresh", "repair", "write",
           "load", "read", "observe", "store"}

Observations == [line : Nat \ {0}, family : Families \cup {NoFamily}]

Invocations ==
  [at : Places, command : Commands, session : Sessions,
   family : Families \cup {NoFamily}, flag : BOOLEAN, id : Nat, created : Nat,
   payload : Payloads, todo : SUBSET Observations, next : Cursors,
   segment : Nat]

(* The types of the journal, of the store and of the running invocations.   *)
TypeOK ==
  /\ JournalTypeOK
  /\ StoreTypeOK
  /\ inv \in [Slots -> Invocations \cup {Idle}]
  /\ begun \in 0..MaxCommands /\ crashes \in 0..MaxCrashes /\ replayed \in BOOLEAN

(* The cursor never passes an observation that was not made: whatever       *)
(* processes derive at once, die, store an older cursor or roll the journal *)
(* over, a corrected failure before the stored cursor was recorded          *)
(* (derive.go: "a failed pass can never skip unprocessed entries").  The    *)
(* exception are a failure and a correction written behind a later segment, *)
(* which a process does that chose its segment before midnight.             *)
NoObservationIsLost ==
  \A i \in Kept :
    /\ lines[i].kind = "fail" /\ ~lines[i].late /\ ~Unread(i, offset)
    /\ Corrected(i) /\ ~lines[NextTry(i)].late
    => observed[i] > 0

(* "Every observation is counted exactly once" (derive.go) as far as the    *)
(* code goes: no correction is counted twice unless two passes overlapped   *)
(* or one ended between its first record and its cursor.                    *)
CountedOnceUnlessReplayed ==
  replayed \/ \A i \in DOMAIN observed : observed[i] <= 1

(* The id of a purged row was given to another candidate since.             *)
IdIsReused(c) == \E d \in DOMAIN given : d # c /\ given[d] = given[c]

(* Blessing a candidate materialises it exactly once, with confirm and      *)
(* teach's promotion racing each other and reject, purge and synthesis: none*)
(* is materialised twice, none before it is confirmed, and a confirmed one  *)
(* has its note or its family's playbook.  A candidate whose id was given   *)
(* again is the exception: confirm compares no more than the id.            *)
BlessedExactlyOnce ==
  /\ \A c \in DOMAIN given : IdIsReused(c) \/ blessed[c] <= 1
  /\ \A id \in Ids :
       LET row == candidates[id] IN
       IdIsReused(row.created) \/
         CASE row.status \in {"open", "expired"} -> blessed[row.created] = 0
           [] row.status = "confirmed" ->
                IF row.sig = Alias THEN blessed[row.created] = 1 ELSE HasPlaybook(row.family)
           [] OTHER -> TRUE

(* A tombstone holds: from the rejection on nothing touches the row - no    *)
(* sighting, no confirmation read before it, no refresh of its payload, no  *)
(* sweep - until purge --tombstones deletes it.                             *)
TombstonesHold ==
  [][\A id \in Ids : candidates[id].status = "rejected" =>
       \/ id \in DOMAIN candidates' /\ candidates'[id] = candidates[id]
       \/ \E p \in Slots : At(p, "purge") /\ inv[p].flag]_vars
=============================================================================
