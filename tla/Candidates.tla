----------------------------- MODULE Candidates -----------------------------
(* The learn_candidates and learning_playbooks tables of the Go CLI's       *)
(* SQLite store (internal/store/candidates.go, playbooks.go).  Every        *)
(* operator below is one SQL transaction: the store is opened with          *)
(* _txlock=immediate, so the transactions of several processes are serial.  *)
(*                                                                          *)
(* A candidate is known by its id and by its derivation signature.  One     *)
(* flag correction is enough for what the properties tell apart (its        *)
(* signature is Alias); a playbook candidate's signature is its family.     *)
(* A payload is the number of steps of its choreography and whether it has  *)
(* notes.  A playbook is never deleted by any command.                      *)
EXTENDS QueryFamilies, Naturals, Sequences

CONSTANT Alias   \* the derivation signature of the flag correction

ASSUME AliasAssumption == Alias \notin Families

VARIABLES
  candidates,   \* id -> row of learn_candidates
  playbooks,    \* family -> row of learning_playbooks
  given,        \* history: the id each inserted candidate was given, in order
  blessed       \* history: how often each inserted candidate was materialised

storeVars == <<candidates, playbooks, given, blessed>>

Signatures == Families \cup {Alias}
Statuses == {"open", "confirmed", "rejected", "expired"}
Payloads == [steps : Nat, notes : BOOLEAN]
Candidates == [sig : Signatures, family : Families \cup {NoFamily},
               payload : Payloads, status : Statuses, sightings : Nat \ {0},
               unseen : BOOLEAN, created : Nat \ {0}]
Playbooks == [steps : Nat, notes : SUBSET {"text", "correction"}]

Ids == DOMAIN candidates
HasPlaybook(f) == f \in DOMAIN playbooks
Has(sig) == \E id \in Ids : candidates[id].sig = sig
IdOf(sig) == CHOOSE id \in Ids : candidates[id].sig = sig

(* id INTEGER PRIMARY KEY without AUTOINCREMENT: one more than the largest  *)
(* id in the table, so that the id of a purged row is given again.          *)
FreshId == IF Ids = {} THEN 1
           ELSE 1 + CHOOSE id \in Ids : \A other \in Ids : other <= id

Put(id, row) == [i \in Ids \cup {id} |-> IF i = id THEN row ELSE candidates[i]]

(* Fault: the upsert without its WHERE clause reopens a tombstone.          *)
SightedAnyway(row) ==
  [row EXCEPT !.sightings = @ + 1,
              !.status = IF @ = "confirmed" THEN @ ELSE "open",
              !.unseen = FALSE]

(* One more sighting of a stored signature; a rejected row is a tombstone.  *)
Sighted(row) ==
  IF row.status = "rejected" THEN row
  ELSE [row EXCEPT !.sightings = @ + 1,
                   !.status = IF @ = "expired" THEN "open" ELSE @,
                   !.unseen = FALSE]

Insert(sig, family, payload) ==
  /\ candidates' = Put(FreshId, [sig |-> sig, family |-> family,
                                 payload |-> payload, status |-> "open",
                                 sightings |-> 1, unseen |-> FALSE,
                                 created |-> Len(given) + 1])
  /\ given' = Append(given, FreshId)
  /\ blessed' = Append(blessed, 0)

DeriveCandidate(sig, family, payload) ==
  /\ IF Has(sig)
     THEN /\ candidates' = Put(IdOf(sig), Sighted(candidates[IdOf(sig)]))
          /\ UNCHANGED <<given, blessed>>
     ELSE Insert(sig, family, payload)
  /\ UNCHANGED playbooks

(* An empty choreography or empty notes leave the stored column alone;      *)
(* notes that are not empty replace the stored ones, corrections included.  *)
PutPlaybook(f, row) ==
  playbooks' = [g \in DOMAIN playbooks \cup {f} |->
                  IF g = f THEN row ELSE playbooks[g]]

Written(payload) == IF payload.notes THEN {"text"} ELSE {}

UpsertPlaybookRow(f, payload) ==
  IF HasPlaybook(f)
  THEN PutPlaybook(f,
         [steps |-> IF payload.steps # 0 THEN payload.steps ELSE playbooks[f].steps,
          notes |-> IF payload.notes THEN Written(payload) ELSE playbooks[f].notes])
  ELSE PutPlaybook(f, [steps |-> payload.steps, notes |-> Written(payload)])

AppendNoteRow(f, note) ==
  IF HasPlaybook(f)
  THEN PutPlaybook(f, [playbooks[f] EXCEPT !.notes = @ \cup {note}])
  ELSE PutPlaybook(f, [steps |-> 0, notes |-> {note}])

UpsertPlaybook(f, payload) ==
  UpsertPlaybookRow(f, payload) /\ UNCHANGED <<candidates, given, blessed>>

AppendPlaybookNotes(f) ==
  AppendNoteRow(f, "text") /\ UNCHANGED <<candidates, given, blessed>>

(* Fault: the transaction relies on the status the caller has read.         *)
StillThere(id) == id \in Ids /\ candidates[id].status # "rejected"

(* getOpenCandidateForConfirmTx: the row is read again, by id, inside the   *)
(* transaction; its signature and payload are not compared.                 *)
OpenForConfirm(id) == id \in Ids /\ candidates[id].status = "open"
IsAlias(id) == candidates[id].sig = Alias
MarkConfirmed(id) == candidates' = [candidates EXCEPT ![id].status = "confirmed"]

ConfirmCandidate(id) ==
  OpenForConfirm(id) /\ MarkConfirmed(id) /\ UNCHANGED <<playbooks, given, blessed>>

(* The payload and the family are those of the row the caller read before   *)
(* the transaction; created names that row.                                 *)
ConfirmCandidateWithPlaybook(id, created, f, payload) ==
  /\ OpenForConfirm(id)
  /\ ~IsAlias(id)
  /\ UpsertPlaybookRow(f, payload)
  /\ MarkConfirmed(id)
  /\ blessed' = [blessed EXCEPT ![created] = @ + 1]
  /\ UNCHANGED given

ConfirmCandidateWithPlaybookNote(id, created, f) ==
  /\ OpenForConfirm(id)
  /\ IsAlias(id)
  /\ AppendNoteRow(f, "correction")
  /\ MarkConfirmed(id)
  /\ blessed' = [blessed EXCEPT ![created] = @ + 1]
  /\ UNCHANGED given

CanReject(id) ==
  /\ id \in Ids
  /\ candidates[id].status # "rejected"
  /\ ~(candidates[id].status = "confirmed" /\ IsAlias(id))

RejectCandidate(id) ==
  /\ CanReject(id)
  /\ candidates' = [candidates EXCEPT ![id].status = "rejected"]
  /\ UNCHANGED <<playbooks, given, blessed>>

ExpireCandidates ==
  /\ candidates' = [id \in Ids |->
       IF candidates[id].status = "open" /\ candidates[id].unseen
       THEN [candidates[id] EXCEPT !.status = "expired"] ELSE candidates[id]]
  /\ UNCHANGED <<playbooks, given, blessed>>

Purged(tombstones) ==
  {"expired", "confirmed"} \cup (IF tombstones THEN {"rejected"} ELSE {})

PurgeCandidates(tombstones) ==
  /\ candidates' = [id \in {i \in Ids : candidates[i].status \notin Purged(tombstones)} |->
                      candidates[id]]
  /\ UNCHANGED <<playbooks, given, blessed>>

(* refreshShorterSynthesis writes the payload of an open row past the API.  *)
RefreshPayload(id, payload) ==
  /\ candidates' = IF OpenForConfirm(id)
                   THEN [candidates EXCEPT ![id].payload = payload] ELSE candidates
  /\ UNCHANGED <<playbooks, given, blessed>>

(* Thirty days pass: nothing open has been seen since.                      *)
MonthUnseen ==
  /\ candidates' = [id \in Ids |->
       IF candidates[id].status = "open"
       THEN [candidates[id] EXCEPT !.unseen = TRUE] ELSE candidates[id]]
  /\ UNCHANGED <<playbooks, given, blessed>>

StoreTypeOK ==
  /\ DOMAIN candidates \subseteq Nat \ {0}
  /\ \A id \in Ids : candidates[id] \in Candidates
  /\ DOMAIN playbooks \subseteq Families
  /\ \A f \in DOMAIN playbooks : playbooks[f] \in Playbooks
  /\ given \in Seq(Nat \ {0})
  /\ blessed \in Seq(Nat)
=============================================================================
