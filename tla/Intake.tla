------------------------------- MODULE Intake -------------------------------
(***************************************************************************)
(* Forms reach the core two ways: POSTed to routers/intake.py under an     *)
(* idempotency key, and in batches by apps/etl forms_orchestrator.py.      *)
(* Both call process_adoption_payload or process_facilitation_payload.     *)
(*                                                                         *)
(* A request is one transaction: it claims its key, finds or inserts the   *)
(* contact, writes the form and stores the answer with the key; only the   *)
(* commit shows any of it.  An insert whose unique value another           *)
(* transaction has inserted waits for that transaction to end.  No         *)
(* transaction commits a pending key: neither the 409 answer nor the purge *)
(* of stuck keys is ever reached, and both are left out.                   *)
(*                                                                         *)
(* A client repeats its form under the same key until it gets an answer    *)
(* other than a 500.  The forms site writes what it posts to its own       *)
(* database as well, and nothing tells the import what was posted.  The    *)
(* write to the contact's status for a form that selects no people group   *)
(* is in MatchDecision; deletion in ContactImport.                         *)
(***************************************************************************)
EXTENDS Integers, Sequences, FiniteSets

CONSTANTS
  Forms,      \* bodies: what is POSTed, and the rows of the forms database
  EmailOf,    \* EmailOf[f]
  KindOf,     \* KindOf[f]: "adopter" or "facilitator"
  Known,      \* forms all of whose people_id3 codes are in fpg
  Clients,
  FormOf,     \* FormOf[c]: the form client c sends
  IdOf,       \* IdOf[c]: the idempotency key, together with the API key, it sends it under
  ApiKeyOf,   \* ApiKeyOf[i]: the API key of idempotency key i
  DbIssued,   \* API keys that are intake_api_key rows, not environment entries
  Rows,       \* the forms database, in created_at order
  BatchSize,
  None,
  MaxEvents,  \* bound on failures, lost answers, purged keys and blocks, together
  MaxImports, \* bound on import runs
  MaxInAll    \* bound on all of these

Emails == {EmailOf[f] : f \in Forms}
Ids == {IdOf[c] : c \in Clients}
Kinds == {KindOf[f] : f \in Forms}

ASSUME IntakeAssumption ==
  /\ KindOf \in [Forms -> {"adopter", "facilitator"}] /\ DOMAIN EmailOf = Forms /\ Known \subseteq Forms
  /\ FormOf \in [Clients -> Forms] /\ DOMAIN IdOf = Clients /\ DOMAIN ApiKeyOf = Ids
  /\ Rows \in Seq(Forms) /\ \A m, n \in DOMAIN Rows : Rows[m] = Rows[n] => m = n
  /\ BatchSize \in Nat \ {0}
  /\ {MaxEvents, MaxImports, MaxInAll} \subseteq Nat
  /\ None \notin Forms \cup Emails

VARIABLES
  contacts,  \* contacts[e], for the contacts that exist
  written,   \* written[f]: times the interests and consents of f were written
  stopped,   \* stopped[f]: submissions_blocked rows of f
  welcomes,  \* welcomes[e]: contact.submitted events in the outbox
  brought,   \* brought[f]: of written[f] and stopped[f], those by an import (history)
  keys,      \* api_idempotency_keys: keys[i], all completed
  requests,  \* requests[c]: locals of the request of client c
  answers,   \* answers[c]: the answer client c got
  import,    \* locals of forms-etl
  conflicts, \* migration_conflicts: forms
  purged,    \* keys purged, with what they held (history)
  events, imports

tables == <<contacts, written, stopped, welcomes, brought>>
counters == <<events, imports>>
vars == <<tables, keys, requests, answers, import, conflicts, purged, counters>>

(* dne: the kinds whose status is do_not_engage.  by: the form that made the
   contact; for one made by an import it is the contact's source_id.        *)
Contact == [by : Forms, imported : BOOLEAN, dne : SUBSET Kinds, profile : BOOLEAN]

(* nth: which writing of the form an answer tells of, for submission_id *)
Accepted(n) == [code |-> 201, nth |-> n]
Refused == [code |-> 400]
Conflict == [code |-> 422]
Failed == [code |-> 500]

Idle == [pc |-> "idle"]
NoImport == [pc |-> "idle"]

Init ==
  /\ contacts = <<>>
  /\ written = [f \in Forms |-> 0] /\ stopped = [f \in Forms |-> 0]
  /\ welcomes = [e \in Emails |-> 0] /\ brought = [f \in Forms |-> 0]
  /\ keys = <<>>
  /\ requests = [c \in Clients |-> Idle] /\ answers = [c \in Clients |-> None]
  /\ import = NoImport /\ conflicts = {} /\ purged = {}
  /\ events = 0 /\ imports = 0

With(f, x, v) == [y \in DOMAIN f \cup {x} |-> IF y = x THEN v ELSE f[y]]

-----------------------------------------------------------------------------
(* What transactions hold until they end *)

(* The update of last_used_at locks the row of the API key. *)
HoldsApiKey(a) ==
  \E c \in Clients : ApiKeyOf[IdOf[c]] = a /\ requests[c].pc \in {"claim", "find", "put", "commit"}

HoldsId(i) == \E c \in Clients : IdOf[c] = i /\ requests[c].pc \in {"find", "put", "commit"}

(* uq_contacts_email_normalized: who inserted e and has not committed. *)
InsertedByRequest(e) ==
  \E c \in Clients : /\ EmailOf[FormOf[c]] = e
                     /\ requests[c].pc = "commit" /\ requests[c].created

Importing == import.pc # "idle"
InsertedByImport(e) == Importing /\ e \in DOMAIN import.contacts

-----------------------------------------------------------------------------
(* process_adoption_payload, process_facilitation_payload *)

(* Only the status of the form's own kind stops it. *)
IsBlocked(f, contact) == KindOf[f] \in contact.dne

(* The block list is looked at first, then the people groups. *)
Outcome(f, contact) ==
  IF IsBlocked(f, contact) THEN "blocked"
  ELSE IF f \in Known THEN "accepted" ELSE "refused"

(* Mutant: posted forms pass on the source_system of imported ones. *)
AlwaysImported(f, imported) == [by |-> f, imported |-> TRUE, dne |-> {}, profile |-> FALSE]

NewContact(f, imported) == [by |-> f, imported |-> imported, dne |-> {}, profile |-> FALSE]

(* contact, with the profile a transaction may have inserted for it *)
Profiled(contact, added) == [by |-> contact.by, imported |-> contact.imported,
                             dne |-> contact.dne, profile |-> contact.profile \/ added]

-----------------------------------------------------------------------------
(* A request *)

Goto(c, locals) ==
  /\ requests' = [requests EXCEPT ![c] = locals]
  /\ UNCHANGED <<tables, keys, answers, import, conflicts, purged, counters>>

(* The client: first, and again after a 500, a lost answer or no answer. *)
Send(c) ==
  /\ requests[c].pc = "idle" /\ answers[c] = None
  /\ Goto(c, [pc |-> "authenticate"])

(* _authenticate *)
Authenticate(c) ==
  /\ requests[c].pc = "authenticate"
  /\ ApiKeyOf[IdOf[c]] \in DbIssued => ~HoldsApiKey(ApiKeyOf[IdOf[c]])
  /\ Goto(c, [pc |-> "claim"])

(* Mutant: no unique constraint on the key. *)
ClaimAtOnce(c) == TRUE

(* The insert waits for a transaction that has inserted the same key. *)
MayClaim(c) == ~HoldsId(IdOf[c])

(* _claim_idempotency_key: on a collision the transaction is rolled back,
   and the winner is looked up in a new one.                             *)
Claim(c) ==
  /\ requests[c].pc = "claim" /\ MayClaim(c)
  /\ Goto(c, [pc |-> IF IdOf[c] \in DOMAIN keys THEN "lookup" ELSE "find"])

(* Mutant: whatever body the key was used with. *)
AnyBody(c, row) == TRUE

SameBody(c, row) == row.form = FormOf[c]

(* Mutant: the transaction that failed is not rolled back first. *)
NoReplay(c) == Failed

Replay(c) ==
  IF IdOf[c] \notin DOMAIN keys THEN Failed
  ELSE IF SameBody(c, keys[IdOf[c]]) THEN keys[IdOf[c]].answer ELSE Conflict

Lookup(c) ==
  /\ requests[c].pc = "lookup"
  /\ Goto(c, [pc |-> "answer", answer |-> Replay(c)])

(* _resolve_contact: the select; the session keeps the contact as it read it. *)
Find(c) ==
  LET e == EmailOf[FormOf[c]] IN
  /\ requests[c].pc = "find"
  /\ Goto(c, [pc |-> "put", created |-> e \notin DOMAIN contacts,
              contact |-> IF e \in DOMAIN contacts THEN contacts[e] ELSE NewContact(FormOf[c], FALSE)])

(* The insert of the contact, and what the form writes beside it.  Nobody
   handles the unique violation: it ends the request with a 500.         *)
Put(c) ==
  LET f == FormOf[c]
      e == EmailOf[f]
      req == requests[c]
      outcome == Outcome(f, req.contact)
  IN
  /\ req.pc = "put"
  /\ req.created => ~InsertedByRequest(e) /\ ~InsertedByImport(e)
  /\ Goto(c, IF req.created /\ e \in DOMAIN contacts THEN [pc |-> "answer", answer |-> Failed]
             ELSE [pc |-> "commit", created |-> req.created, outcome |-> outcome,
                   addsProfile |-> /\ outcome = "accepted"
                                   /\ req.created \/ ~contacts[e].profile])

(* Mutant: every accepted adoption form is announced as a new sign-up. *)
AlwaysWelcome(f, created) == KindOf[f] = "adopter"

(* contact.submitted, for the adopters a form brings in *)
Welcomes(f, created) == KindOf[f] = "adopter" /\ created

(* _finalize_idempotency_key and the commit, whose flush inserts the profile;
   a second one for the contact fails.                                      *)
Commit(c) ==
  LET f == FormOf[c]
      e == EmailOf[f]
      req == requests[c]
      contact == IF req.created THEN NewContact(f, FALSE) ELSE contacts[e]
      collides == req.addsProfile /\ contact.profile
      answer == IF req.outcome = "refused" THEN Refused
                ELSE Accepted(written[f] + stopped[f] + 1)
  IN
  /\ req.pc = "commit"
  /\ req.addsProfile => ~(Importing /\ e \in import.profiles)
  /\ requests' = [requests EXCEPT ![c] =
       [pc |-> "answer", answer |-> IF collides THEN Failed ELSE answer]]
  /\ IF collides THEN UNCHANGED <<tables, keys>>
     ELSE /\ contacts' = With(contacts, e, Profiled(contact, req.addsProfile))
          /\ written' = [written EXCEPT ![f] = @ + (IF req.outcome = "accepted" THEN 1 ELSE 0)]
          /\ stopped' = [stopped EXCEPT ![f] = @ + (IF req.outcome = "blocked" THEN 1 ELSE 0)]
          /\ welcomes' = [welcomes EXCEPT ![e] =
               @ + (IF req.outcome = "accepted" /\ Welcomes(f, req.created) THEN 1 ELSE 0)]
          /\ keys' = With(keys, IdOf[c], [form |-> f, answer |-> answer])
          /\ UNCHANGED brought
  /\ UNCHANGED <<answers, import, conflicts, purged, counters>>

(* A 500 tells the client as much as no answer. *)
Answer(c) ==
  /\ requests[c].pc = "answer"
  /\ answers' = [answers EXCEPT ![c] =
       IF requests[c].answer = Failed THEN None ELSE requests[c].answer]
  /\ requests' = [requests EXCEPT ![c] = Idle]
  /\ UNCHANGED <<tables, keys, import, conflicts, purged, counters>>

Event == /\ events < MaxEvents /\ events + imports < MaxInAll
         /\ events' = events + 1 /\ UNCHANGED imports

(* The answer is lost, or the process or its connection is, and the
   transaction with it.                                             *)
Lose(c) ==
  /\ requests[c].pc # "idle" /\ Event
  /\ requests' = [requests EXCEPT ![c] = Idle]
  /\ UNCHANGED <<tables, keys, answers, import, conflicts, purged>>

(* purge_idempotency_keys: rows past their 24 hours. *)
Purge(i) ==
  /\ i \in DOMAIN keys /\ Event
  /\ keys' = [j \in DOMAIN keys \ {i} |-> keys[j]]
  /\ purged' = purged \cup {[id |-> i, row |-> keys[i]]}
  /\ UNCHANGED <<tables, requests, answers, import, conflicts>>

(* A member of staff moves the contact to do_not_engage. *)
Disengage(e, kind) ==
  /\ e \in DOMAIN contacts /\ Event
  /\ contacts' = [contacts EXCEPT ![e].dne = @ \cup {kind}]
  /\ UNCHANGED <<written, stopped, welcomes, brought, keys, requests, answers, import, conflicts, purged>>

-----------------------------------------------------------------------------
(* forms-etl.  import holds what the open transaction wrote. *)

(* A batch with nothing written yet; created and contact are the row's locals. *)
Batch(n, seen) ==
  [pc |-> "find", next |-> n, seen |-> seen, created |-> FALSE, contact |-> None,
   contacts |-> <<>>, profiles |-> {}, written |-> {}, stopped |-> {}, conflicts |-> {}, pending |-> 0]

(* Mutant: the rows imported before are not loaded. *)
NothingImported == {}

(* _load_imported_source_ids: of contacts, so rows that made one. *)
ImportedBefore == {contacts[e].by : e \in {x \in DOMAIN contacts : contacts[x].imported}}

(* The rows newer than a watermark an operator gives. *)
StartImport ==
  /\ ~Importing /\ imports < MaxImports /\ events + imports < MaxInAll
  /\ imports' = imports + 1
  /\ \E n \in DOMAIN Rows : import' = Batch(n, ImportedBefore)
  /\ UNCHANGED <<tables, keys, requests, answers, conflicts, purged, events>>

ImportOnly == UNCHANGED <<tables, keys, requests, answers, conflicts, purged, counters>>

HasRow == Importing /\ import.next \in DOMAIN Rows
Row == Rows[import.next]
Visible == [e \in DOMAIN contacts \cup DOMAIN import.contacts |->
              IF e \in DOMAIN contacts THEN contacts[e] ELSE import.contacts[e]]

SkipRow ==
  /\ import.pc = "find" /\ HasRow /\ Row \in import.seen
  /\ import' = [import EXCEPT !.next = import.next + 1]
  /\ ImportOnly

(* _import_one: the select *)
FindRow ==
  LET e == EmailOf[Row] IN
  /\ import.pc = "find" /\ HasRow /\ Row \notin import.seen
  /\ import' = [import EXCEPT !.pc = "put", !.created = e \notin DOMAIN Visible,
                 !.contact = IF e \in DOMAIN Visible THEN Visible[e] ELSE NewContact(Row, TRUE)]
  /\ ImportOnly

Also(S, x, cond) == IF cond THEN S \cup {x} ELSE S

RowOutcome ==
  IF import.created /\ EmailOf[Row] \in DOMAIN contacts THEN "refused" ELSE Outcome(Row, import.contact)

(* The batch after a row.  What fails in its savepoint is a conflict row, and
   every row counts towards the next commit.                                 *)
AfterRow(outcome, addsProfile) ==
  [import EXCEPT
     !.pc = IF import.pending + 1 = BatchSize THEN "commit" ELSE "find",
     !.next = import.next + 1, !.pending = import.pending + 1,
     !.created = FALSE, !.contact = None,
     !.contacts = IF outcome # "refused" /\ import.created
                  THEN With(import.contacts, EmailOf[Row], import.contact) ELSE import.contacts,
     !.profiles = Also(import.profiles, EmailOf[Row], addsProfile),
     !.seen = Also(import.seen, Row, outcome = "accepted"),
     !.written = Also(import.written, Row, outcome = "accepted"),
     !.stopped = Also(import.stopped, Row, outcome = "blocked"),
     !.conflicts = Also(import.conflicts, Row, outcome = "refused")]

(* _apply_profile: the select.  A profile it adds is inserted by a later flush;
   nobody else can have one for a contact that this batch makes.             *)
PutRow ==
  LET e == EmailOf[Row]
      adds == RowOutcome = "accepted" /\ (import.created \/ ~(Visible[e].profile \/ e \in import.profiles))
  IN
  /\ import.pc = "put"
  /\ import.created => ~InsertedByRequest(e)
  /\ import' = IF adds /\ ~import.created THEN [import EXCEPT !.pc = "flush"] ELSE AfterRow(RowOutcome, adds)
  /\ ImportOnly

(* The flush: a profile that a request has committed since fails the row. *)
FlushRow ==
  LET late == EmailOf[Row] \in DOMAIN contacts /\ contacts[EmailOf[Row]].profile IN
  /\ import.pc = "flush"
  /\ import' = AfterRow(IF late THEN "refused" ELSE "accepted", ~late)
  /\ ImportOnly

(* The commit of a batch, or of the end. *)
CommitRows ==
  /\ import.pc = "commit" \/ (import.pc = "find" /\ ~HasRow)
  /\ contacts' = [e \in DOMAIN Visible |-> Profiled(Visible[e], e \in import.profiles)]
  /\ written' = [f \in Forms |-> written[f] + (IF f \in import.written THEN 1 ELSE 0)]
  /\ stopped' = [f \in Forms |-> stopped[f] + (IF f \in import.stopped THEN 1 ELSE 0)]
  /\ brought' = [f \in Forms |-> brought[f] + (IF f \in import.written \cup import.stopped THEN 1 ELSE 0)]
  /\ conflicts' = conflicts \cup import.conflicts
  /\ import' = IF HasRow THEN Batch(import.next, import.seen) ELSE NoImport
  /\ UNCHANGED <<welcomes, keys, requests, answers, purged, counters>>

(* The process or its connection goes, and the open batch with it. *)
AbortImport ==
  /\ Importing /\ Event
  /\ import' = NoImport
  /\ UNCHANGED <<tables, keys, requests, answers, conflicts, purged>>

-----------------------------------------------------------------------------
RequestStep(c) == Authenticate(c) \/ Claim(c) \/ Lookup(c) \/ Find(c) \/ Put(c) \/ Commit(c) \/ Answer(c)
ImportStep == SkipRow \/ FindRow \/ PutRow \/ FlushRow \/ CommitRows

Next == \/ \E c \in Clients : Send(c) \/ RequestStep(c) \/ Lose(c)
        \/ \E i \in Ids : Purge(i)
        \/ \E e \in Emails, kind \in Kinds : Disengage(e, kind)
        \/ StartImport \/ ImportStep \/ AbortImport

(* Clients repeat, and requests and imports that have begun go on. *)
Fairness == /\ \A c \in Clients : WF_vars(Send(c)) /\ WF_vars(RequestStep(c))
            /\ WF_vars(ImportStep)

Spec == Init /\ [][Next]_vars
FairSpec == Spec /\ Fairness

-----------------------------------------------------------------------------
(* Rows and locals are well formed; a contact an import made bears the id of
   a row of the forms database.                                             *)
TypeOK ==
  /\ DOMAIN contacts \subseteq Emails /\ \A e \in DOMAIN contacts : contacts[e] \in Contact
  /\ \A e \in DOMAIN contacts :
       contacts[e].imported => \E n \in DOMAIN Rows : contacts[e].by = Rows[n]
  /\ {written, stopped, brought} \subseteq [Forms -> Nat] /\ welcomes \in [Emails -> Nat]
  /\ DOMAIN keys \subseteq Ids /\ \A i \in DOMAIN keys : keys[i].form \in Forms
  /\ \A c \in Clients : requests[c].pc \in
       {"idle", "authenticate", "claim", "lookup", "find", "put", "commit", "answer"}
  /\ import.pc \in {"idle", "find", "put", "flush", "commit"}
  /\ conflicts \subseteq Forms

Promises(f, rows) == {x \in rows : x.row.form = f /\ x.row.answer.code = 201}
Now == {[id |-> i, row |-> keys[i]] : i \in DOMAIN keys}

(* Requests write a form once for every key it was accepted under, and once
   more only when a purge has taken the key: whatever raced, failed or was
   repeated, a key without its writing, or a writing without its key, is never
   left behind.  An import writes a row once in a run, however many batches
   fail, and in one run only if the row made its contact.  A row whose contact
   was there before, as a posted form's is, is written again by every run
   that reads it: what it was posted under is not looked up.                  *)
EffectsMatchKeys ==
  /\ \A f \in Forms :
       /\ written[f] + stopped[f] =
            Cardinality(Promises(f, Now)) + Cardinality(Promises(f, purged)) + brought[f]
       /\ brought[f] <= imports
  /\ \A e \in DOMAIN contacts : contacts[e].imported => brought[contacts[e].by] = 1

(* What a client was told is what its key says, or said when it was purged:
   no answer outlives the work it tells of, and no client gets the answer
   to another body.                                                        *)
AnswersAreKept ==
  \A c \in Clients : answers[c] \notin {None, Conflict} =>
    [id |-> IdOf[c], row |-> [form |-> FormOf[c], answer |-> answers[c]]] \in Now \cup purged

(* A sign-up is welcomed once, and only if a form sent by its person made the
   contact: not by an import, and not again by a later or a repeated form.    *)
WelcomedOnce ==
  \A e \in Emails : welcomes[e] > 0 =>
    welcomes[e] = 1 /\ e \in DOMAIN contacts /\ ~contacts[e].imported

(* Every client gets an answer it can rely on: no request waits for ever, and
   no failure leaves a key that turns the repeated form away.                *)
FormsAreAnswered == \A c \in Clients : <>(answers[c] # None)
=============================================================================
