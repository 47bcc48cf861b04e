---------------------------- MODULE Intake_proofs ----------------------------
(***************************************************************************)
(* Proofs about Intake, for any set of clients, forms, idempotency keys    *)
(* and API keys, any forms database and batch size, from IntakeAssumption  *)
(* alone.                                                                  *)
(***************************************************************************)
EXTENDS Intake, FiniteSetTheorems, TLAPS

ImportedForms == {Rows[n] : n \in DOMAIN Rows}

LEMMA RowsAreForms ==
  /\ ImportedForms \subseteq Forms
  /\ \A n \in DOMAIN Rows : Rows[n] \in ImportedForms /\ n \in Nat
  /\ \A m, n \in DOMAIN Rows : Rows[m] = Rows[n] => m = n
  /\ \A c \in Clients : FormOf[c] \in Forms
<1>1. Rows \in Seq(Forms) /\ \A m, n \in DOMAIN Rows : Rows[m] = Rows[n] => m = n
  BY IntakeAssumption DEF IntakeAssumption
<1>2. \A n \in DOMAIN Rows : Rows[n] \in Forms /\ n \in Nat
  BY <1>1
<1> QED BY <1>1, <1>2, IntakeAssumption DEF IntakeAssumption, ImportedForms

-----------------------------------------------------------------------------
(* Types *)

Subject(c) == EmailOf[FormOf[c]]

Answers == {Accepted(n) : n \in Nat} \cup {Refused}
Outcomes == {"blocked", "accepted", "refused"}

(* A contact row of e-mail e *)
Made(e, row) ==
  row \in Contact /\ EmailOf[row.by] = e /\ (row.imported => row.by \in ImportedForms)

Types ==
  /\ DOMAIN contacts \subseteq Emails /\ \A e \in DOMAIN contacts : Made(e, contacts[e])
  /\ written \in [Forms -> Nat] /\ stopped \in [Forms -> Nat] /\ welcomes \in [Emails -> Nat]
  /\ brought \in [Forms -> Nat]
  /\ DOMAIN keys \subseteq Ids /\ IsFiniteSet(Now) /\ IsFiniteSet(purged)
  /\ \A i \in DOMAIN keys : keys[i] \in [form : Forms, answer : Answers]
  /\ conflicts \subseteq Forms
  /\ DOMAIN requests = Clients /\ DOMAIN answers = Clients

(* Locals of a request; one that found its contact has it still. *)
LocalsOK(q, known) ==
  /\ q.pc \in {"idle", "authenticate", "claim", "lookup", "find", "put", "commit", "answer"}
  /\ q.pc \in {"put", "commit"} =>
       q.created \in BOOLEAN /\ (~q.created => known)
  /\ q.pc = "commit" => q.outcome \in Outcomes /\ q.addsProfile \in BOOLEAN

RequestOK(c) == LocalsOK(requests[c], Subject(c) \in DOMAIN contacts)

ImportFields == {"pc", "next", "seen", "created", "contact", "contacts", "profiles", "written",
                 "stopped", "conflicts", "pending"}

(* Locals of the import *)
ImportOK ==
  /\ import.pc \in {"idle", "find", "put", "flush", "commit"}
  /\ Importing =>
       /\ DOMAIN import = ImportFields /\ import.next \in Nat
       /\ DOMAIN import.contacts \subseteq Emails
       /\ \A e \in DOMAIN import.contacts :
            Made(e, import.contacts[e]) /\ import.contacts[e].imported
       /\ import.written \subseteq ImportedForms /\ import.stopped \subseteq ImportedForms
       /\ import.conflicts \subseteq ImportedForms
  /\ import.pc \in {"put", "flush"} =>
       /\ import.next \in DOMAIN Rows /\ import.created \in BOOLEAN
       /\ import.created => import.contact = NewContact(Row, TRUE)
       /\ ~import.created => EmailOf[Row] \in DOMAIN contacts \cup DOMAIN import.contacts
  /\ import.pc = "flush" => ~import.created

TypeInv == Types /\ (\A c \in Clients : RequestOK(c)) /\ ImportOK

LEMMA SubjectsAreEmails ==
  /\ \A c \in Clients : FormOf[c] \in Forms /\ Subject(c) \in Emails /\ IdOf[c] \in Ids
  /\ \A n \in DOMAIN Rows : EmailOf[Rows[n]] \in Emails
BY RowsAreForms DEF Subject, Emails, Ids

LEMMA GotoStep ==
  ASSUME TypeInv, NEW c \in Clients, NEW x, Goto(c, x)
  PROVE  /\ requests'[c] = x /\ \A d \in Clients \ {c} : requests'[d] = requests[d]
         /\ DOMAIN requests' = Clients
         /\ UNCHANGED <<tables, keys, answers, import, conflicts, purged, counters>>
BY DEF Goto, TypeInv, Types

LEMMA NewContactsAreTyped ==
  ASSUME NEW f \in Forms, NEW b \in BOOLEAN, b => f \in ImportedForms
  PROVE  Made(EmailOf[f], NewContact(f, b)) /\ NewContact(f, b).imported = b
BY DEF Made, NewContact, Contact

LEMMA ProfiledIsTyped ==
  ASSUME NEW e, NEW row, Made(e, row), NEW b \in BOOLEAN
  PROVE  /\ Made(e, Profiled(row, b)) /\ Profiled(row, b).imported = row.imported
         /\ Profiled(row, b).by = row.by
BY DEF Made, Profiled, Contact

LEMMA DisengagedIsTyped ==
  ASSUME NEW e, NEW row, Made(e, row), NEW kind \in Kinds
  PROVE  LET new == [row EXCEPT !.dne = @ \cup {kind}] IN
         Made(e, new) /\ new.imported = row.imported /\ new.by = row.by
<1>1. row = [by |-> row.by, imported |-> row.imported, dne |-> row.dne, profile |-> row.profile]
      /\ row.by \in Forms /\ row.imported \in BOOLEAN /\ row.dne \subseteq Kinds /\ row.profile \in BOOLEAN
  BY DEF Made, Contact
<1>2. PICK S : S = row.dne \cup {kind}
  OBVIOUS
<1>3. [row EXCEPT !.dne = S] = [by |-> row.by, imported |-> row.imported, dne |-> S, profile |-> row.profile]
  BY <1>1
<1>4. S \subseteq Kinds
  BY <1>1, <1>2
<1> QED BY <1>1, <1>2, <1>3, <1>4 DEF Made, Contact

LEMMA NowStays ==
  ASSUME UNCHANGED keys
  PROVE  Now' = Now
BY DEF Now

LEMMA GotoTypes ==
  ASSUME TypeInv, NEW c \in Clients, NEW x, Goto(c, x), LocalsOK(x, Subject(c) \in DOMAIN contacts)
  PROVE  TypeInv'
<1>1. /\ requests'[c] = x /\ \A d \in Clients \ {c} : requests'[d] = requests[d]
      /\ DOMAIN requests' = Clients
      /\ UNCHANGED <<tables, keys, answers, import, conflicts, purged, counters>>
  BY GotoStep
<1>2. Types'
  BY <1>1, NowStays DEF TypeInv, Types, tables, Made
<1>3. ASSUME NEW d \in Clients PROVE RequestOK(d)'
  BY <1>1 DEF TypeInv, RequestOK, tables, Subject
<1>4. ImportOK'
  BY <1>1 DEF TypeInv, ImportOK, tables, Importing, Row, Made
<1> QED BY <1>2, <1>3, <1>4 DEF TypeInv

(* What a commit writes when its profile meets no other *)
Settles(c, a) ==
  LET f == FormOf[c]
      req == requests[c]
  IN
  /\ contacts' = With(contacts, Subject(c),
       Profiled(IF req.created THEN NewContact(f, FALSE) ELSE contacts[Subject(c)], req.addsProfile))
  /\ written' = [written EXCEPT ![f] = @ + (IF req.outcome = "accepted" THEN 1 ELSE 0)]
  /\ stopped' = [stopped EXCEPT ![f] = @ + (IF req.outcome = "blocked" THEN 1 ELSE 0)]
  /\ welcomes' = [welcomes EXCEPT ![Subject(c)] =
       @ + (IF req.outcome = "accepted" /\ Welcomes(f, req.created) THEN 1 ELSE 0)]
  /\ keys' = With(keys, IdOf[c], [form |-> f, answer |-> a]) /\ UNCHANGED brought
  /\ a = IF req.outcome = "refused" THEN Refused ELSE Accepted(written[f] + stopped[f] + 1)

LEMMA CommitShape ==
  ASSUME TypeInv, NEW c \in Clients, Commit(c)
  PROVE  /\ requests[c].pc = "commit" /\ UNCHANGED <<answers, import, conflicts, purged, counters>>
         /\ requests'[c].pc = "answer"
         /\ DOMAIN requests' = Clients /\ \A d \in Clients \ {c} : requests'[d] = requests[d]
         /\ \/ UNCHANGED <<tables, keys>> /\ requests'[c] = [pc |-> "answer", answer |-> Failed]
            \/ \E a \in Answers : Settles(c, a) /\ requests'[c] = [pc |-> "answer", answer |-> a]
<1> DEFINE f == FormOf[c]
           req == requests[c]
           answer == IF req.outcome = "refused" THEN Refused ELSE Accepted(written[f] + stopped[f] + 1)
<1>1. answer \in Answers
  <2>1. written[f] + stopped[f] + 1 \in Nat
    BY SubjectsAreEmails DEF TypeInv, Types
  <2>2. PICK n \in Nat : n = written[f] + stopped[f] + 1
    BY <2>1
  <2> QED BY <2>2 DEF Answers
<1>2. DOMAIN requests = Clients
  BY DEF TypeInv, Types
<1> DEFINE collides == /\ req.addsProfile
                       /\ (IF req.created THEN NewContact(f, FALSE) ELSE contacts[EmailOf[f]]).profile
<1>3. /\ req.pc = "commit" /\ UNCHANGED <<answers, import, conflicts, purged, counters>>
      /\ requests' = [requests EXCEPT ![c] = [pc |-> "answer", answer |-> IF collides THEN Failed ELSE answer]]
  BY DEF Commit
<1>4. IF collides THEN UNCHANGED <<tables, keys>> ELSE Settles(c, answer)
  BY DEF Commit, Settles, Subject
<1> QED BY <1>1, <1>2, <1>3, <1>4

LEMMA SettledRows ==
  ASSUME TypeInv, NEW c \in Clients, requests[c].pc = "commit", NEW a \in Answers, Settles(c, a)
  PROVE  /\ DOMAIN contacts' = DOMAIN contacts \cup {Subject(c)}
         /\ \A e \in DOMAIN contacts' : Made(e, contacts'[e])
         /\ \A e \in DOMAIN contacts' :
              IF requests[c].created /\ e = Subject(c)
              THEN ~contacts'[e].imported
              ELSE e \in DOMAIN contacts /\ contacts'[e].imported = contacts[e].imported
                   /\ contacts'[e].by = contacts[e].by
         /\ DOMAIN keys' = DOMAIN keys \cup {IdOf[c]}
         /\ keys'[IdOf[c]] = [form |-> FormOf[c], answer |-> a]
         /\ \A i \in DOMAIN keys' \ {IdOf[c]} : keys'[i] = keys[i]
         /\ \A i \in DOMAIN keys' : keys'[i] \in [form : Forms, answer : Answers]
<1> DEFINE row == IF requests[c].created THEN NewContact(FormOf[c], FALSE) ELSE contacts[Subject(c)]
<1>1. /\ FormOf[c] \in Forms /\ Subject(c) = EmailOf[FormOf[c]]
      /\ IdOf[c] \in Ids
  BY RowsAreForms, SubjectsAreEmails DEF Subject
<1>2. /\ requests[c].created \in BOOLEAN /\ requests[c].addsProfile \in BOOLEAN
      /\ ~requests[c].created => Subject(c) \in DOMAIN contacts
  BY DEF TypeInv, RequestOK, LocalsOK
<1>3. PICK b \in BOOLEAN : b = requests[c].addsProfile
  BY <1>2
<1>4. Made(Subject(c), row) /\ (requests[c].created => ~row.imported)
  <2>1. CASE requests[c].created
    BY <1>1, <2>1, NewContactsAreTyped
  <2>2. CASE ~requests[c].created
    BY <1>2, <2>2 DEF TypeInv, Types
  <2> QED BY <1>2, <2>1, <2>2
<1>5. /\ Made(Subject(c), Profiled(row, b)) /\ Profiled(row, b).imported = row.imported
      /\ Profiled(row, b).by = row.by
  BY <1>4, ProfiledIsTyped, ZenonT(40)
<1>6. contacts' = With(contacts, Subject(c), Profiled(row, b))
  BY <1>3 DEF Settles
<1>7. keys' = With(keys, IdOf[c], [form |-> FormOf[c], answer |-> a])
  BY DEF Settles
<1> HIDE DEF row
<1>8. /\ DOMAIN contacts' = DOMAIN contacts \cup {Subject(c)}
      /\ contacts'[Subject(c)] = Profiled(row, b)
      /\ \A e \in DOMAIN contacts \ {Subject(c)} : contacts'[e] = contacts[e]
  BY <1>6 DEF With
<1>9. \A e \in DOMAIN contacts' : Made(e, contacts'[e])
  BY <1>5, <1>8 DEF TypeInv, Types
<1>10. ASSUME NEW e \in DOMAIN contacts'
       PROVE  IF requests[c].created /\ e = Subject(c)
              THEN ~contacts'[e].imported
              ELSE e \in DOMAIN contacts /\ contacts'[e].imported = contacts[e].imported
                   /\ contacts'[e].by = contacts[e].by
  <2>1. CASE e # Subject(c)
    BY <1>8, <2>1
  <2>2. CASE e = Subject(c) /\ requests[c].created
    BY <1>4, <1>5, <1>8, <2>2
  <2>3. CASE e = Subject(c) /\ ~requests[c].created
    BY <1>2, <1>5, <1>8, <2>3 DEF row
  <2> QED BY <1>2, <2>1, <2>2, <2>3
<1>11. /\ DOMAIN keys' = DOMAIN keys \cup {IdOf[c]}
       /\ keys'[IdOf[c]] = [form |-> FormOf[c], answer |-> a]
       /\ \A i \in DOMAIN keys' \ {IdOf[c]} : keys'[i] = keys[i]
  BY <1>7 DEF With
<1>12. \A i \in DOMAIN keys' : keys'[i] \in [form : Forms, answer : Answers]
  BY <1>1, <1>11 DEF TypeInv, Types
<1> QED BY <1>8, <1>9, <1>10, <1>11, <1>12

Settled(c, a) == [id |-> IdOf[c], row |-> [form |-> FormOf[c], answer |-> a]]

LEMMA SettledKeys ==
  ASSUME TypeInv, NEW c \in Clients, requests[c].pc = "commit", NEW a \in Answers, Settles(c, a)
  PROVE  /\ Now' \subseteq Now \cup {Settled(c, a)}
         /\ IdOf[c] \notin DOMAIN keys => Now' = Now \cup {Settled(c, a)} /\ Settled(c, a) \notin Now
<1>1. /\ DOMAIN keys' = DOMAIN keys \cup {IdOf[c]}
      /\ keys'[IdOf[c]] = [form |-> FormOf[c], answer |-> a]
      /\ \A i \in DOMAIN keys' \ {IdOf[c]} : keys'[i] = keys[i]
  BY SettledRows
<1>2. ASSUME NEW y \in Now' PROVE y \in Now \cup {Settled(c, a)}
  <2>1. PICK i \in DOMAIN keys' : y = [id |-> i, row |-> keys'[i]]
    BY DEF Now
  <2>2. CASE i = IdOf[c]
    BY <1>1, <2>1, <2>2 DEF Settled
  <2>3. CASE i # IdOf[c]
    BY <1>1, <2>1, <2>3 DEF Now
  <2> QED BY <2>2, <2>3
<1>3. Settled(c, a) \in Now'
  BY <1>1 DEF Settled, Now
<1>4. ASSUME IdOf[c] \notin DOMAIN keys, NEW y \in Now PROVE y \in Now' /\ y # Settled(c, a)
  <2>1. PICK i \in DOMAIN keys : y = [id |-> i, row |-> keys[i]]
    BY DEF Now
  <2>2. i # IdOf[c] /\ i \in DOMAIN keys' /\ keys'[i] = keys[i]
    BY <1>1, <1>4
  <2>3. y.id = i /\ Settled(c, a).id = IdOf[c]
    BY <2>1 DEF Settled
  <2> QED BY <2>1, <2>2, <2>3 DEF Now
<1> QED BY <1>2, <1>3, <1>4

LEMMA PurgeShape ==
  ASSUME TypeInv, NEW i \in Ids, Purge(i)
  PROVE  /\ i \in DOMAIN keys /\ DOMAIN keys' = DOMAIN keys \ {i}
         /\ \A j \in DOMAIN keys' : keys'[j] = keys[j]
         /\ purged' = purged \cup {[id |-> i, row |-> keys[i]]}
         /\ [id |-> i, row |-> keys[i]] \in Now /\ Now' = Now \ {[id |-> i, row |-> keys[i]]}
         /\ UNCHANGED <<tables, requests, answers, import, conflicts>>
BY DEF Purge, Now

LEMMA DisengageShape ==
  ASSUME TypeInv, NEW e \in Emails, NEW kind \in Kinds, Disengage(e, kind)
  PROVE  /\ DOMAIN contacts' = DOMAIN contacts
         /\ \A x \in DOMAIN contacts : /\ Made(x, contacts'[x]) /\ contacts'[x].by = contacts[x].by
                                       /\ contacts'[x].imported = contacts[x].imported
         /\ UNCHANGED <<written, stopped, welcomes, brought, keys, requests, answers, import, conflicts, purged>>
<1>1. PICK new : new = [contacts[e] EXCEPT !.dne = @ \cup {kind}]
  OBVIOUS
<1>2. e \in DOMAIN contacts /\ contacts' = [contacts EXCEPT ![e] = new]
  BY <1>1 DEF Disengage
<1>3. Made(e, new) /\ new.imported = contacts[e].imported /\ new.by = contacts[e].by
  <2>1. PICK row : row = contacts[e]
    OBVIOUS
  <2>2. Made(e, row) /\ new = [row EXCEPT !.dne = @ \cup {kind}]
    BY <1>1, <1>2, <2>1 DEF TypeInv, Types
  <2> QED BY <2>1, <2>2, DisengagedIsTyped
<1>4. UNCHANGED <<written, stopped, welcomes, brought, keys, requests, answers, import, conflicts, purged>>
  BY DEF Disengage
<1> QED BY <1>2, <1>3, <1>4 DEF TypeInv, Types

-----------------------------------------------------------------------------
(* What the steps of the import do *)

LEMMA BatchFields ==
  ASSUME NEW n, NEW S
  PROVE  LET b == Batch(n, S) IN
         /\ DOMAIN b = ImportFields /\ b.pc = "find" /\ b.next = n /\ b.seen = S /\ DOMAIN b.contacts = {}
         /\ b.written = {} /\ b.stopped = {} /\ b.conflicts = {}
<1>1. DOMAIN <<>> = {}
  OBVIOUS
<1> QED BY <1>1 DEF Batch, ImportFields

LEMMA FreshBatch ==
  ASSUME NEW n \in Nat, NEW S, import' = Batch(n, S)
  PROVE  ImportOK'
<1>1. PICK b : b = Batch(n, S)
  OBVIOUS
<1>2. /\ DOMAIN b = ImportFields /\ b.pc = "find" /\ b.next = n /\ DOMAIN b.contacts = {}
      /\ b.written = {} /\ b.stopped = {} /\ b.conflicts = {}
  BY <1>1, BatchFields
<1>3. import' = b
  BY <1>1
<1> QED BY <1>2, <1>3 DEF ImportOK, Importing

LEMMA OpenImport ==
  ASSUME TypeInv, Importing
  PROVE  /\ DOMAIN import = ImportFields /\ import.next \in Nat
         /\ DOMAIN import.contacts \subseteq Emails
         /\ \A e \in DOMAIN import.contacts : Made(e, import.contacts[e]) /\ import.contacts[e].imported
         /\ import.written \subseteq ImportedForms /\ import.stopped \subseteq ImportedForms
         /\ import.conflicts \subseteq ImportedForms
BY DEF TypeInv, ImportOK

LEMMA SkipShape ==
  ASSUME TypeInv, SkipRow
  PROVE  /\ import.pc = "find" /\ import'.pc = "find" /\ DOMAIN import' = ImportFields
         /\ import'.next = import.next + 1
         /\ import'.contacts = import.contacts /\ import'.written = import.written
         /\ import'.stopped = import.stopped /\ import'.conflicts = import.conflicts
         /\ import'.seen = import.seen
         /\ UNCHANGED <<tables, keys, requests, answers, conflicts, purged, counters>>
BY DEF SkipRow, ImportOnly, TypeInv, ImportOK, Importing, ImportFields

LEMMA FindShape ==
  ASSUME TypeInv, FindRow
  PROVE  /\ import.pc = "find" /\ import.next \in DOMAIN Rows /\ Row \notin import.seen
         /\ import'.pc = "put" /\ DOMAIN import' = ImportFields /\ import'.next = import.next
         /\ import'.contacts = import.contacts /\ import'.written = import.written
         /\ import'.stopped = import.stopped /\ import'.conflicts = import.conflicts
         /\ import'.seen = import.seen
         /\ import'.created = (EmailOf[Row] \notin (DOMAIN contacts \cup DOMAIN import.contacts))
         /\ import'.created => import'.contact = NewContact(Row, TRUE)
         /\ UNCHANGED <<tables, keys, requests, answers, conflicts, purged, counters>>
<1>1. PICK x : x = (EmailOf[Row] \notin DOMAIN Visible)
  OBVIOUS
<1>2. PICK y : y = IF EmailOf[Row] \in DOMAIN Visible THEN Visible[EmailOf[Row]] ELSE NewContact(Row, TRUE)
  OBVIOUS
<1>3. import.pc = "find" /\ DOMAIN import = ImportFields
  BY DEF FindRow, TypeInv, ImportOK, Importing
<1>4. import' = [import EXCEPT !.pc = "put", !.created = x, !.contact = y]
  BY <1>1, <1>2 DEF FindRow
<1>5. /\ import'.pc = "put" /\ DOMAIN import' = ImportFields /\ import'.next = import.next
      /\ import'.contacts = import.contacts /\ import'.written = import.written
      /\ import'.stopped = import.stopped /\ import'.conflicts = import.conflicts
      /\ import'.seen = import.seen /\ import'.created = x /\ import'.contact = y
  BY <1>3, <1>4 DEF ImportFields
<1>6. DOMAIN Visible = DOMAIN contacts \cup DOMAIN import.contacts
  BY DEF Visible
<1>7. /\ import.next \in DOMAIN Rows /\ Row \notin import.seen
      /\ UNCHANGED <<tables, keys, requests, answers, conflicts, purged, counters>>
  BY DEF FindRow, HasRow, ImportOnly
<1> QED BY <1>1, <1>2, <1>3, <1>5, <1>6, <1>7

(* The row becomes part of the batch, as outcome o; PutRow leaves that to
   FlushRow when it adds a profile to a contact that was there before.     *)
RowPut(o) ==
  /\ import'.pc \in {"find", "commit"} /\ import'.next = import.next + 1
  /\ import'.contacts = (IF o # "refused" /\ import.created
                         THEN With(import.contacts, EmailOf[Row], import.contact)
                         ELSE import.contacts)
  /\ import'.written = import.written \cup (IF o = "accepted" THEN {Row} ELSE {})
  /\ import'.seen = import.seen \cup (IF o = "accepted" THEN {Row} ELSE {})
  /\ import'.stopped = import.stopped \cup (IF o = "blocked" THEN {Row} ELSE {})
  /\ import'.conflicts = import.conflicts \cup (IF o = "refused" THEN {Row} ELSE {})
  /\ o # "refused" /\ import.created =>
       /\ o = "accepted" /\ EmailOf[Row] \notin DOMAIN contacts
       /\ ~InsertedByRequest(EmailOf[Row])

LEMMA AfterRowPuts ==
  ASSUME DOMAIN import = ImportFields, NEW o \in Outcomes, NEW b, import' = AfterRow(o, b),
         o # "refused" /\ import.created =>
           /\ o = "accepted" /\ EmailOf[Row] \notin DOMAIN contacts
           /\ ~InsertedByRequest(EmailOf[Row])
  PROVE  RowPut(o) /\ DOMAIN import' = ImportFields
<1>1. /\ import'.pc \in {"find", "commit"} /\ DOMAIN import' = ImportFields
      /\ import'.next = import.next + 1
      /\ import'.contacts = (IF o # "refused" /\ import.created
                             THEN With(import.contacts, EmailOf[Row], import.contact)
                             ELSE import.contacts)
      /\ import'.seen = Also(import.seen, Row, o = "accepted")
      /\ import'.written = Also(import.written, Row, o = "accepted")
      /\ import'.stopped = Also(import.stopped, Row, o = "blocked")
      /\ import'.conflicts = Also(import.conflicts, Row, o = "refused")
  BY DEF AfterRow, ImportFields
<1> QED BY <1>1 DEF Also, RowPut

LEMMA PutShape ==
  ASSUME TypeInv, PutRow \/ FlushRow
  PROVE  /\ import.pc \in {"put", "flush"} /\ DOMAIN import' = ImportFields
         /\ \/ \E o \in Outcomes : RowPut(o)
            \/ /\ import'.pc = "flush" /\ ~import.created
               /\ import'.next = import.next /\ import'.created = import.created
               /\ import'.contacts = import.contacts /\ import'.written = import.written
               /\ import'.stopped = import.stopped /\ import'.conflicts = import.conflicts
               /\ import'.seen = import.seen
         /\ UNCHANGED <<tables, keys, requests, answers, conflicts, purged, counters>>
<1>1. /\ import.pc \in {"put", "flush"} /\ DOMAIN import = ImportFields /\ import.created \in BOOLEAN
      /\ import.created => import.contact = NewContact(Row, TRUE)
      /\ import.pc = "flush" => ~import.created
  BY DEF PutRow, FlushRow, TypeInv, ImportOK, Importing
<1>2. UNCHANGED <<tables, keys, requests, answers, conflicts, purged, counters>>
  BY DEF PutRow, FlushRow, ImportOnly
<1>3. CASE PutRow
  <2>1. PICK o \in Outcomes : o = RowOutcome
    BY DEF RowOutcome, Outcome, Outcomes
  <2>2. PICK b : b = (o = "accepted" /\ (import.created \/ ~(Visible[EmailOf[Row]].profile \/ EmailOf[Row] \in import.profiles)))
    OBVIOUS
  <2>3. import' = IF b /\ ~import.created THEN [import EXCEPT !.pc = "flush"] ELSE AfterRow(o, b)
    BY <1>3, <2>1, <2>2 DEF PutRow
  <2>4. o # "refused" /\ import.created =>
          o = "accepted" /\ EmailOf[Row] \notin DOMAIN contacts /\ ~InsertedByRequest(EmailOf[Row])
    BY <1>1, <1>3, <2>1 DEF RowOutcome, Outcome, IsBlocked, NewContact, PutRow, Outcomes
  <2>5. CASE import' = AfterRow(o, b)
    BY <1>1, <1>2, <2>4, <2>5, AfterRowPuts
  <2>6. CASE ~import.created /\ import' = [import EXCEPT !.pc = "flush"]
    BY <1>1, <1>2, <2>6 DEF ImportFields
  <2> QED BY <2>3, <2>5, <2>6
<1>4. CASE FlushRow
  <2>1. import.pc = "flush" /\ ~import.created
    BY <1>1, <1>4 DEF FlushRow
  <2>2. PICK o, b : o \in Outcomes /\ import' = AfterRow(o, b)
    <3>1. PICK late : late = (EmailOf[Row] \in DOMAIN contacts /\ contacts[EmailOf[Row]].profile)
      OBVIOUS
    <3>2. PICK o \in Outcomes : o = IF late THEN "refused" ELSE "accepted"
      BY DEF Outcomes
    <3>3. PICK b : b = ~late
      OBVIOUS
    <3>4. import' = AfterRow(o, b)
      BY <1>4, <3>1, <3>2, <3>3 DEF FlushRow
    <3> QED BY <3>4
  <2> QED BY <1>1, <1>2, <2>1, <2>2, AfterRowPuts
<1> QED BY <1>3, <1>4

LEMMA CommitRowsShape ==
  ASSUME TypeInv, CommitRows
  PROVE  /\ Importing
         /\ DOMAIN contacts' = DOMAIN contacts \cup DOMAIN import.contacts
         /\ \A e \in DOMAIN contacts' :
              /\ Made(e, contacts'[e])
              /\ IF e \in DOMAIN contacts
                 THEN contacts'[e].by = contacts[e].by /\ contacts'[e].imported = contacts[e].imported
                 ELSE contacts'[e].by = import.contacts[e].by
         /\ written' = [f \in Forms |-> written[f] + (IF f \in import.written THEN 1 ELSE 0)]
         /\ stopped' = [f \in Forms |-> stopped[f] + (IF f \in import.stopped THEN 1 ELSE 0)]
         /\ brought' = [f \in Forms |-> brought[f] + (IF f \in import.written \cup import.stopped THEN 1 ELSE 0)]
         /\ conflicts' = conflicts \cup import.conflicts
         /\ \/ import'.pc = "idle"
            \/ import' = Batch(import.next, import.seen)
         /\ UNCHANGED <<welcomes, keys, requests, answers, purged, counters>>
<1>1. Importing /\ DOMAIN Visible = DOMAIN contacts \cup DOMAIN import.contacts
  BY DEF CommitRows, Importing, Visible
<1>2. contacts' = [e \in DOMAIN Visible |-> Profiled(Visible[e], e \in import.profiles)]
  BY DEF CommitRows
<1>3. ASSUME NEW e \in DOMAIN contacts'
      PROVE  /\ Made(e, contacts'[e])
             /\ IF e \in DOMAIN contacts
                THEN contacts'[e].by = contacts[e].by /\ contacts'[e].imported = contacts[e].imported
                ELSE contacts'[e].by = import.contacts[e].by
  <2>1. PICK row : row = Visible[e]
    OBVIOUS
  <2>0. (e \in import.profiles) \in BOOLEAN
    OBVIOUS
  <2>2. PICK b \in BOOLEAN : b = (e \in import.profiles)
    BY <2>0
  <2>3. e \in DOMAIN Visible /\ contacts'[e] = Profiled(row, b)
    BY <1>2, <2>1, <2>2
  <2>4. row = IF e \in DOMAIN contacts THEN contacts[e] ELSE import.contacts[e]
    BY <2>1, <2>3 DEF Visible
  <2>5. Made(e, row)
    BY <1>1, <2>3, <2>4 DEF TypeInv, Types, ImportOK
  <2>6. Made(e, Profiled(row, b)) /\ Profiled(row, b).imported = row.imported /\ Profiled(row, b).by = row.by
    BY <2>5, ProfiledIsTyped
  <2> QED BY <2>3, <2>4, <2>6
<1>4. /\ written' = [f \in Forms |-> written[f] + (IF f \in import.written THEN 1 ELSE 0)]
      /\ stopped' = [f \in Forms |-> stopped[f] + (IF f \in import.stopped THEN 1 ELSE 0)]
      /\ brought' = [f \in Forms |-> brought[f] + (IF f \in import.written \cup import.stopped THEN 1 ELSE 0)]
      /\ conflicts' = conflicts \cup import.conflicts
      /\ import'.pc = "idle" \/ import' = Batch(import.next, import.seen)
      /\ UNCHANGED <<welcomes, keys, requests, answers, purged, counters>>
  BY DEF CommitRows, NoImport
<1> QED BY <1>1, <1>2, <1>3, <1>4

-----------------------------------------------------------------------------
(* The type invariant *)

LEMMA TypesInit == Init => TypeInv
<1> SUFFICES ASSUME Init PROVE TypeInv
  OBVIOUS
<1>1. DOMAIN <<>> = {}
  OBVIOUS
<1>2. Now = {}
  BY <1>1 DEF Init, Now
<1>5. Types
  BY <1>1, <1>2, FS_EmptySet DEF Init, Types
<1>3. \A c \in Clients : RequestOK(c)
  BY DEF Init, Idle, RequestOK, LocalsOK
<1>4. ImportOK
  BY DEF Init, NoImport, ImportOK, Importing
<1> QED BY <1>3, <1>4, <1>5 DEF TypeInv

LEMMA RequestTypes ==
  ASSUME TypeInv, NEW c \in Clients, Send(c) \/ RequestStep(c) \/ Lose(c)
  PROVE  TypeInv'
<1>1. CASE Send(c)
  BY <1>1, GotoTypes DEF Send, LocalsOK
<1>2. CASE Authenticate(c)
  BY <1>2, GotoTypes DEF Authenticate, LocalsOK
<1>3. CASE Claim(c)
  <2>1. PICK pc : pc = IF IdOf[c] \in DOMAIN keys THEN "lookup" ELSE "find"
    OBVIOUS
  <2> QED BY <1>3, <2>1, GotoTypes DEF Claim, LocalsOK
<1>4. CASE Lookup(c)
  BY <1>4, GotoTypes DEF Lookup, LocalsOK
<1>5. CASE Find(c)
  <2>1. PICK created \in BOOLEAN : created = (Subject(c) \notin DOMAIN contacts)
    OBVIOUS
  <2>2. PICK row : row = IF Subject(c) \in DOMAIN contacts THEN contacts[Subject(c)] ELSE NewContact(FormOf[c], FALSE)
    OBVIOUS
  <2>3. Goto(c, [pc |-> "put", created |-> created, contact |-> row])
    BY <1>5, <2>1, <2>2 DEF Find, Subject
  <2> QED BY <2>1, <2>3, GotoTypes DEF LocalsOK
<1>6. CASE Put(c)
  <2>1. requests[c].created \in BOOLEAN /\ (~requests[c].created => Subject(c) \in DOMAIN contacts)
    BY <1>6 DEF Put, TypeInv, RequestOK, LocalsOK
  <2>2. PICK o \in Outcomes : o = Outcome(FormOf[c], requests[c].contact)
    BY DEF Outcome, Outcomes
  <2>3. PICK b \in BOOLEAN : b = (o = "accepted" /\ (requests[c].created \/ ~contacts[Subject(c)].profile))
    OBVIOUS
  <2>4. \/ Goto(c, [pc |-> "answer", answer |-> Failed])
        \/ Goto(c, [pc |-> "commit", created |-> requests[c].created, outcome |-> o, addsProfile |-> b])
    BY <1>6, <2>2, <2>3 DEF Put, Subject
  <2> QED BY <2>1, <2>4, GotoTypes DEF LocalsOK
<1>7. CASE Commit(c)
  <2>1. /\ requests[c].pc = "commit" /\ UNCHANGED <<answers, import, conflicts, purged, counters>>
        /\ DOMAIN requests' = Clients /\ \A d \in Clients \ {c} : requests'[d] = requests[d]
    BY <1>7, CommitShape
  <2>2. CASE UNCHANGED <<tables, keys>> /\ requests'[c] = [pc |-> "answer", answer |-> Failed]
    <3>1. Types'
      BY <2>1, <2>2, NowStays DEF TypeInv, Types, tables, Made
    <3>2. ASSUME NEW d \in Clients PROVE RequestOK(d)'
      BY <2>1, <2>2 DEF TypeInv, RequestOK, LocalsOK, tables, Subject
    <3>3. ImportOK'
      BY <2>1, <2>2 DEF TypeInv, ImportOK, tables, Importing, Row, Made
    <3> QED BY <3>1, <3>2, <3>3 DEF TypeInv
  <2>3. ASSUME NEW a \in Answers, Settles(c, a), requests'[c] = [pc |-> "answer", answer |-> a]
        PROVE  TypeInv'
    <3>1. /\ DOMAIN contacts' = DOMAIN contacts \cup {Subject(c)}
          /\ \A e \in DOMAIN contacts' : Made(e, contacts'[e])
          /\ DOMAIN keys' = DOMAIN keys \cup {IdOf[c]}
          /\ \A i \in DOMAIN keys' : keys'[i] \in [form : Forms, answer : Answers]
      BY <2>1, <2>3, SettledRows
    <3>2. IsFiniteSet(Now')
      <4>1. PICK S, x : S = Now /\ x = Settled(c, a)
        OBVIOUS
      <4>2. IsFiniteSet(S \cup {x})
        BY <4>1, FS_AddElement DEF TypeInv, Types
      <4> QED BY <2>1, <2>3, <4>1, <4>2, SettledKeys, FS_Subset
    <3>3. written' \in [Forms -> Nat] /\ stopped' \in [Forms -> Nat] /\ welcomes' \in [Emails -> Nat]
      <4>1. PICK n \in Nat : n = IF requests[c].outcome = "accepted" THEN 1 ELSE 0
        OBVIOUS
      <4>2. PICK m \in Nat : m = IF requests[c].outcome = "blocked" THEN 1 ELSE 0
        OBVIOUS
      <4>3. PICK k \in Nat : k = IF /\ requests[c].outcome = "accepted"
                                   /\ Welcomes(FormOf[c], requests[c].created) THEN 1 ELSE 0
        OBVIOUS
      <4>4. /\ written' = [written EXCEPT ![FormOf[c]] = @ + n]
            /\ stopped' = [stopped EXCEPT ![FormOf[c]] = @ + m]
            /\ welcomes' = [welcomes EXCEPT ![Subject(c)] = @ + k]
        BY <2>3, <4>1, <4>2, <4>3 DEF Settles
      <4>5. ASSUME NEW S, NEW g \in [S -> Nat], NEW x \in S, NEW y \in Nat
            PROVE  [g EXCEPT ![x] = @ + y] \in [S -> Nat]
        <5>1. g[x] + y \in Nat
          OBVIOUS
        <5> QED BY <5>1
      <4> QED BY <4>4, <4>5, SubjectsAreEmails DEF TypeInv, Types
    <3>7. brought' = brought
      BY <2>3 DEF Settles
    <3>4. Types'
      BY <2>1, <3>1, <3>2, <3>3, <3>7, SubjectsAreEmails DEF TypeInv, Types, Made
    <3>5. ASSUME NEW d \in Clients PROVE RequestOK(d)'
      BY <2>1, <2>3, <3>1 DEF TypeInv, RequestOK, LocalsOK, Subject
    <3>6. ImportOK'
      BY <2>1, <3>1 DEF TypeInv, ImportOK, Importing, Row, Made
    <3> QED BY <3>4, <3>5, <3>6 DEF TypeInv
  <2> QED BY <1>7, <2>2, <2>3, CommitShape
<1>8. CASE Answer(c) \/ Lose(c)
  <2>1. /\ UNCHANGED <<tables, keys, import, conflicts, purged>>
        /\ requests' = [requests EXCEPT ![c] = Idle] /\ DOMAIN answers' = Clients
    BY <1>8 DEF Answer, Lose, TypeInv, Types
  <2>2. DOMAIN requests' = Clients /\ requests'[c] = Idle /\ \A d \in Clients \ {c} : requests'[d] = requests[d]
    BY <2>1 DEF TypeInv, Types
  <2>3. Types'
    BY <2>1, <2>2, NowStays DEF TypeInv, Types, tables, Made
  <2>4. ASSUME NEW d \in Clients PROVE RequestOK(d)'
    BY <2>1, <2>2 DEF TypeInv, RequestOK, LocalsOK, tables, Subject, Idle
  <2>5. ImportOK'
    BY <2>1 DEF TypeInv, ImportOK, tables, Importing, Row, Made
  <2> QED BY <2>3, <2>4, <2>5 DEF TypeInv
<1> QED BY <1>1, <1>2, <1>3, <1>4, <1>5, <1>6, <1>7, <1>8 DEF RequestStep

LEMMA ImportTypes ==
  ASSUME TypeInv, StartImport \/ ImportStep \/ AbortImport
  PROVE  TypeInv'
<1>1. CASE StartImport \/ AbortImport \/ SkipRow \/ FindRow \/ PutRow \/ FlushRow
  <2>1. UNCHANGED <<tables, keys, requests, answers, conflicts, purged>>
    BY <1>1, SkipShape, FindShape, PutShape DEF StartImport, AbortImport
  <2>2. Types' /\ \A c \in Clients : RequestOK(c)'
    BY <2>1, NowStays DEF TypeInv, Types, RequestOK, LocalsOK, tables, Made, Subject
  <2>3. ImportOK'
    <3>1. CASE AbortImport
      BY <3>1 DEF AbortImport, NoImport, ImportOK, Importing
    <3>2. CASE StartImport
      <4>1. PICK n \in DOMAIN Rows : import' = Batch(n, ImportedBefore)
        BY <3>2 DEF StartImport
      <4>2. n \in Nat
        BY IntakeAssumption DEF IntakeAssumption
      <4>3. PICK S : S = ImportedBefore
        OBVIOUS
      <4> QED BY <4>1, <4>2, <4>3, FreshBatch
    <3>3. CASE SkipRow
      <4>0. Importing
        BY <3>3, SkipShape DEF Importing
      <4>1. import.next + 1 \in Nat
        BY <4>0, OpenImport
      <4> QED BY <2>1, <3>3, <4>1, SkipShape DEF TypeInv, ImportOK, Importing, Made
    <3>4. CASE FindRow
      <4>1. Row' = Row /\ NewContact(Row, TRUE)' = NewContact(Row, TRUE)
        BY <3>4, FindShape DEF Row, NewContact
      <4>2. import'.created \in BOOLEAN
        BY <3>4, FindShape
      <4> QED BY <2>1, <3>4, <4>1, <4>2, FindShape DEF TypeInv, ImportOK, Importing, Made, tables
    <3>5. CASE PutRow \/ FlushRow
      <4>0. Importing /\ DOMAIN import' = ImportFields
        BY <3>5, PutShape DEF Importing
      <4>1. PICK r \in ImportedForms : r = Row /\ EmailOf[r] \in Emails /\ r \in Forms
        BY <3>5, PutShape, RowsAreForms, SubjectsAreEmails DEF Row, TypeInv, ImportOK
      <4>2. ASSUME NEW o \in Outcomes, RowPut(o) PROVE ImportOK'
        <5>1. /\ import'.written \subseteq ImportedForms /\ import'.stopped \subseteq ImportedForms
              /\ import'.conflicts \subseteq ImportedForms /\ import'.next \in Nat
              /\ import'.pc \in {"find", "commit"}
          <6>1. import.next + 1 \in Nat
            BY <4>0, OpenImport
          <6> QED BY <4>0, <4>1, <4>2, <6>1, OpenImport DEF RowPut
        <5>2. import.created => import.contact = NewContact(r, TRUE)
          BY <3>5, <4>1, PutShape DEF TypeInv, ImportOK
        <5>3. Made(EmailOf[r], NewContact(r, TRUE)) /\ NewContact(r, TRUE).imported
          BY <4>1, NewContactsAreTyped
        <5>4. /\ DOMAIN import'.contacts \subseteq Emails
              /\ \A e \in DOMAIN import'.contacts : Made(e, import'.contacts[e]) /\ import'.contacts[e].imported
          <6>1. CASE import'.contacts = import.contacts
            BY <4>0, <6>1, OpenImport
          <6>2. CASE import'.contacts = With(import.contacts, EmailOf[r], NewContact(r, TRUE))
            <7>1. /\ DOMAIN import'.contacts = DOMAIN import.contacts \cup {EmailOf[r]}
                  /\ import'.contacts[EmailOf[r]] = NewContact(r, TRUE)
                  /\ \A e \in DOMAIN import.contacts \ {EmailOf[r]} : import'.contacts[e] = import.contacts[e]
              BY <6>2 DEF With
            <7> QED BY <4>0, <4>1, <5>3, <7>1, OpenImport
          <6> QED BY <4>1, <4>2, <5>2, <6>1, <6>2 DEF RowPut
        <5> QED BY <2>1, <4>0, <5>1, <5>4 DEF ImportOK, Importing, Made
      <4>3. CASE /\ import'.pc = "flush" /\ ~import.created
                 /\ import'.next = import.next /\ import'.created = import.created
                 /\ import'.contacts = import.contacts /\ import'.written = import.written
                 /\ import'.stopped = import.stopped /\ import'.conflicts = import.conflicts
        <5>1. Row' = Row /\ import.next \in DOMAIN Rows /\ EmailOf[Row] \in DOMAIN contacts \cup DOMAIN import.contacts
          BY <3>5, <4>3, PutShape DEF Row, TypeInv, ImportOK
        <5>2. contacts' = contacts
          BY <2>1 DEF tables
        <5>3. /\ import'.next \in Nat /\ DOMAIN import'.contacts \subseteq Emails
              /\ \A e \in DOMAIN import'.contacts : Made(e, import'.contacts[e]) /\ import'.contacts[e].imported
              /\ import'.written \subseteq ImportedForms /\ import'.stopped \subseteq ImportedForms
              /\ import'.conflicts \subseteq ImportedForms
          BY <4>0, <4>3, OpenImport
        <5>4. import'.created \in BOOLEAN /\ ~import'.created /\ import'.next \in DOMAIN Rows
          BY <4>3, <5>1, <3>5, PutShape DEF TypeInv, ImportOK
        <5> QED BY <4>0, <4>3, <5>1, <5>2, <5>3, <5>4 DEF ImportOK, Importing, Made
      <4> QED BY <3>5, <4>2, <4>3, PutShape
    <3> QED BY <1>1, <3>1, <3>2, <3>3, <3>4, <3>5
  <2> QED BY <2>2, <2>3 DEF TypeInv
<1>2. CASE CommitRows
  <2>1. /\ DOMAIN contacts' = DOMAIN contacts \cup DOMAIN import.contacts
        /\ \A e \in DOMAIN contacts' : Made(e, contacts'[e])
        /\ UNCHANGED <<welcomes, keys, requests, answers, purged>>
    BY <1>2, CommitRowsShape
  <2>2. import.conflicts \subseteq Forms /\ DOMAIN import.contacts \subseteq Emails
    BY <1>2, CommitRowsShape, RowsAreForms DEF TypeInv, ImportOK
  <2>3. written' \in [Forms -> Nat] /\ stopped' \in [Forms -> Nat] /\ brought' \in [Forms -> Nat] /\ conflicts' \subseteq Forms
    <3>1. ASSUME NEW g \in [Forms -> Nat], NEW S
          PROVE  [f \in Forms |-> g[f] + (IF f \in S THEN 1 ELSE 0)] \in [Forms -> Nat]
      OBVIOUS
    <3> QED BY <1>2, <2>2, <3>1, CommitRowsShape DEF TypeInv, Types
  <2>4. Types' /\ \A c \in Clients : RequestOK(c)'
    BY <2>1, <2>2, <2>3, NowStays DEF TypeInv, Types, RequestOK, LocalsOK, Made, Subject
  <2>5. ImportOK'
    <3>1. PICK n \in Nat : n = import.next
      BY <1>2, CommitRowsShape, OpenImport
    <3>2. PICK S : S = import.seen
      OBVIOUS
    <3>3. import'.pc = "idle" \/ import' = Batch(n, S)
      BY <1>2, <3>1, <3>2, CommitRowsShape
    <3> QED BY <3>3, FreshBatch DEF ImportOK, Importing
  <2> QED BY <2>4, <2>5 DEF TypeInv
<1> QED BY <1>1, <1>2 DEF ImportStep

LEMMA TypesStep == TypeInv /\ [Next]_vars => TypeInv'
<1> SUFFICES ASSUME TypeInv, [Next]_vars PROVE TypeInv'
  OBVIOUS
<1>1. CASE UNCHANGED vars
  BY <1>1, NowStays DEF vars, tables, counters, TypeInv, Types, RequestOK, LocalsOK, ImportOK, Importing, Made, Row, Subject
<1>2. ASSUME NEW c \in Clients, Send(c) \/ RequestStep(c) \/ Lose(c) PROVE TypeInv'
  BY <1>2, RequestTypes
<1>3. ASSUME NEW i \in Ids, Purge(i) PROVE TypeInv'
  <2>1. /\ DOMAIN keys' = DOMAIN keys \ {i} /\ \A j \in DOMAIN keys' : keys'[j] = keys[j]
        /\ purged' = purged \cup {[id |-> i, row |-> keys[i]]}
        /\ Now' = Now \ {[id |-> i, row |-> keys[i]]}
        /\ UNCHANGED <<tables, requests, answers, import, conflicts>>
    BY <1>3, PurgeShape
  <2>2. IsFiniteSet(Now') /\ IsFiniteSet(purged')
    <3>1. PICK S, T, x : S = Now /\ T = purged /\ x = [id |-> i, row |-> keys[i]]
      OBVIOUS
    <3>2. IsFiniteSet(S) /\ IsFiniteSet(T)
      BY <3>1 DEF TypeInv, Types
    <3>3. IsFiniteSet(S \ {x}) /\ IsFiniteSet(T \cup {x})
      BY <3>2, FS_RemoveElement, FS_AddElement
    <3> QED BY <2>1, <3>1, <3>3
  <2>3. Types' /\ \A c \in Clients : RequestOK(c)'
    BY <2>1, <2>2 DEF TypeInv, Types, RequestOK, LocalsOK, tables, Made, Subject
  <2>4. ImportOK'
    BY <2>1 DEF TypeInv, ImportOK, tables, Importing, Row, Made
  <2> QED BY <2>3, <2>4 DEF TypeInv
<1>4. ASSUME NEW e \in Emails, NEW kind \in Kinds, Disengage(e, kind) PROVE TypeInv'
  <2>1. /\ DOMAIN contacts' = DOMAIN contacts /\ \A x \in DOMAIN contacts : Made(x, contacts'[x])
        /\ UNCHANGED <<written, stopped, welcomes, brought, keys, requests, answers, import, conflicts, purged>>
    BY <1>4, DisengageShape
  <2>2. Types' /\ \A c \in Clients : RequestOK(c)'
    BY <2>1, NowStays DEF TypeInv, Types, RequestOK, LocalsOK, Made, Subject
  <2>3. ImportOK'
    BY <2>1 DEF TypeInv, ImportOK, Importing, Row, Made
  <2> QED BY <2>2, <2>3 DEF TypeInv
<1>5. CASE StartImport \/ ImportStep \/ AbortImport
  BY <1>5, ImportTypes
<1> QED BY <1>1, <1>2, <1>3, <1>4, <1>5 DEF Next

LEMMA TypesInvariant == Spec => []TypeInv
BY TypesInit, TypesStep, PTL DEF Spec

LEMMA TypesAreOK == TypeInv => TypeOK
<1> SUFFICES ASSUME TypeInv PROVE TypeOK
  OBVIOUS
<1>1. \A e \in DOMAIN contacts : contacts[e] \in Contact /\
         (contacts[e].imported => \E n \in DOMAIN Rows : contacts[e].by = Rows[n])
  BY DEF TypeInv, Types, Made, ImportedForms
<1> QED BY <1>1 DEF TypeInv, Types, TypeOK, RequestOK, LocalsOK, ImportOK

(* The rows, the locals and the counts are typed, and imported contacts bear
   the id of a row of the forms database.                                   *)
THEOREM TypeCorrect == Spec => []TypeOK
BY TypesInvariant, TypesAreOK, PTL

-----------------------------------------------------------------------------
(* Who inserts a contact: of all that have inserted an e-mail and not
   committed there is one, and no contact has that e-mail.               *)
Inserting(c) == requests[c].pc = "commit" /\ requests[c].created

InsertInv ==
  /\ \A c \in Clients : Inserting(c) =>
       /\ Subject(c) \notin DOMAIN contacts
       /\ Importing => Subject(c) \notin DOMAIN import.contacts
       /\ \A d \in Clients \ {c} : Inserting(d) => Subject(d) # Subject(c)
  /\ Importing => DOMAIN import.contacts \cap DOMAIN contacts = {}

(* Keys: one request at most works under a key, and only while no other has
   committed it.                                                            *)
Working(c) == requests[c].pc \in {"find", "put", "commit"}

KeyInv ==
  \A c \in Clients : Working(c) =>
    /\ IdOf[c] \notin DOMAIN keys
    /\ \A d \in Clients \ {c} : Working(d) => IdOf[d] # IdOf[c]

(* What a key promises was done, and done for it alone. *)
PromiseInv ==
  \A f \in Forms :
    /\ written[f] + stopped[f] =
         Cardinality(Promises(f, Now)) + Cardinality(Promises(f, purged)) + brought[f]
    /\ Promises(f, Now) \cap purged = {}
    /\ \A x \in Promises(f, Now \cup purged) : x.row.answer.nth \in 1 .. written[f] + stopped[f]

(* A run brings a row once: what it has not come to, and what it has not
   committed, was brought by earlier runs only.                          *)
Pending == import.written \cup import.stopped

RunInv ==
  /\ imports \in Nat /\ \A f \in Forms : brought[f] <= imports
  /\ Importing =>
       /\ import.written \cap import.stopped = {}
       /\ \A f \in Pending : brought[f] < imports
       /\ \A n \in DOMAIN Rows : n >= import.next => Rows[n] \notin Pending /\ brought[Rows[n]] < imports

(* Answers on their way *)
AnswerInv ==
  \A c \in Clients :
    requests[c].pc = "answer" /\ requests[c].answer \notin {Failed, Conflict} =>
      Settled(c, requests[c].answer) \in Now \cup purged

(* Rows that made a contact: an import under way knows those committed, and
   has written the rows that made its own.                                 *)
Imported(r) == \E e \in DOMAIN contacts : contacts[e].imported /\ contacts[e].by = r

RowInv ==
  /\ \A r \in ImportedForms : brought[r] > 0 => EmailOf[r] \in DOMAIN contacts
  /\ \A r \in ImportedForms : Imported(r) => brought[r] = 1
  /\ Importing =>
       /\ \A r \in ImportedForms : Imported(r) => r \in import.seen
       /\ \A e \in DOMAIN import.contacts : import.contacts[e].by \in import.written
       /\ \A r \in import.written : r \in import.seen
       /\ \A r \in Pending : EmailOf[r] \in DOMAIN contacts \cup DOMAIN import.contacts /\ ~Imported(r)
  /\ import.pc \in {"put", "flush"} => Row \notin import.seen

-----------------------------------------------------------------------------
(* Request steps other than a commit *)

Quiet(c) == Send(c) \/ Authenticate(c) \/ Claim(c) \/ Lookup(c) \/ Find(c) \/ Put(c) \/ Answer(c) \/ Lose(c)

QuietMove(c) ==
  /\ UNCHANGED <<tables, keys, import, conflicts, purged>>
  /\ \A d \in Clients \ {c} : requests'[d] = requests[d]

LEMMA QuietMoves ==
  ASSUME TypeInv, NEW c \in Clients, Quiet(c)
  PROVE  QuietMove(c)
<1>1. CASE \E x : Goto(c, x)
  BY <1>1, GotoStep DEF QuietMove
<1>2. CASE Answer(c) \/ Lose(c)
  BY <1>2 DEF QuietMove, Answer, Lose, TypeInv, Types
<1> QED BY <1>1, <1>2 DEF Quiet, Send, Authenticate, Claim, Lookup, Find, Put

LEMMA QuietInserts ==
  ASSUME TypeInv, NEW c \in Clients, Quiet(c), requests'[c].pc = "commit", requests'[c].created
  PROVE  /\ Subject(c) \notin DOMAIN contacts /\ ~InsertedByRequest(Subject(c))
         /\ ~InsertedByImport(Subject(c))
<1>1. CASE Put(c)
  <2>1. PICK o, b : \/ Goto(c, [pc |-> "answer", answer |-> Failed])
                    \/ /\ Goto(c, [pc |-> "commit", created |-> requests[c].created, outcome |-> o, addsProfile |-> b])
                       /\ ~(requests[c].created /\ Subject(c) \in DOMAIN contacts)
    BY <1>1 DEF Put, Subject
  <2>2. requests[c].created /\ Subject(c) \notin DOMAIN contacts
    BY <2>1, GotoStep
  <2> QED BY <1>1, <2>2 DEF Put, Subject
<1>2. CASE Find(c)
  <2>1. PICK b, x : Goto(c, [pc |-> "put", created |-> b, contact |-> x])
    BY <1>2 DEF Find
  <2> QED BY <2>1, GotoStep
<1>3. CASE Answer(c) \/ Lose(c)
  BY <1>3 DEF Answer, Lose, Idle, TypeInv, Types
<1>4. CASE Send(c) \/ Authenticate(c) \/ Lookup(c)
  BY <1>4, GotoStep DEF Send, Authenticate, Lookup
<1>5. CASE Claim(c)
  <2>1. PICK pc \in {"lookup", "find"} : Goto(c, [pc |-> pc])
    BY <1>5 DEF Claim
  <2> QED BY <2>1, GotoStep
<1> QED BY <1>1, <1>2, <1>3, <1>4, <1>5 DEF Quiet

LEMMA QuietWorks ==
  ASSUME TypeInv, NEW c \in Clients, Quiet(c), requests'[c].pc \in {"find", "put", "commit"}
  PROVE  \/ requests[c].pc \in {"find", "put", "commit"}
         \/ IdOf[c] \notin DOMAIN keys /\ ~HoldsId(IdOf[c])
<1>1. CASE Find(c) \/ Put(c)
  BY <1>1 DEF Find, Put
<1>2. CASE Answer(c) \/ Lose(c)
  BY <1>2 DEF Answer, Lose, Idle, TypeInv, Types
<1>3. CASE Send(c) \/ Authenticate(c) \/ Lookup(c)
  BY <1>3, GotoStep DEF Send, Authenticate, Lookup
<1>4. CASE Claim(c)
  <2>1. PICK pc \in {"lookup", "find"} : Goto(c, [pc |-> pc]) /\ (pc = "find" => IdOf[c] \notin DOMAIN keys)
    BY <1>4 DEF Claim
  <2> QED BY <1>4, <2>1, GotoStep DEF Claim, MayClaim
<1> QED BY <1>1, <1>2, <1>3, <1>4 DEF Quiet

LEMMA QuietAnswers ==
  ASSUME TypeInv, NEW c \in Clients, Quiet(c), requests'[c].pc = "answer",
         requests'[c].answer \notin {Failed, Conflict}
  PROVE  Settled(c, requests'[c].answer) \in Now \cup purged
<1>1. CASE Put(c)
  <2>1. PICK o, b : \/ Goto(c, [pc |-> "answer", answer |-> Failed])
                    \/ Goto(c, [pc |-> "commit", created |-> requests[c].created, outcome |-> o, addsProfile |-> b])
    BY <1>1 DEF Put
  <2> QED BY <2>1, GotoStep
<1>2. CASE Find(c)
  <2>1. PICK b, x : Goto(c, [pc |-> "put", created |-> b, contact |-> x])
    BY <1>2 DEF Find
  <2> QED BY <2>1, GotoStep
<1>3. CASE Answer(c) \/ Lose(c)
  BY <1>3 DEF Answer, Lose, Idle, TypeInv, Types
<1>4. CASE Send(c) \/ Authenticate(c)
  BY <1>4, GotoStep DEF Send, Authenticate
<1>5. CASE Claim(c)
  <2>1. PICK pc \in {"lookup", "find"} : Goto(c, [pc |-> pc])
    BY <1>5 DEF Claim
  <2> QED BY <2>1, GotoStep
<1>6. CASE Lookup(c)
  <2>1. PICK a : a = Replay(c)
    OBVIOUS
  <2>2. requests'[c].answer = a
    BY <1>6, <2>1, GotoStep DEF Lookup
  <2>3. IdOf[c] \in DOMAIN keys /\ keys[IdOf[c]].form = FormOf[c] /\ a = keys[IdOf[c]].answer
    BY <2>1, <2>2 DEF Replay, SameBody
  <2>4. keys[IdOf[c]] = [form |-> FormOf[c], answer |-> a]
    BY <2>3 DEF TypeInv, Types
  <2> QED BY <2>2, <2>3, <2>4 DEF Settled, Now
<1> QED BY <1>1, <1>2, <1>3, <1>4, <1>5, <1>6 DEF Quiet

-----------------------------------------------------------------------------
(* One inserter of an e-mail *)

(* The contacts and the open batch are as they were, but for rows' contents. *)
LEMMA InsertStays ==
  ASSUME InsertInv, DOMAIN contacts' = DOMAIN contacts,
         Importing' => Importing /\ DOMAIN import'.contacts = DOMAIN import.contacts,
         \A c \in Clients : Inserting(c)' => Inserting(c)
  PROVE  InsertInv'
BY DEF InsertInv, Subject

LEMMA InsertStep == TypeInv /\ InsertInv /\ [Next]_vars => InsertInv'
<1> SUFFICES ASSUME TypeInv, InsertInv, [Next]_vars PROVE InsertInv'
  OBVIOUS
<1>1. CASE UNCHANGED vars
  BY <1>1, InsertStays DEF vars, tables, Importing, Inserting
<1>2. ASSUME NEW c \in Clients, Quiet(c) PROVE InsertInv'
  <2>1. /\ UNCHANGED <<contacts, import>> /\ \A d \in Clients \ {c} : requests'[d] = requests[d]
    BY <1>2, QuietMoves DEF QuietMove, tables
  <2>2. CASE Inserting(c)'
    <3>1. /\ Subject(c) \notin DOMAIN contacts /\ ~InsertedByRequest(Subject(c))
          /\ ~InsertedByImport(Subject(c))
      BY <1>2, <2>2, QuietInserts DEF Inserting
    <3>2. \A d \in Clients : Inserting(d) => Subject(d) # Subject(c)
      BY <3>1 DEF InsertedByRequest, Inserting, Subject
    <3>3. \A d \in Clients \ {c} : Inserting(d)' <=> Inserting(d)
      BY <2>1 DEF Inserting
    <3> QED BY <2>1, <3>1, <3>2, <3>3 DEF InsertInv, Subject, Importing, InsertedByImport
  <2>3. CASE ~Inserting(c)'
    BY <2>1, <2>3, InsertStays DEF Importing, Inserting
  <2> QED BY <2>2, <2>3
<1>3. ASSUME NEW c \in Clients, Commit(c) PROVE InsertInv'
  <2>1. /\ requests[c].pc = "commit" /\ UNCHANGED import
        /\ requests'[c].pc = "answer" /\ \A d \in Clients \ {c} : requests'[d] = requests[d]
    BY <1>3, CommitShape
  <2>2. \A d \in Clients : Inserting(d)' => d # c /\ Inserting(d)
    BY <2>1 DEF Inserting
  <2>3. CASE UNCHANGED contacts
    BY <2>1, <2>2, <2>3, InsertStays DEF Importing
  <2>4. ASSUME NEW a \in Answers, Settles(c, a) PROVE InsertInv'
    <3>1. DOMAIN contacts' = DOMAIN contacts \cup {Subject(c)}
      BY <2>1, <2>4, SettledRows
    <3>2. CASE requests[c].created
      <4>1. Inserting(c)
        BY <2>1, <3>2 DEF Inserting
      <4> QED BY <2>1, <2>2, <3>1, <4>1 DEF InsertInv, Subject, Importing
    <3>3. CASE ~requests[c].created
      <4>1. Subject(c) \in DOMAIN contacts
        BY <2>1, <3>3 DEF TypeInv, RequestOK, LocalsOK
      <4> QED BY <2>1, <2>2, <3>1, <4>1, InsertStays DEF Importing
    <3> QED BY <3>2, <3>3
  <2> QED BY <1>3, <2>3, <2>4, CommitShape DEF tables
<1>4. ASSUME NEW i \in Ids, Purge(i) PROVE InsertInv'
  BY <1>4, PurgeShape, InsertStays DEF tables, Importing, Inserting
<1>5. ASSUME NEW e \in Emails, NEW kind \in Kinds, Disengage(e, kind) PROVE InsertInv'
  BY <1>5, DisengageShape, InsertStays DEF Importing, Inserting
<1>6. CASE StartImport
  <2>1. PICK n, S : import' = Batch(n, S)
    BY <1>6 DEF StartImport
  <2>2. DOMAIN import'.contacts = {} /\ UNCHANGED <<contacts, requests>>
    BY <1>6, <2>1, BatchFields DEF StartImport, tables
  <2> QED BY <2>2 DEF InsertInv, Inserting, Subject
<1>7. CASE AbortImport
  BY <1>7 DEF AbortImport, NoImport, InsertInv, Inserting, Subject, Importing, tables
<1>8. CASE SkipRow \/ FindRow
  BY <1>8, SkipShape, FindShape, InsertStays DEF tables, Importing, Inserting
<1>9. CASE PutRow \/ FlushRow
  <2>1. UNCHANGED <<contacts, requests>> /\ Importing
    BY <1>9, PutShape DEF tables, Importing
  <2>2. PICK e : e = EmailOf[Row]
    OBVIOUS
  <2>3. \/ import'.contacts = import.contacts
        \/ /\ import'.contacts = With(import.contacts, e, import.contact)
           /\ e \notin DOMAIN contacts /\ ~InsertedByRequest(e)
    BY <1>9, <2>2, PutShape DEF RowPut
  <2>4. CASE import'.contacts = import.contacts
    BY <2>1, <2>4, InsertStays DEF Importing, Inserting
  <2>5. CASE /\ import'.contacts = With(import.contacts, e, import.contact)
             /\ e \notin DOMAIN contacts /\ ~InsertedByRequest(e)
    <3>1. DOMAIN import'.contacts = DOMAIN import.contacts \cup {e}
      BY <2>5 DEF With
    <3>2. \A d \in Clients : Inserting(d) => Subject(d) # e
      BY <2>5 DEF InsertedByRequest, Inserting, Subject
    <3>3. \A d \in Clients : Inserting(d)' <=> Inserting(d)
      BY <2>1 DEF Inserting
    <3> QED BY <2>1, <2>5, <3>1, <3>2, <3>3 DEF InsertInv, Subject
  <2> QED BY <2>3, <2>4, <2>5
<1>10. CASE CommitRows
  <2>1. /\ Importing /\ UNCHANGED requests
        /\ DOMAIN contacts' = DOMAIN contacts \cup DOMAIN import.contacts
        /\ import'.pc = "idle" \/ import' = Batch(import.next, import.seen)
    BY <1>10, CommitRowsShape
  <2>2. Importing' => DOMAIN import'.contacts = {}
    <3>1. PICK n, S : n = import.next /\ S = import.seen
      OBVIOUS
    <3>2. import'.pc = "idle" \/ import' = Batch(n, S)
      BY <2>1, <3>1
    <3> QED BY <3>2, BatchFields DEF Importing
  <2>3. \A d \in Clients : Inserting(d)' <=> Inserting(d)
    BY <2>1 DEF Inserting
  <2> QED BY <2>1, <2>2, <2>3 DEF InsertInv, Subject
<1> QED BY <1>1, <1>2, <1>3, <1>4, <1>5, <1>6, <1>7, <1>8, <1>9, <1>10
        DEF Next, RequestStep, ImportStep, Quiet

LEMMA InsertInit == Init => InsertInv
BY DEF Init, InsertInv, Inserting, Idle, NoImport, Importing

-----------------------------------------------------------------------------
(* One request at work under a key *)

LEMMA KeyStep == TypeInv /\ KeyInv /\ [Next]_vars => KeyInv'
<1> SUFFICES ASSUME TypeInv, KeyInv, [Next]_vars PROVE KeyInv'
  OBVIOUS
<1>1. CASE UNCHANGED <<keys, requests>>
  BY <1>1 DEF KeyInv, Working
<1>2. ASSUME NEW c \in Clients, Quiet(c) PROVE KeyInv'
  <2>1. UNCHANGED keys /\ \A d \in Clients \ {c} : requests'[d] = requests[d]
    BY <1>2, QuietMoves DEF QuietMove
  <2>2. Working(c)' => Working(c) \/ (IdOf[c] \notin DOMAIN keys /\ ~HoldsId(IdOf[c]))
    BY <1>2, QuietWorks DEF Working
  <2>3. ASSUME Working(c)', ~Working(c)
        PROVE  IdOf[c] \notin DOMAIN keys /\ \A d \in Clients : Working(d) => IdOf[d] # IdOf[c]
    BY <2>2, <2>3 DEF HoldsId, Working
  <2>4. \A d \in Clients \ {c} : Working(d)' <=> Working(d)
    BY <2>1 DEF Working
  <2> QED BY <2>1, <2>3, <2>4 DEF KeyInv
<1>3. ASSUME NEW c \in Clients, Commit(c) PROVE KeyInv'
  <2>1. /\ requests[c].pc = "commit" /\ requests'[c].pc = "answer"
        /\ \A d \in Clients \ {c} : requests'[d] = requests[d]
    BY <1>3, CommitShape
  <2>2. \A d \in Clients : Working(d)' => d # c /\ Working(d)
    BY <2>1 DEF Working
  <2>3. Working(c)
    BY <2>1 DEF Working
  <2>4. DOMAIN keys' \subseteq DOMAIN keys \cup {IdOf[c]}
    <3>1. ASSUME NEW a \in Answers, Settles(c, a)
          PROVE  DOMAIN keys' \subseteq DOMAIN keys \cup {IdOf[c]}
      BY <2>1, <3>1, SettledRows
    <3> QED BY <1>3, <3>1, CommitShape
  <2> QED BY <2>2, <2>3, <2>4 DEF KeyInv
<1>4. ASSUME NEW i \in Ids, Purge(i) PROVE KeyInv'
  BY <1>4, PurgeShape DEF KeyInv, Working
<1>5. ASSUME NEW e \in Emails, NEW kind \in Kinds, Disengage(e, kind) PROVE KeyInv'
  BY <1>1, <1>5, DisengageShape
<1>6. CASE StartImport \/ ImportStep \/ AbortImport
  BY <1>1, <1>6 DEF StartImport, ImportStep, SkipRow, FindRow, PutRow, FlushRow, CommitRows, AbortImport, ImportOnly
<1> QED BY <1>1, <1>2, <1>3, <1>4, <1>5, <1>6 DEF Next, RequestStep, Quiet, vars

LEMMA KeyInit == Init => KeyInv
BY DEF Init, KeyInv, Working, Idle

-----------------------------------------------------------------------------
(* Keys and purged keys against what was written *)

(* What the import writes, it brought, and it hands out no key. *)
LEMMA ImportWritesRows ==
  ASSUME TypeInv, StartImport \/ ImportStep \/ AbortImport
  PROVE  /\ UNCHANGED <<keys, purged, requests, answers, welcomes>>
         /\ RunInv => \A f \in Forms : \E k \in Nat :
              /\ brought'[f] = brought[f] + k
              /\ written'[f] + stopped'[f] = written[f] + stopped[f] + k
<1>1. CASE CommitRows
  <2>1. Importing /\ UNCHANGED <<keys, purged, requests, answers, welcomes>>
        /\ written' = [f \in Forms |-> written[f] + (IF f \in import.written THEN 1 ELSE 0)]
        /\ stopped' = [f \in Forms |-> stopped[f] + (IF f \in import.stopped THEN 1 ELSE 0)]
        /\ brought' = [f \in Forms |-> brought[f] + (IF f \in import.written \cup import.stopped THEN 1 ELSE 0)]
    BY <1>1, CommitRowsShape
  <2>2. ASSUME RunInv, NEW f \in Forms
        PROVE  \E k \in Nat : /\ brought'[f] = brought[f] + k
                              /\ written'[f] + stopped'[f] = written[f] + stopped[f] + k
    <3>1. import.written \cap import.stopped = {}
      BY <2>1, <2>2 DEF RunInv
    <3>2. PICK n \in Nat, m \in Nat, k \in Nat :
            /\ n = (IF f \in import.written THEN 1 ELSE 0) /\ m = (IF f \in import.stopped THEN 1 ELSE 0)
            /\ k = (IF f \in import.written \cup import.stopped THEN 1 ELSE 0)
      OBVIOUS
    <3>3. n + m = k
      BY <3>1, <3>2
    <3>4. written[f] \in Nat /\ stopped[f] \in Nat /\ brought[f] \in Nat
      BY DEF TypeInv, Types
    <3>5. written'[f] = written[f] + n /\ stopped'[f] = stopped[f] + m /\ brought'[f] = brought[f] + k
      BY <2>1, <3>2
    <3> QED BY <3>3, <3>4, <3>5
  <2> QED BY <2>1, <2>2
<1>2. CASE ~CommitRows
  <2>1. UNCHANGED <<written, stopped, brought, keys, purged, requests, answers, welcomes>>
    BY <1>2 DEF StartImport, ImportStep, SkipRow, FindRow, PutRow, FlushRow, AbortImport, ImportOnly, tables
  <2>2. ASSUME NEW f \in Forms
        PROVE  brought'[f] = brought[f] + 0 /\ written'[f] + stopped'[f] = written[f] + stopped[f] + 0
    BY <2>1 DEF TypeInv, Types
  <2> QED BY <2>1, <2>2
<1> QED BY <1>1, <1>2

LEMMA PromiseStays ==
  ASSUME PromiseInv, UNCHANGED <<written, stopped, brought, keys, purged>>
  PROVE  PromiseInv'
<1>1. Now' = Now
  BY NowStays
<1> QED BY <1>1 DEF PromiseInv

LEMMA PromisesAreFinite ==
  ASSUME TypeInv, NEW f
  PROVE  /\ IsFiniteSet(Promises(f, Now)) /\ IsFiniteSet(Promises(f, purged))
         /\ Cardinality(Promises(f, Now)) \in Nat /\ Cardinality(Promises(f, purged)) \in Nat
<1>1. Promises(f, Now) \subseteq Now /\ Promises(f, purged) \subseteq purged
  BY DEF Promises
<1> QED BY <1>1, FS_Subset, FS_CardinalityType DEF TypeInv, Types

LEMMA PromiseBrought ==
  ASSUME TypeInv, RunInv, PromiseInv, StartImport \/ ImportStep \/ AbortImport
  PROVE  PromiseInv'
<1>1. PICK now, old : now = Now /\ old = purged
  OBVIOUS
<1>2. Now' = now /\ purged' = old
  BY <1>1, ImportWritesRows, NowStays
<1>3. ASSUME NEW f \in Forms
      PROVE  /\ written'[f] + stopped'[f] =
                  Cardinality(Promises(f, now)) + Cardinality(Promises(f, old)) + brought'[f]
             /\ Promises(f, now) \cap old = {}
             /\ \A x \in Promises(f, now \cup old) : x.row.answer.nth \in 1 .. written'[f] + stopped'[f]
  <2>1. PICK k \in Nat : /\ brought'[f] = brought[f] + k
                         /\ written'[f] + stopped'[f] = written[f] + stopped[f] + k
    BY ImportWritesRows
  <2>2. PICK p \in Nat, q \in Nat : p = Cardinality(Promises(f, now)) /\ q = Cardinality(Promises(f, old))
    BY <1>1, PromisesAreFinite
  <2>3. PICK total \in Nat, b \in Nat : total = written[f] + stopped[f] /\ b = brought[f]
    BY DEF TypeInv, Types
  <2>4. total = p + q + b
    BY <1>1, <2>2, <2>3 DEF PromiseInv
  <2>5. total + k = p + q + (b + k)
    BY <2>4
  <2>6. \A x \in Promises(f, now \cup old) : x.row.answer.nth \in 1 .. total + k
    <3>1. \A x \in Promises(f, now \cup old) : x.row.answer.nth \in 1 .. total
      BY <1>1, <2>3 DEF PromiseInv
    <3> QED BY <3>1
  <2>7. Promises(f, now) \cap old = {}
    BY <1>1 DEF PromiseInv
  <2> QED BY <2>1, <2>2, <2>3, <2>5, <2>6, <2>7
<1> QED BY <1>2, <1>3 DEF PromiseInv

LEMMA PromiseSettled ==
  ASSUME TypeInv, KeyInv, PromiseInv, NEW c \in Clients, Commit(c), NEW a \in Answers, Settles(c, a)
  PROVE  PromiseInv'
<1>0. PICK x, g, now, old : x = Settled(c, a) /\ g = FormOf[c] /\ now = Now /\ old = purged
  OBVIOUS
<1>1. requests[c].pc = "commit" /\ purged' = purged /\ IdOf[c] \notin DOMAIN keys
  BY CommitShape DEF KeyInv, Working
<1>2. Now' = now \cup {x} /\ x \notin now
  BY <1>0, <1>1, SettledKeys
<1>3. PICK n \in Nat, m \in Nat, total \in Nat :
        /\ n = (IF requests[c].outcome = "accepted" THEN 1 ELSE 0)
        /\ m = (IF requests[c].outcome = "blocked" THEN 1 ELSE 0)
        /\ total = written[g] + stopped[g]
  <2>1. written[g] \in Nat /\ stopped[g] \in Nat
    BY <1>0, SubjectsAreEmails DEF TypeInv, Types
  <2>2. written[g] + stopped[g] \in Nat
    BY <2>1
  <2> QED BY <2>2
<1>4. /\ written' = [written EXCEPT ![g] = @ + n] /\ stopped' = [stopped EXCEPT ![g] = @ + m]
      /\ a = IF requests[c].outcome = "refused" THEN Refused ELSE Accepted(total + 1)
      /\ brought' = brought
  BY <1>0, <1>3 DEF Settles
<1>5. ASSUME NEW f \in Forms
      PROVE  /\ written'[f] + stopped'[f] =
                  Cardinality(Promises(f, now \cup {x})) + Cardinality(Promises(f, old)) + brought'[f]
             /\ Promises(f, now \cup {x}) \cap old = {}
             /\ \A y \in Promises(f, (now \cup {x}) \cup old) : y.row.answer.nth \in 1 .. written'[f] + stopped'[f]
  <2>0. /\ written[f] + stopped[f] =
             Cardinality(Promises(f, now)) + Cardinality(Promises(f, old)) + brought[f]
        /\ Promises(f, now) \cap old = {}
        /\ \A y \in Promises(f, now \cup old) : y.row.answer.nth \in 1 .. written[f] + stopped[f]
    BY <1>0 DEF PromiseInv
  <2>1. written[f] \in Nat /\ stopped[f] \in Nat /\ brought[f] \in Nat /\ brought'[f] = brought[f]
    BY <1>4 DEF TypeInv, Types
  <2>2. IsFiniteSet(Promises(f, now)) /\ Cardinality(Promises(f, now)) \in Nat
        /\ Cardinality(Promises(f, old)) \in Nat
    BY <1>0, PromisesAreFinite
  <2>3. x.row.form = g /\ x.row.answer = a
    BY <1>0 DEF Settled
  <2>4. CASE f # g \/ requests[c].outcome = "refused"
    <3>1. written'[f] = written[f] /\ stopped'[f] = stopped[f]
      BY <1>3, <1>4, <2>1, <2>4 DEF TypeInv, Types
    <3>2. f = g => a.code = 400
      BY <1>4, <2>4 DEF Refused
    <3>3. Promises(f, {x}) = {}
      BY <2>3, <3>2 DEF Promises
    <3>4. /\ Promises(f, now \cup {x}) = Promises(f, now)
          /\ Promises(f, (now \cup {x}) \cup old) = Promises(f, now \cup old)
      BY <3>3 DEF Promises
    <3> QED BY <2>0, <2>1, <3>1, <3>4
  <2>5. CASE f = g /\ requests[c].outcome # "refused"
    <3>1. n + m = 1
      BY <1>1, <1>3, <2>5 DEF TypeInv, RequestOK, LocalsOK, Outcomes
    <3>2. written'[f] = written[f] + n /\ stopped'[f] = stopped[f] + m
      BY <1>4, <2>1, <2>5 DEF TypeInv, Types
    <3>3. written'[f] + stopped'[f] = total + 1 /\ total = written[f] + stopped[f]
      BY <1>3, <2>1, <2>5, <3>1, <3>2
    <3>4. a.code = 201 /\ a.nth = total + 1
      BY <1>4, <2>5 DEF Accepted
    <3>5. Promises(f, now \cup {x}) = Promises(f, now) \cup {x}
      BY <2>3, <2>5, <3>4 DEF Promises
    <3>6. Promises(f, (now \cup {x}) \cup old) = Promises(f, now \cup old) \cup {x}
      BY <2>3, <2>5, <3>4 DEF Promises
    <3>7. x \notin Promises(f, now)
      BY <1>2 DEF Promises
    <3>8. Cardinality(Promises(f, now \cup {x})) = Cardinality(Promises(f, now)) + 1
      BY <2>2, <3>5, <3>7, FS_AddElement
    <3>9. x \notin old
      <4>1. x \in old => x \in Promises(f, now \cup old)
        BY <2>3, <2>5, <3>4 DEF Promises
      <4>2. x.row.answer.nth = total + 1
        BY <2>3, <3>4
      <4> QED BY <2>0, <3>3, <4>1, <4>2
    <3>10. Promises(f, now \cup {x}) \cap old = {}
      BY <2>0, <3>5, <3>9
    <3>11. ASSUME NEW y \in Promises(f, (now \cup {x}) \cup old)
           PROVE  y.row.answer.nth \in 1 .. written'[f] + stopped'[f]
      <4>1. CASE y = x
        <5>1. y.row.answer.nth = total + 1
          BY <2>3, <3>4, <4>1
        <5> QED BY <3>3, <5>1
      <4>2. CASE y # x
        <5>1. y.row.answer.nth \in 1 .. total
          BY <2>0, <3>3, <3>6, <4>2
        <5> QED BY <3>3, <5>1
      <4> QED BY <4>1, <4>2
    <3>12. written'[f] + stopped'[f] =
             Cardinality(Promises(f, now \cup {x})) + Cardinality(Promises(f, old)) + brought'[f]
      <4>1. PICK p \in Nat, q \in Nat, b \in Nat :
              /\ p = Cardinality(Promises(f, now)) /\ q = Cardinality(Promises(f, old)) /\ b = brought[f]
        BY <2>1, <2>2
      <4>2. total = p + q + b /\ Cardinality(Promises(f, now \cup {x})) = p + 1
        BY <2>0, <3>3, <3>8, <4>1
      <4>3. total + 1 = (p + 1) + q + b
        BY <4>2
      <4> QED BY <2>1, <3>3, <4>1, <4>2, <4>3
    <3> QED BY <3>10, <3>11, <3>12
  <2> QED BY <2>4, <2>5
<1> QED BY <1>0, <1>1, <1>2, <1>5 DEF PromiseInv

LEMMA PromisePurged ==
  ASSUME TypeInv, PromiseInv, NEW i \in Ids, Purge(i)
  PROVE  PromiseInv'
<1>0. PICK x, now, old : x = [id |-> i, row |-> keys[i]] /\ now = Now /\ old = purged
  OBVIOUS
<1>1. /\ x \in now /\ Now' = now \ {x} /\ purged' = old \cup {x} /\ UNCHANGED <<written, stopped, brought>>
  BY <1>0, PurgeShape DEF tables
<1>2. ASSUME NEW f \in Forms
      PROVE  /\ written[f] + stopped[f] =
                  Cardinality(Promises(f, now \ {x})) + Cardinality(Promises(f, old \cup {x})) + brought[f]
             /\ Promises(f, now \ {x}) \cap (old \cup {x}) = {}
             /\ \A y \in Promises(f, (now \ {x}) \cup (old \cup {x})) : y.row.answer.nth \in 1 .. written[f] + stopped[f]
  <2>0. /\ written[f] + stopped[f] =
             Cardinality(Promises(f, now)) + Cardinality(Promises(f, old)) + brought[f]
        /\ Promises(f, now) \cap old = {}
        /\ \A y \in Promises(f, now \cup old) : y.row.answer.nth \in 1 .. written[f] + stopped[f]
    BY <1>0 DEF PromiseInv
  <2>1. /\ IsFiniteSet(Promises(f, now)) /\ IsFiniteSet(Promises(f, old))
        /\ Cardinality(Promises(f, now)) \in Nat /\ Cardinality(Promises(f, old)) \in Nat
    BY <1>0, PromisesAreFinite
  <2>2. (now \ {x}) \cup (old \cup {x}) = now \cup old
    BY <1>1
  <2>3. Promises(f, now \ {x}) \cap (old \cup {x}) = {}
    BY <2>0 DEF Promises
  <2>4. CASE x \notin Promises(f, now)
    <3>1. Promises(f, now \ {x}) = Promises(f, now) /\ Promises(f, old \cup {x}) = Promises(f, old)
      BY <1>1, <2>4 DEF Promises
    <3> QED BY <2>0, <2>2, <2>3, <3>1
  <2>5. CASE x \in Promises(f, now)
    <3>1. Promises(f, now \ {x}) = Promises(f, now) \ {x} /\ Promises(f, old \cup {x}) = Promises(f, old) \cup {x}
      BY <2>5 DEF Promises
    <3>2. x \notin Promises(f, old)
      BY <2>0, <2>5 DEF Promises
    <3>3. PICK p \in Nat, q \in Nat : p = Cardinality(Promises(f, now)) /\ q = Cardinality(Promises(f, old))
      BY <2>1
    <3>4. Cardinality(Promises(f, now \ {x})) = p - 1
      BY <2>1, <2>5, <3>1, <3>3, FS_RemoveElement
    <3>5. Cardinality(Promises(f, old \cup {x})) = q + 1
      BY <2>1, <3>1, <3>2, <3>3, FS_AddElement
    <3>6. p + q = (p - 1) + (q + 1)
      OBVIOUS
    <3> QED BY <2>0, <2>2, <2>3, <3>3, <3>4, <3>5, <3>6
  <2> QED BY <2>4, <2>5
<1> QED BY <1>1, <1>2 DEF PromiseInv

LEMMA PromiseStep == TypeInv /\ KeyInv /\ RunInv /\ PromiseInv /\ [Next]_vars => PromiseInv'
<1> SUFFICES ASSUME TypeInv, KeyInv, RunInv, PromiseInv, [Next]_vars PROVE PromiseInv'
  OBVIOUS
<1>1. CASE UNCHANGED vars
  BY <1>1, PromiseStays DEF vars, tables
<1>2. ASSUME NEW c \in Clients, Quiet(c) PROVE PromiseInv'
  BY <1>2, QuietMoves, PromiseStays DEF QuietMove, tables
<1>3. ASSUME NEW c \in Clients, Commit(c) PROVE PromiseInv'
  BY <1>3, CommitShape, PromiseSettled, PromiseStays DEF tables
<1>4. ASSUME NEW i \in Ids, Purge(i) PROVE PromiseInv'
  BY <1>4, PromisePurged
<1>5. ASSUME NEW e \in Emails, NEW kind \in Kinds, Disengage(e, kind) PROVE PromiseInv'
  BY <1>5, DisengageShape, PromiseStays
<1>6. CASE StartImport \/ ImportStep \/ AbortImport
  BY <1>6, PromiseBrought
<1> QED BY <1>1, <1>2, <1>3, <1>4, <1>5, <1>6 DEF Next, RequestStep, Quiet

LEMMA PromiseInit == Init => PromiseInv
<1> SUFFICES ASSUME Init PROVE PromiseInv
  OBVIOUS
<1>1. DOMAIN <<>> = {}
  OBVIOUS
<1>2. Now = {} /\ purged = {}
  BY <1>1 DEF Init, Now
<1>3. \A f : Promises(f, {}) = {}
  BY DEF Promises
<1>4. \A f \in Forms : written[f] = 0 /\ stopped[f] = 0 /\ brought[f] = 0
  BY DEF Init
<1> QED BY <1>2, <1>3, <1>4, FS_EmptySet DEF PromiseInv

-----------------------------------------------------------------------------
(* Runs of the import *)

LEMMA RunStays ==
  ASSUME TypeInv, RunInv, UNCHANGED <<brought, imports>>,
         Importing' => /\ Importing /\ import'.written = import.written /\ import'.stopped = import.stopped
                       /\ import'.next \in {import.next, import.next + 1}
  PROVE  RunInv'
<1>1. ASSUME Importing', NEW n \in DOMAIN Rows, n >= import'.next
      PROVE  n >= import.next
  <2>1. n \in Nat /\ import.next \in Nat /\ import'.next \in {import.next, import.next + 1}
    BY <1>1, RowsAreForms, OpenImport
  <2> QED BY <1>1, <2>1
<1> QED BY <1>1 DEF RunInv, Pending

LEMMA RunPuts ==
  ASSUME TypeInv, RunInv, PutRow \/ FlushRow, NEW o \in Outcomes, RowPut(o)
  PROVE  RunInv'
<1>1. /\ Importing /\ UNCHANGED <<brought, imports>> /\ import.next \in DOMAIN Rows /\ import.next \in Nat
  BY PutShape, OpenImport DEF Importing, TypeInv, ImportOK, tables, counters
<1>2. PICK r \in ImportedForms : r = Row /\ r = Rows[import.next]
  BY <1>1, RowsAreForms DEF Row
<1>3. r \notin Pending /\ brought[r] < imports
  BY <1>1, <1>2 DEF RunInv
<1>4. /\ import'.written = import.written \cup (IF o = "accepted" THEN {r} ELSE {})
      /\ import'.stopped = import.stopped \cup (IF o = "blocked" THEN {r} ELSE {})
      /\ import'.next = import.next + 1
  BY <1>2 DEF RowPut
<1>5. Pending' \subseteq Pending \cup {r} /\ import'.written \cap import'.stopped = {}
  BY <1>1, <1>3, <1>4 DEF Pending, RunInv
<1>6. \A f \in Pending' : brought'[f] < imports'
  BY <1>1, <1>3, <1>5 DEF RunInv
<1>7. ASSUME NEW n \in DOMAIN Rows, n >= import'.next PROVE Rows[n] \notin Pending' /\ brought'[Rows[n]] < imports'
  <2>1. n \in Nat /\ n >= import.next /\ n # import.next
    BY <1>1, <1>4, <1>7, RowsAreForms
  <2>2. Rows[n] # r
    BY <1>1, <1>2, <2>1, RowsAreForms
  <2>3. Rows[n] \notin Pending /\ brought[Rows[n]] < imports
    BY <1>1, <2>1 DEF RunInv
  <2> QED BY <1>1, <1>5, <2>2, <2>3
<1>8. imports' \in Nat /\ \A f \in Forms : brought'[f] <= imports'
  BY <1>1 DEF RunInv
<1> QED BY <1>5, <1>6, <1>7, <1>8 DEF RunInv

LEMMA RunCommits ==
  ASSUME TypeInv, RunInv, CommitRows
  PROVE  RunInv'
<1>1. /\ Importing /\ imports' = imports
      /\ brought' = [f \in Forms |-> brought[f] + (IF f \in Pending THEN 1 ELSE 0)]
  BY CommitRowsShape DEF counters, Pending
<1>2. ASSUME NEW f \in Forms
      PROVE  /\ brought[f] \in Nat /\ imports \in Nat /\ brought'[f] <= imports
             /\ f \notin Pending => brought'[f] = brought[f]
  <2>1. brought[f] \in Nat /\ imports \in Nat /\ brought[f] <= imports
    BY DEF TypeInv, Types, RunInv
  <2>2. CASE f \in Pending
    <3>1. brought'[f] = brought[f] + 1 /\ brought[f] < imports
      BY <1>1, <2>2 DEF RunInv
    <3> QED BY <2>1, <2>2, <3>1
  <2>3. CASE f \notin Pending
    <3>1. brought'[f] = brought[f]
      BY <1>1, <2>1, <2>3
    <3> QED BY <2>1, <3>1
  <2> QED BY <2>2, <2>3
<1>3. PICK k, S : k = import.next /\ S = import.seen
  OBVIOUS
<1>4. import'.pc = "idle" \/ import' = Batch(k, S)
  BY <1>3, CommitRowsShape
<1>5. imports' \in Nat /\ \A f \in Forms : brought'[f] <= imports'
  BY <1>1, <1>2 DEF RunInv
<1>6. CASE import'.pc = "idle"
  BY <1>5, <1>6 DEF RunInv, Importing
<1>7. CASE import' = Batch(k, S)
  <2>1. import'.next = k /\ import'.written = {} /\ import'.stopped = {}
    BY <1>7, BatchFields
  <2>2. ASSUME NEW n \in DOMAIN Rows, n >= k PROVE brought'[Rows[n]] < imports'
    <3>1. Rows[n] \notin Pending /\ brought[Rows[n]] < imports /\ Rows[n] \in Forms
      BY <1>1, <1>3, <2>2, RowsAreForms DEF RunInv
    <3> QED BY <1>1, <1>2, <3>1
  <2> QED BY <1>5, <2>1, <2>2 DEF RunInv, Pending
<1> QED BY <1>4, <1>6, <1>7

LEMMA RunStep == TypeInv /\ RunInv /\ [Next]_vars => RunInv'
<1> SUFFICES ASSUME TypeInv, RunInv, [Next]_vars PROVE RunInv'
  OBVIOUS
<1>1. CASE UNCHANGED <<brought, import, imports>>
  BY <1>1, RunStays DEF Importing
<1>2. ASSUME NEW c \in Clients, Quiet(c) PROVE UNCHANGED <<brought, import, imports>>
  <2>1. UNCHANGED <<brought, import>>
    BY <1>2, QuietMoves DEF QuietMove, tables
  <2> QED BY <1>2, <2>1 DEF Quiet, Send, Authenticate, Claim, Lookup, Find, Put, Lose, Goto, Answer, Event, counters
<1>3. ASSUME NEW c \in Clients, Commit(c) PROVE UNCHANGED <<brought, import, imports>>
  BY <1>3, CommitShape DEF tables, counters, Settles
<1>4. ASSUME NEW i \in Ids, Purge(i) PROVE UNCHANGED <<brought, import, imports>>
  BY <1>4 DEF Purge, Event, tables
<1>5. ASSUME NEW e \in Emails, NEW kind \in Kinds, Disengage(e, kind) PROVE UNCHANGED <<brought, import, imports>>
  BY <1>5 DEF Disengage, Event
<1>6. CASE StartImport
  <2>1. PICK n, S : import' = Batch(n, S) /\ imports' = imports + 1 /\ brought' = brought
    BY <1>6 DEF StartImport, tables
  <2>2. import'.written = {} /\ import'.stopped = {}
    BY <2>1, BatchFields
  <2>3. ASSUME NEW f \in Forms PROVE brought'[f] <= imports' /\ brought'[f] < imports'
    <3>1. brought[f] \in Nat /\ imports \in Nat /\ brought[f] <= imports
      BY DEF TypeInv, Types, RunInv
    <3> QED BY <2>1, <3>1
  <2>4. imports' \in Nat
    BY <2>1 DEF RunInv
  <2> QED BY <2>2, <2>3, <2>4, RowsAreForms DEF RunInv, Pending
<1>7. CASE AbortImport
  <2>1. UNCHANGED <<brought, imports>> /\ ~Importing'
    BY <1>7 DEF AbortImport, Event, NoImport, Importing, tables
  <2> QED BY <2>1, RunStays
<1>8. CASE SkipRow \/ FindRow
  BY <1>8, SkipShape, FindShape, RunStays DEF Importing, tables, counters
<1>9. CASE PutRow \/ FlushRow
  <2>1. Importing /\ UNCHANGED <<brought, imports>>
    BY <1>9, PutShape DEF Importing, tables, counters
  <2> QED BY <1>9, <2>1, PutShape, RunPuts, RunStays
<1>10. CASE CommitRows
  BY <1>10, RunCommits
<1> QED BY <1>1, <1>2, <1>3, <1>4, <1>5, <1>6, <1>7, <1>8, <1>9, <1>10
        DEF Next, RequestStep, ImportStep, Quiet, vars, tables, counters

LEMMA RunInit == Init => RunInv
BY DEF Init, RunInv, Importing, NoImport

-----------------------------------------------------------------------------
(* Answers, and what keys and purged keys hold *)

LEMMA KeptStays ==
  ASSUME TypeInv, KeyInv, [Next]_vars
  PROVE  (Now \cup purged) \subseteq (Now' \cup purged')
<1>1. CASE UNCHANGED <<keys, purged>>
  BY <1>1, NowStays
<1>2. ASSUME NEW c \in Clients, Commit(c) PROVE (Now \cup purged) \subseteq (Now' \cup purged')
  <2>1. requests[c].pc = "commit" /\ UNCHANGED purged
    BY <1>2, CommitShape
  <2>2. IdOf[c] \notin DOMAIN keys
    BY <2>1 DEF KeyInv, Working
  <2>3. ASSUME NEW a \in Answers, Settles(c, a) PROVE Now \subseteq Now'
    BY <2>1, <2>2, <2>3, SettledKeys
  <2> QED BY <1>1, <1>2, <2>1, <2>3, CommitShape
<1>3. ASSUME NEW i \in Ids, Purge(i) PROVE (Now \cup purged) \subseteq (Now' \cup purged')
  BY <1>3, PurgeShape
<1>4. ASSUME NEW c \in Clients, Quiet(c) PROVE UNCHANGED <<keys, purged>>
  BY <1>4, QuietMoves DEF QuietMove
<1>5. ASSUME NEW e \in Emails, NEW kind \in Kinds, Disengage(e, kind) PROVE UNCHANGED <<keys, purged>>
  BY <1>5, DisengageShape
<1>6. CASE StartImport \/ ImportStep \/ AbortImport
  BY <1>1, <1>6, ImportWritesRows
<1> QED BY <1>1, <1>2, <1>3, <1>4, <1>5, <1>6 DEF Next, RequestStep, Quiet, vars

AnswersInv == AnswersAreKept /\ AnswerInv

LEMMA AnswerStep == TypeInv /\ KeyInv /\ AnswersInv /\ [Next]_vars => AnswersInv'
<1> SUFFICES ASSUME TypeInv, KeyInv, AnswersInv, [Next]_vars PROVE AnswersInv'
  OBVIOUS
<1>1. \A c \in Clients : \A a :
        Settled(c, a) \in Now \cup purged => Settled(c, a) \in Now' \cup purged'
  BY KeptStays
<1>2. \A c \in Clients : answers[c] \notin {None, Conflict} => Settled(c, answers[c]) \in Now \cup purged
  BY DEF AnswersInv, AnswersAreKept, Settled
<1>3. SUFFICES ASSUME NEW c \in Clients
               PROVE  /\ answers'[c] \notin {None, Conflict} => Settled(c, answers'[c]) \in Now' \cup purged'
                      /\ requests'[c].pc = "answer" /\ requests'[c].answer \notin {Failed, Conflict}
                           => Settled(c, requests'[c].answer) \in Now' \cup purged'
  BY DEF AnswersInv, AnswersAreKept, AnswerInv, Settled
<1>4. CASE answers'[c] = answers[c] /\ requests'[c] = requests[c]
  BY <1>1, <1>2, <1>4 DEF AnswersInv, AnswerInv
<1>5. CASE Quiet(c)
  <2>1. requests'[c].pc = "answer" /\ requests'[c].answer \notin {Failed, Conflict}
           => Settled(c, requests'[c].answer) \in Now' \cup purged'
    BY <1>1, <1>5, QuietAnswers
  <2>2. CASE answers'[c] = answers[c]
    BY <1>1, <1>2, <2>1, <2>2
  <2>3. CASE Answer(c)
    <3>1. answers'[c] = (IF requests[c].answer = Failed THEN None ELSE requests[c].answer)
          /\ requests[c].pc = "answer"
      BY <2>3 DEF Answer, TypeInv, Types
    <3> QED BY <1>1, <2>1, <3>1 DEF AnswersInv, AnswerInv
  <2> QED BY <1>5, <2>2, <2>3 DEF Quiet, Send, Authenticate, Claim, Lookup, Find, Put, Lose, Goto
<1>6. CASE Commit(c)
  <2>1. requests[c].pc = "commit" /\ UNCHANGED answers
    BY <1>6, CommitShape
  <2>2. IdOf[c] \notin DOMAIN keys
    BY <2>1 DEF KeyInv, Working
  <2>3. CASE requests'[c] = [pc |-> "answer", answer |-> Failed]
    BY <1>1, <1>2, <2>1, <2>3
  <2>4. ASSUME NEW a \in Answers, Settles(c, a), requests'[c] = [pc |-> "answer", answer |-> a]
        PROVE  Settled(c, requests'[c].answer) \in Now' \cup purged'
    BY <2>1, <2>2, <2>4, SettledKeys DEF Settled
  <2> QED BY <1>1, <1>2, <1>6, <2>1, <2>3, <2>4, CommitShape
<1>7. ASSUME NEW d \in Clients, d # c, Quiet(d) \/ Commit(d)
      PROVE  answers'[c] = answers[c] /\ requests'[c] = requests[c]
  <2>1. requests'[c] = requests[c]
    BY <1>7, QuietMoves, CommitShape DEF QuietMove
  <2> QED BY <1>7, <2>1 DEF Quiet, Send, Authenticate, Claim, Lookup, Find, Put, Lose, Goto, Answer, Commit,
                            TypeInv, Types
<1>8. ASSUME \/ \E i \in Ids : Purge(i)
             \/ \E e \in Emails, kind \in Kinds : Disengage(e, kind)
             \/ StartImport \/ ImportStep \/ AbortImport
             \/ UNCHANGED vars
      PROVE  UNCHANGED <<answers, requests>>
  BY <1>8, PurgeShape, DisengageShape, ImportWritesRows DEF vars
<1> QED BY <1>4, <1>5, <1>6, <1>7, <1>8 DEF Next, RequestStep, Quiet

LEMMA AnswerInit == Init => AnswersInv
BY DEF Init, AnswersInv, AnswersAreKept, AnswerInv, Idle

-----------------------------------------------------------------------------
(* Rows of the forms database that made a contact *)

(* Nothing but the commit of a batch makes an imported contact or brings a row. *)
ContactsByHand ==
  /\ DOMAIN contacts \subseteq DOMAIN contacts'
  /\ \A e \in DOMAIN contacts' :
       \/ ~contacts'[e].imported
       \/ e \in DOMAIN contacts /\ contacts'[e].imported = contacts[e].imported /\ contacts'[e].by = contacts[e].by
  /\ UNCHANGED brought

LEMMA SameRowsByHand ==
  ASSUME UNCHANGED <<contacts, brought>>
  PROVE  ContactsByHand
BY DEF ContactsByHand

LEMMA ByHandImports ==
  ASSUME ContactsByHand, NEW r, Imported(r)'
  PROVE  Imported(r)
BY DEF ContactsByHand, Imported

LEMMA RowStays ==
  ASSUME TypeInv, RowInv, ContactsByHand, UNCHANGED import
  PROVE  RowInv'
<1>1. /\ \A r \in ImportedForms : brought'[r] > 0 => EmailOf[r] \in DOMAIN contacts'
      /\ \A r \in ImportedForms : Imported(r)' => brought'[r] = 1
  BY ByHandImports DEF RowInv, ContactsByHand
<1>2. ASSUME Importing
      PROVE  /\ \A r \in ImportedForms : Imported(r)' => r \in import.seen
             /\ \A r \in Pending : /\ EmailOf[r] \in DOMAIN contacts' \cup DOMAIN import.contacts
                                   /\ ~Imported(r)'
  BY <1>2, ByHandImports DEF RowInv, ContactsByHand
<1> QED BY <1>1, <1>2 DEF RowInv, Importing, Row, Pending

(* A batch begins with what is known of the contacts committed. *)
LEMMA RowsOfBatch ==
  ASSUME NEW n, NEW S, import' = Batch(n, S),
         \A r \in ImportedForms : brought'[r] > 0 => EmailOf[r] \in DOMAIN contacts',
         \A r \in ImportedForms : Imported(r)' => brought'[r] = 1 /\ r \in S
  PROVE  RowInv'
<1>1. /\ import'.pc = "find" /\ import'.seen = S /\ DOMAIN import'.contacts = {}
      /\ import'.written = {} /\ import'.stopped = {}
  BY BatchFields
<1> QED BY <1>1 DEF RowInv, Pending

LEMMA RowIsPut ==
  ASSUME TypeInv, RowInv, PutRow \/ FlushRow, NEW o \in Outcomes, RowPut(o)
  PROVE  RowInv'
<1>1. PICK r \in ImportedForms : r = Row /\ import.next \in DOMAIN Rows
  BY PutShape, RowsAreForms DEF Row, TypeInv, ImportOK
<1>2. /\ import'.contacts = (IF o # "refused" /\ import.created
                             THEN With(import.contacts, EmailOf[r], import.contact)
                             ELSE import.contacts)
      /\ import'.written = import.written \cup (IF o = "accepted" THEN {r} ELSE {})
      /\ import'.seen = import.seen \cup (IF o = "accepted" THEN {r} ELSE {})
      /\ import'.stopped = import.stopped \cup (IF o = "blocked" THEN {r} ELSE {})
      /\ o # "refused" /\ import.created => o = "accepted"
  BY <1>1 DEF RowPut
<1>3. /\ Importing /\ import'.pc \notin {"put", "flush"}
      /\ import.created \in BOOLEAN /\ (import.created => import.contact.by = r)
      /\ ~import.created => EmailOf[r] \in DOMAIN contacts \cup DOMAIN import.contacts
      /\ UNCHANGED <<contacts, brought>>
  BY <1>1, PutShape DEF Importing, TypeInv, ImportOK, NewContact, tables, RowPut
<1>4. r \notin import.seen /\ ~Imported(r)
  BY <1>1, <1>3, PutShape DEF RowInv
<1>5. \A q : Imported(q)' <=> Imported(q)
  BY <1>3 DEF Imported
<1>6. CASE o = "refused"
  <2>1. /\ import'.contacts = import.contacts /\ import'.written = import.written
        /\ import'.seen = import.seen /\ import'.stopped = import.stopped
    BY <1>2, <1>6
  <2> QED BY <1>3, <1>5, <2>1 DEF RowInv, Pending
<1>7. CASE o # "refused" /\ ~import.created
  <2>1. /\ import'.contacts = import.contacts
        /\ import.written \subseteq import'.written /\ import.seen \subseteq import'.seen
        /\ import'.written \subseteq import'.seen \cup import.written
        /\ Pending' \subseteq Pending \cup {r}
    BY <1>2, <1>7 DEF Pending
  <2>2. \A q \in import'.written : q \in import'.seen
    BY <1>3, <2>1 DEF RowInv
  <2>3. \A e \in DOMAIN import'.contacts : import'.contacts[e].by \in import'.written
    BY <1>3, <2>1 DEF RowInv
  <2>4. \A q \in Pending' : EmailOf[q] \in DOMAIN contacts' \cup DOMAIN import'.contacts /\ ~Imported(q)'
    BY <1>3, <1>4, <1>5, <1>7, <2>1 DEF RowInv
  <2> QED BY <1>3, <1>5, <2>1, <2>2, <2>3, <2>4 DEF RowInv
<1>8. CASE o # "refused" /\ import.created
  <2>1. /\ DOMAIN import'.contacts = DOMAIN import.contacts \cup {EmailOf[r]}
        /\ import'.contacts[EmailOf[r]] = import.contact
        /\ \A e \in DOMAIN import.contacts \ {EmailOf[r]} : import'.contacts[e] = import.contacts[e]
        /\ import'.written = import.written \cup {r} /\ import'.seen = import.seen \cup {r}
        /\ import'.stopped = import.stopped
    BY <1>2, <1>8 DEF With
  <2>2. \A e \in DOMAIN import'.contacts : import'.contacts[e].by \in import'.written
    BY <1>3, <1>8, <2>1 DEF RowInv
  <2>3. \A q \in Pending' : EmailOf[q] \in DOMAIN contacts' \cup DOMAIN import'.contacts /\ ~Imported(q)'
    BY <1>3, <1>4, <1>5, <2>1 DEF RowInv, Pending
  <2> QED BY <1>3, <1>5, <2>1, <2>2, <2>3 DEF RowInv
<1> QED BY <1>3, <1>6, <1>7, <1>8

LEMMA RowCommit ==
  ASSUME TypeInv, RowInv, CommitRows
  PROVE  RowInv'
<1>1. /\ Importing /\ DOMAIN contacts' = DOMAIN contacts \cup DOMAIN import.contacts
      /\ \A e \in DOMAIN contacts' :
           IF e \in DOMAIN contacts
           THEN contacts'[e].by = contacts[e].by /\ contacts'[e].imported = contacts[e].imported
           ELSE contacts'[e].by = import.contacts[e].by
      /\ brought' = [f \in Forms |-> brought[f] + (IF f \in Pending THEN 1 ELSE 0)]
  BY CommitRowsShape DEF Pending
<1>2. ASSUME NEW r \in ImportedForms
      PROVE  /\ brought[r] \in Nat
             /\ brought'[r] = IF r \in Pending THEN brought[r] + 1 ELSE brought[r]
  <2>1. r \in Forms /\ brought[r] \in Nat
    BY RowsAreForms DEF TypeInv, Types
  <2> QED BY <1>1, <2>1
<1>3. ASSUME NEW r \in ImportedForms, brought'[r] > 0 PROVE EmailOf[r] \in DOMAIN contacts'
  <2>1. CASE r \in Pending
    BY <1>1, <2>1 DEF RowInv
  <2>2. CASE r \notin Pending
    BY <1>1, <1>2, <1>3, <2>2 DEF RowInv
  <2> QED BY <2>1, <2>2
<1>4. ASSUME NEW r \in ImportedForms, Imported(r)' PROVE brought'[r] = 1 /\ r \in import.seen
  <2>1. PICK e \in DOMAIN contacts' : contacts'[e].imported /\ contacts'[e].by = r
    BY <1>4 DEF Imported
  <2>2. CASE e \in DOMAIN contacts
    <3>1. Imported(r)
      BY <1>1, <2>1, <2>2 DEF Imported
    <3>2. r \notin Pending /\ brought[r] = 1 /\ r \in import.seen
      BY <1>1, <3>1 DEF RowInv
    <3> QED BY <1>2, <3>2
  <2>3. CASE e \notin DOMAIN contacts
    <3>1. e \in DOMAIN import.contacts /\ import.contacts[e].by = r
      BY <1>1, <2>1, <2>3
    <3>2. EmailOf[r] = e
      BY <1>1, <3>1, OpenImport DEF Made
    <3>3. r \in Pending /\ r \in import.seen
      BY <1>1, <3>1 DEF RowInv, Pending
    <3>4. ~(brought[r] > 0)
      BY <2>3, <3>2 DEF RowInv
    <3> QED BY <1>2, <3>3, <3>4
  <2> QED BY <2>2, <2>3
<1>5. PICK n, S : n = import.next /\ S = import.seen
  OBVIOUS
<1>6. import'.pc = "idle" \/ import' = Batch(n, S)
  BY <1>5, CommitRowsShape
<1>7. CASE import'.pc = "idle"
  BY <1>3, <1>4, <1>7 DEF RowInv, Importing
<1>8. CASE import' = Batch(n, S)
  BY <1>3, <1>4, <1>5, <1>8, RowsOfBatch
<1> QED BY <1>6, <1>7, <1>8

LEMMA RowStep == TypeInv /\ RowInv /\ [Next]_vars => RowInv'
<1> SUFFICES ASSUME TypeInv, RowInv, [Next]_vars PROVE RowInv'
  OBVIOUS
<1>1. CASE UNCHANGED <<contacts, brought, import>>
  BY <1>1, SameRowsByHand, RowStays
<1>2. ASSUME NEW c \in Clients, Commit(c) PROVE RowInv'
  <2>1. requests[c].pc = "commit" /\ UNCHANGED import
    BY <1>2, CommitShape
  <2>2. ASSUME NEW a \in Answers, Settles(c, a) PROVE RowInv'
    <3>0. brought' = brought
      BY <2>2 DEF Settles
    <3>1. ContactsByHand
      BY <2>1, <2>2, <3>0, SettledRows DEF ContactsByHand
    <3> QED BY <2>1, <3>1, RowStays
  <2> QED BY <1>1, <1>2, <2>1, <2>2, CommitShape DEF tables
<1>3. ASSUME NEW e \in Emails, NEW kind \in Kinds, Disengage(e, kind) PROVE RowInv'
  <2>1. ContactsByHand /\ UNCHANGED import
    BY <1>3, DisengageShape DEF ContactsByHand
  <2> QED BY <2>1, RowStays
<1>4. ASSUME NEW c \in Clients, Quiet(c) PROVE RowInv'
  BY <1>1, <1>4, QuietMoves DEF QuietMove, tables
<1>5. ASSUME NEW i \in Ids, Purge(i) PROVE RowInv'
  BY <1>1, <1>5, PurgeShape DEF tables
<1>6. CASE StartImport
  <2>1. UNCHANGED <<contacts, brought>> /\ \E n \in DOMAIN Rows : import' = Batch(n, ImportedBefore)
    BY <1>6 DEF StartImport, tables
  <2>2. PICK n, S : import' = Batch(n, S) /\ S = ImportedBefore
    BY <2>1
  <2>3. \A r : Imported(r)' => Imported(r) /\ r \in S
    BY <2>1, <2>2 DEF Imported, ImportedBefore
  <2> QED BY <2>1, <2>2, <2>3, RowsOfBatch DEF RowInv
<1>7. CASE AbortImport \/ SkipRow \/ FindRow
  <2>1. UNCHANGED <<contacts, brought>>
    BY <1>7 DEF AbortImport, SkipRow, FindRow, ImportOnly, tables
  <2>2. \A r : Imported(r)' <=> Imported(r)
    BY <2>1 DEF Imported
  <2>3. CASE AbortImport
    BY <2>1, <2>2, <2>3 DEF AbortImport, NoImport, RowInv, Importing
  <2>4. CASE SkipRow
    BY <2>1, <2>2, <2>4, SkipShape DEF RowInv, Importing, Pending
  <2>5. CASE FindRow
    <3>1. Row' = Row
      BY <2>5, FindShape DEF Row
    <3> QED BY <2>1, <2>2, <2>5, <3>1, FindShape DEF RowInv, Importing, Pending
  <2> QED BY <1>7, <2>3, <2>4, <2>5
<1>8. CASE PutRow \/ FlushRow
  <2>1. UNCHANGED <<contacts, brought>> /\ Importing
    BY <1>8, PutShape DEF tables, Importing
  <2>2. \A r : Imported(r)' <=> Imported(r)
    BY <2>1 DEF Imported
  <2>3. CASE \E o \in Outcomes : RowPut(o)
    BY <1>8, <2>3, RowIsPut
  <2>4. CASE /\ import'.pc = "flush" /\ import'.next = import.next
             /\ import'.contacts = import.contacts /\ import'.written = import.written
             /\ import'.stopped = import.stopped /\ import'.seen = import.seen
    <3>1. Row' = Row /\ Row \notin import.seen
      BY <1>8, <2>4, PutShape DEF Row, RowInv
    <3> QED BY <2>1, <2>2, <2>4, <3>1 DEF RowInv, Importing, Pending
  <2> QED BY <1>8, <2>3, <2>4, PutShape
<1>9. CASE CommitRows
  BY <1>9, RowCommit
<1> QED BY <1>1, <1>2, <1>3, <1>4, <1>5, <1>6, <1>7, <1>8, <1>9
        DEF Next, RequestStep, ImportStep, Quiet, vars, tables

LEMMA RowInit == Init => RowInv
<1> SUFFICES ASSUME Init PROVE RowInv
  OBVIOUS
<1>1. DOMAIN <<>> = {}
  OBVIOUS
<1>2. \A r : ~Imported(r)
  BY <1>1 DEF Init, Imported
<1>3. \A r \in ImportedForms : brought[r] = 0
  BY RowsAreForms DEF Init
<1> QED BY <1>2, <1>3 DEF Init, RowInv, Importing, NoImport

-----------------------------------------------------------------------------
(* One welcome *)

LEMMA WelcomeStep == TypeInv /\ InsertInv /\ WelcomedOnce /\ [Next]_vars => WelcomedOnce'
<1> SUFFICES ASSUME TypeInv, InsertInv, WelcomedOnce, [Next]_vars PROVE WelcomedOnce'
  OBVIOUS
<1>1. ASSUME UNCHANGED welcomes, DOMAIN contacts \subseteq DOMAIN contacts',
             \A e \in DOMAIN contacts : contacts'[e].imported = contacts[e].imported
      PROVE  WelcomedOnce'
  BY <1>1 DEF WelcomedOnce
<1>2. ASSUME NEW c \in Clients, Commit(c) PROVE WelcomedOnce'
  <2>1. requests[c].pc = "commit"
    BY <1>2, CommitShape
  <2>2. ASSUME NEW a \in Answers, Settles(c, a) PROVE WelcomedOnce'
    <3>0. PICK s \in Emails : s = Subject(c)
      BY SubjectsAreEmails
    <3>1. PICK k \in {0, 1} : /\ k = 1 => requests[c].created
                             /\ welcomes' = [welcomes EXCEPT ![s] = @ + k]
      <4>1. PICK k \in {0, 1} : k = IF requests[c].outcome = "accepted" /\ Welcomes(FormOf[c], requests[c].created)
                                  THEN 1 ELSE 0
        OBVIOUS
      <4>2. welcomes' = [welcomes EXCEPT ![s] = @ + k]
        BY <2>2, <3>0, <4>1 DEF Settles
      <4>3. k = 1 => requests[c].created
        BY <4>1 DEF Welcomes
      <4> QED BY <4>2, <4>3
    <3>2. \A e \in Emails : welcomes[e] \in Nat /\ welcomes'[e] = IF e = s THEN welcomes[e] + k ELSE welcomes[e]
      BY <3>1 DEF TypeInv, Types
    <3>3. /\ DOMAIN contacts' = DOMAIN contacts \cup {s}
          /\ \A e \in DOMAIN contacts' :
               IF requests[c].created /\ e = s
               THEN ~contacts'[e].imported
               ELSE e \in DOMAIN contacts /\ contacts'[e].imported = contacts[e].imported
      BY <2>1, <2>2, <3>0, SettledRows
    <3>4. requests[c].created => s \notin DOMAIN contacts
      BY <2>1, <3>0 DEF InsertInv, Inserting
    <3>5. ASSUME NEW e \in Emails, welcomes'[e] > 0
          PROVE  welcomes'[e] = 1 /\ e \in DOMAIN contacts' /\ ~contacts'[e].imported
      <4>1. CASE requests[c].created /\ e = s
        <5>1. welcomes[e] = 0
          BY <3>2, <3>4, <4>1 DEF WelcomedOnce
        <5> QED BY <3>1, <3>2, <3>3, <3>5, <4>1, <5>1
      <4>2. CASE ~(requests[c].created /\ e = s)
        <5>1. welcomes'[e] = welcomes[e]
          BY <3>1, <3>2, <4>2
        <5> QED BY <3>3, <3>5, <4>2, <5>1 DEF WelcomedOnce
      <4> QED BY <4>1, <4>2
    <3> QED BY <3>5 DEF WelcomedOnce
  <2> QED BY <1>1, <1>2, <2>2, CommitShape DEF tables
<1>3. ASSUME NEW c \in Clients, Quiet(c) PROVE WelcomedOnce'
  BY <1>1, <1>3, QuietMoves DEF QuietMove, tables
<1>4. ASSUME NEW i \in Ids, Purge(i) PROVE WelcomedOnce'
  BY <1>1, <1>4, PurgeShape DEF tables
<1>5. ASSUME NEW e \in Emails, NEW kind \in Kinds, Disengage(e, kind) PROVE WelcomedOnce'
  BY <1>1, <1>5, DisengageShape
<1>6. CASE CommitRows
  BY <1>1, <1>6, CommitRowsShape
<1>7. CASE StartImport \/ SkipRow \/ FindRow \/ PutRow \/ FlushRow \/ AbortImport
  BY <1>1, <1>7 DEF StartImport, SkipRow, FindRow, PutRow, FlushRow, AbortImport, ImportOnly, tables
<1>8. CASE UNCHANGED vars
  BY <1>1, <1>8 DEF vars, tables
<1> QED BY <1>2, <1>3, <1>4, <1>5, <1>6, <1>7, <1>8 DEF Next, RequestStep, ImportStep, Quiet

LEMMA WelcomeInit == Init => WelcomedOnce
BY DEF Init, WelcomedOnce

-----------------------------------------------------------------------------
IInv == TypeInv /\ InsertInv /\ KeyInv /\ RunInv /\ PromiseInv /\ AnswersInv /\ RowInv /\ WelcomedOnce

LEMMA Invariant == Spec => []IInv
<1>1. Init => IInv
  BY TypesInit, InsertInit, KeyInit, RunInit, PromiseInit, AnswerInit, RowInit, WelcomeInit DEF IInv
<1>2. IInv /\ [Next]_vars => IInv'
  BY TypesStep, InsertStep, KeyStep, RunStep, PromiseStep, AnswerStep, RowStep, WelcomeStep DEF IInv
<1> QED BY <1>1, <1>2, PTL DEF Spec

(* Requests write, or stop, a form once for each key it was accepted under
   and each time such a key was purged; a run of the import brings a row once,
   and a row that made its contact is brought by one run only.               *)
THEOREM EffectsMatch == Spec => []EffectsMatchKeys
<1>1. IInv => EffectsMatchKeys
  <2> SUFFICES ASSUME IInv PROVE EffectsMatchKeys
    OBVIOUS
  <2>1. ASSUME NEW e \in DOMAIN contacts, contacts[e].imported PROVE brought[contacts[e].by] = 1
    <3>1. contacts[e].by \in ImportedForms
      BY <2>1 DEF IInv, TypeInv, Types, Made
    <3> QED BY <2>1, <3>1 DEF IInv, RowInv, Imported
  <2> QED BY <2>1 DEF IInv, PromiseInv, RunInv, EffectsMatchKeys
<1> QED BY <1>1, Invariant, PTL

(* What a client was told is what its key holds, or held when it was purged. *)
THEOREM AnswersKept == Spec => []AnswersAreKept
<1>1. IInv => AnswersAreKept
  BY DEF IInv, AnswersInv
<1> QED BY <1>1, Invariant, PTL

(* A sign-up is welcomed once, and only if a form sent by its person made
   the contact.                                                            *)
THEOREM WelcomedOnceOnly == Spec => []WelcomedOnce
<1>1. IInv => WelcomedOnce
  BY DEF IInv
<1> QED BY <1>1, Invariant, PTL
=============================================================================
