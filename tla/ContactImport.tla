--------------------------- MODULE ContactImport ---------------------------
(***************************************************************************)
(* The hourly job of apps/etl/run-cron.sh over the contacts of the core:   *)
(* the Disciple.Tools (DT) import, orchestrator.py, then the merge of      *)
(* duplicates, reconcile/track_a_duplicate_email.py; and what staff do to  *)
(* the same rows meanwhile, routers/contacts.py, manual_contacts.py and    *)
(* etl_admin.py.                                                           *)
(*                                                                         *)
(* A job resolves its watermark, takes the advisory lock, fixes its MySQL  *)
(* snapshot and imports one table after the other.  A table is two steps:  *)
(* what the importer loads once at its start, then its statements and its  *)
(* commit, which may fail as a whole.  The rows a table has written stay   *)
(* locked until the commit, so nothing that happens between two of its     *)
(* statements depends on them.  The merge plans every conflict, then       *)
(* applies and commits its plans; the staff requests that could fall       *)
(* between two statements of one application are not told apart from those *)
(* before it.                                                              *)
(*                                                                         *)
(* Source time is counted in edits: no two edits of DT fall in the same    *)
(* second.  A post's stamp is also the revision of its content.            *)
(*                                                                         *)
(* Left out: wp_users, profiles, the second track of history rows, dry     *)
(* runs, identity links, outbox events, and the flag                       *)
(* local_modified_after_import, which no code sets.  Whether a contact has *)
(* an open match, which keeps the merge away from it, is any choice.       *)
(***************************************************************************)
EXTENDS Integers, Sequences, FiniteSets, FiniteSetsExt

CONSTANTS
  Posts,        \* ids of wp_posts rows, numbers
  Emails,
  Comments,     \* comments of posts
  Interests,    \* people groups in a post's submission data
  PostOf,       \* PostOf[x]: the post of a comment or an interest
  FpgOf,        \* FpgOf[i]: people_id3 of an interest
  EmailAtStart, \* EmailAtStart[p]: e-mail of post p at first
  Assigned,     \* posts with an assignee
  SignedIn,     \* those whose assignee has a staff_identity_link subject
  Namesakes,    \* posts whose name looks like their e-mail owner's
  Jobs,
  MaxClock,     \* bound on edits in DT
  MaxContacts,  \* bound on contact rows ever created
  MaxRequests,  \* bound on requests of staff
  MaxRuns,      \* bound on jobs started
  MaxInAll      \* bound on the two together

None == 0       \* NULL source id, e-mail or contact id
Edited == -1    \* content last written by staff
DoNotEngage == -2

ASSUME ImportAssumption ==
  /\ Posts \subseteq Nat \ {0} /\ IsFiniteSet(Posts)
  /\ Emails \subseteq Nat \ {0} /\ IsFiniteSet(Emails)
  /\ Comments \cap Interests = {}
  /\ PostOf \in [Comments \cup Interests -> Posts]
  /\ DOMAIN FpgOf = Interests
  /\ EmailAtStart \in [Posts -> Emails \cup {None}]
  /\ SignedIn \subseteq Assigned /\ Assigned \subseteq Posts /\ Namesakes \subseteq Posts
  /\ {MaxClock, MaxContacts, MaxRequests, MaxRuns, MaxInAll} \subseteq Nat
  /\ Cardinality(Posts) <= MaxClock

VARIABLES
  clock,       \* edits made in DT
  posts,       \* wp_posts and wp_postmeta: posts[p], for the posts that exist
  comments,    \* wp_comments: comments[m], its date
  contacts,    \* contacts rows with their contact_assignment: contacts[id]
  created,     \* contact rows ever created
  children,    \* activity_log and adopter_interest: the contact id of each row
  conflicts,   \* migration_conflicts rows
  keeper,      \* keeper[e]: duplicate_review_decision merge for e-mail e
  tombs,       \* deleted_contacts: DT keys
  tombEmails,  \* deleted_contacts: e-mails
  swept,       \* etl_deleted_in_source
  high,        \* high[t]: newest source_max_modified_at of table t's etl_run rows, or None
  requests,    \* requests staff have made
  runs,        \* jobs started
  jobs,        \* jobs[j]: locals of a job
  overlapped,  \* posts whose contact was deleted under a running job (history)
  merged       \* posts whose contact took part in a merge (history)

source == <<clock, posts, comments>>
core == <<contacts, created, children, conflicts, keeper, tombs, tombEmails, swept, high>>
vars == <<source, core, requests, runs, jobs, overlapped, merged>>

Ids == 1 .. MaxContacts
Stamps == 1 .. MaxClock
Post == [stamp : Stamps, email : Emails \cup {None}, mapped : BOOLEAN]

(* dropped: the import dropped the e-mail because another contact has it (history). *)
Contact ==
  [key : Posts \cup {None}, email : Emails \cup {None},
   content : Stamps \cup {Edited, DoNotEngage},
   owner : {"none", "dt_import", "staff"}, dropped : BOOLEAN]

Conflict ==
  [type : {"duplicate_email"}, post : Posts, email : Emails]
  \cup [type : {"assignee_no_subject", "local_assignment_override"}, post : Posts]

Idle == [pc |-> "idle"]

Init ==
  /\ clock = Cardinality(Posts)
  /\ posts = [p \in Posts |-> [stamp |-> Cardinality({q \in Posts : q <= p}),
                              email |-> EmailAtStart[p], mapped |-> TRUE]]
  /\ comments = <<>>
  /\ contacts = <<>> /\ created = 0 /\ children = <<>>
  /\ conflicts = {} /\ keeper = [e \in Emails |-> None]
  /\ tombs = {} /\ tombEmails = {} /\ swept = {}
  /\ high = [t \in {"contacts", "activity_log"} |-> None]
  /\ requests = 0 /\ runs = 0
  /\ jobs = [j \in Jobs |-> Idle]
  /\ overlapped = {} /\ merged = {}

Without(f, S) == [x \in DOMAIN f \ S |-> f[x]]
With(f, x, v) == [y \in DOMAIN f \cup {x} |-> IF y = x THEN v ELSE f[y]]

WithKey(rows, p) == {c \in DOMAIN rows : rows[c].key = p}
WithEmail(rows, e) == {c \in DOMAIN rows : rows[c].email = e}

(* uq_contacts_email_normalized, uq_contacts_source_system_source_id *)
Unique(rows) ==
  /\ \A p \in Posts : Cardinality(WithKey(rows, p)) <= 1
  /\ \A e \in Emails : Cardinality(WithEmail(rows, e)) <= 1

DuplicateConflict(p, e) == [type |-> "duplicate_email", post |-> p, email |-> e]

(* Mutant: one duplicate on the list for an e-mail. *)
RecordedOnce(S, x) ==
  IF x.type = "duplicate_email" /\ \E y \in S : y.type = x.type /\ y.email = x.email
  THEN S ELSE S \cup {x}

(* _record_conflict: a conflict recorded before, of the same type and post, stays as it is. *)
Recorded(S, x) ==
  IF \E y \in S : y.type = x.type /\ y.post = x.post THEN S ELSE S \cup {x}

-----------------------------------------------------------------------------
(* Disciple.Tools *)

EditPost(p) ==
  /\ clock < MaxClock
  /\ clock' = clock + 1
  /\ \E e \in Emails \cup {None}, ok \in BOOLEAN :
       posts' = With(posts, p, [stamp |-> clock', email |-> e, mapped |-> ok])
  /\ UNCHANGED <<comments, core, requests, runs, jobs, overlapped, merged>>

RemovePost(p) ==
  /\ p \in DOMAIN posts /\ clock < MaxClock
  /\ clock' = clock + 1
  /\ posts' = Without(posts, {p})
  /\ UNCHANGED <<comments, core, requests, runs, jobs, overlapped, merged>>

AddComment(m) ==
  /\ clock < MaxClock /\ m \notin DOMAIN comments
  /\ clock' = clock + 1
  /\ comments' = With(comments, m, clock')
  /\ UNCHANGED <<posts, core, requests, runs, jobs, overlapped, merged>>

-----------------------------------------------------------------------------
(* Staff *)

Request ==
  /\ requests < MaxRequests /\ requests + runs < MaxInAll
  /\ requests' = requests + 1
  /\ UNCHANGED <<source, swept, high, runs, jobs, merged>>

(* patch_contact, and a transition to do_not_engage, which a patch leaves alone. *)
EditContact(c) ==
  /\ \E v \in {Edited, DoNotEngage} :
       /\ v = Edited => contacts[c].content # DoNotEngage
       /\ contacts' = [contacts EXCEPT ![c].content = v]
  /\ UNCHANGED <<created, children, conflicts, tombs, tombEmails, overlapped, keeper>> /\ Request

(* assign_contact and unassign_contact *)
AssignContact(c) ==
  /\ \E o \in {"staff", "none"} : contacts' = [contacts EXCEPT ![c].owner = o]
  /\ UNCHANGED <<created, children, conflicts, tombs, tombEmails, overlapped, keeper>> /\ Request

(* create_manual_contact: a contact that has the e-mail is reused. *)
CreateContact(e) ==
  /\ WithEmail(contacts, e) = {} /\ created < MaxContacts
  /\ created' = created + 1
  /\ contacts' = With(contacts, created',
       [key |-> None, email |-> e, content |-> Edited, owner |-> "none", dropped |-> FALSE])
  /\ UNCHANGED <<children, conflicts, tombs, tombEmails, overlapped, keeper>> /\ Request

(* A job holds a list of contacts it read before: it may write a deleted one again. *)
Overlaps(j) == jobs[j].pc \in {"contacts", "merge"}

(* delete_contact *)
DeleteContact(c) ==
  LET p == contacts[c].key IN
  /\ contacts' = Without(contacts, {c})
  /\ children' = Without(children, {x \in DOMAIN children : children[x] = c})
  /\ conflicts' = {x \in conflicts : x.post # p}
  /\ IF p # None
     THEN /\ tombs' = tombs \cup {p}
          /\ overlapped' = IF \E j \in Jobs : Overlaps(j) THEN overlapped \cup {p}
                                                          ELSE overlapped \ {p}
          /\ UNCHANGED tombEmails
     ELSE /\ tombEmails' = tombEmails \cup ({contacts[c].email} \ {None})
          /\ UNCHANGED <<tombs, overlapped>>
  /\ UNCHANGED <<created, keeper>> /\ Request

(* remove_contact_interest *)
RemoveInterest(i) ==
  /\ i \in DOMAIN children
  /\ children' = Without(children, {i})
  /\ UNCHANGED <<contacts, created, conflicts, tombs, tombEmails, overlapped, keeper>> /\ Request

(* decide_duplicate_conflict: one merge at most for an e-mail.  clear_duplicate_decision. *)
Decide(e) ==
  /\ \E p \in {x.post : x \in {y \in conflicts : y.type = "duplicate_email" /\ y.email = e}}
             \cup {None} :
       keeper[e] # p /\ keeper' = [keeper EXCEPT ![e] = p]
  /\ UNCHANGED <<contacts, created, children, conflicts, tombs, tombEmails, overlapped>> /\ Request

-----------------------------------------------------------------------------
(* The job: watermark, lock and snapshot *)

JobsOnly == UNCHANGED <<source, core, requests, runs, overlapped, merged>>

(* resolve_auto_watermark: tables without a successful run do not count. *)
AutoWatermark ==
  LET seen == {high[t] : t \in DOMAIN high} \ {None} IN IF seen = {} THEN None ELSE Min(seen)

(* main: the watermark is fixed before the lock is tried.  None is a full run. *)
StartJob(j) ==
  /\ jobs[j].pc = "idle" /\ runs < MaxRuns /\ requests + runs < MaxInAll
  /\ runs' = runs + 1
  /\ \E w \in {AutoWatermark, None} : jobs' = [jobs EXCEPT ![j] = [pc |-> "lock", watermark |-> w]]
  /\ UNCHANGED <<source, core, requests, overlapped, merged>>

Tables == <<"contacts", "contact_assignment", "activity_log", "adopter_interest">>
Importing(j) == jobs[j].pc \in {"load"} \cup {Tables[n] : n \in DOMAIN Tables}

LockFree == ~ \E j \in Jobs : Importing(j)

TakeLock(j) ==
  /\ jobs[j].pc = "lock" /\ LockFree
  /\ jobs' = [jobs EXCEPT ![j] =
       [pc |-> "load", table |-> 1, watermark |-> jobs[j].watermark,
        posts |-> posts, comments |-> comments]]
  /\ JobsOnly

(* Another run holds the lock: dt-etl ends with code 0, and the script goes on. *)
SkipImport(j) ==
  /\ jobs[j].pc = "lock" /\ ~LockFree
  /\ jobs' = [jobs EXCEPT ![j] = [pc |-> "plan"]]
  /\ JobsOnly

(* The posts of the snapshot this run reads. *)
Delta(job) == {p \in DOMAIN job.posts : job.posts[p].stamp > job.watermark}

(* Mutant: deletions in the core are not looked up. *)
NoTombs == {}

(* _load_suppressed_contacts: keys; the e-mails are loaded beside them. *)
DeletedKeys == tombs

(* The importer of a table reads what it will look up. *)
PostToContact == [p \in {contacts[c].key : c \in DOMAIN contacts} \ {None} |->
                    CHOOSE c \in DOMAIN contacts : contacts[c].key = p]
EmailOwners == [e \in {contacts[c].email : c \in DOMAIN contacts} \ {None} |->
                  LET c == CHOOSE c \in DOMAIN contacts : contacts[c].email = e IN contacts[c].key]

Load(j) ==
  LET t == Tables[jobs[j].table] IN
  /\ jobs[j].pc = "load"
  /\ jobs' = [jobs EXCEPT ![j] =
       IF t = "contacts"
       THEN [pc |-> t, table |-> @.table, watermark |-> @.watermark, posts |-> @.posts,
             comments |-> @.comments, emailOwner |-> EmailOwners, tombs |-> DeletedKeys,
             tombEmails |-> tombEmails]
       ELSE [pc |-> t, table |-> @.table, watermark |-> @.watermark, posts |-> @.posts,
             comments |-> @.comments, contactOf |-> PostToContact]]
  /\ JobsOnly

-----------------------------------------------------------------------------
(* The tables of the import *)

(* _flush_contact_batch, one post.  rows, made, emailOwner and conflicts are
   what the table has written so far; ok tells whether the database took it:
   a status that has no mapping, and an e-mail or key that another row has
   taken since the load, end the table.                                     *)
ImportPost(job, acc, p) ==
  LET post == job.posts[p]
      e == post.email
      taken == e \in DOMAIN acc.emailOwner /\ acc.emailOwner[e] # p
      known == WithKey(acc.rows, p)
      c == IF known = {} THEN acc.made + 1 ELSE CHOOSE x \in known : TRUE
      row == [key |-> p, email |-> IF taken THEN None ELSE e, content |-> post.stamp,
              owner |-> IF known = {} THEN "none" ELSE acc.rows[c].owner, dropped |-> taken]
  IN IF p \in job.tombs \/ e \in job.tombEmails THEN acc
     ELSE [rows |-> With(acc.rows, c, row),
           made |-> IF known = {} THEN c ELSE acc.made,
           emailOwner |-> IF e = None \/ taken THEN acc.emailOwner ELSE With(acc.emailOwner, e, p),
           conflicts |-> IF taken THEN Recorded(acc.conflicts, DuplicateConflict(p, e))
                                  ELSE acc.conflicts,
           ok |-> acc.ok /\ post.mapped /\ Unique(With(acc.rows, c, row))]

LastPost == Max(Posts \cup {0})

(* import_contacts: the posts of the delta in the order of their ids *)
ImportedContacts(job) ==
  LET after[p \in 0 .. LastPost] ==
        IF p = 0
        THEN [rows |-> contacts, made |-> created, emailOwner |-> job.emailOwner,
              conflicts |-> conflicts, ok |-> TRUE]
        ELSE IF p \in Delta(job) THEN ImportPost(job, after[p - 1], p) ELSE after[p - 1]
  IN after[LastPost]

(* Mutant: read at the end of the table, outside the snapshot. *)
NewestPostNow(job) == Max({posts[p].stamp : p \in DOMAIN posts} \cup {None})

(* fetch_max_modified: over the whole snapshot, not the delta. *)
NewestPost(job) == Max({job.posts[p].stamp : p \in DOMAIN job.posts} \cup {None})

Later(a, b) == IF a > b THEN a ELSE b

(* The next table, or the end of the run and the release of the lock. *)
NextTable(job) ==
  IF job.table = Len(Tables) THEN [pc |-> "plan"]
  ELSE [pc |-> "load", table |-> job.table + 1, watermark |-> job.watermark,
        posts |-> job.posts, comments |-> job.comments]

(* import_contacts, and sweep_deleted_contacts on a full run *)
WriteContacts(j) ==
  LET job == jobs[j]
      out == ImportedContacts(job)
  IN
  /\ job.pc = "contacts" /\ out.ok /\ out.made <= MaxContacts
  /\ contacts' = out.rows /\ created' = out.made /\ conflicts' = out.conflicts
  /\ high' = [high EXCEPT !["contacts"] = Later(@, NewestPost(job))]
  /\ swept' = IF job.watermark # None THEN swept
              ELSE swept \cup ({out.rows[c].key : c \in DOMAIN out.rows} \ (DOMAIN job.posts \cup {None}))
  /\ jobs' = [jobs EXCEPT ![j] = NextTable(job)]
  /\ UNCHANGED <<source, children, keeper, tombs, tombEmails, requests, runs, overlapped, merged>>

(* A row is written for a contact that is gone: the foreign key ends the table. *)
AllExist(job, S) == \A p \in S : job.contactOf[p] \in DOMAIN contacts

(* Mutant: an upsert without its WHERE assigned_by = 'dt_import'. *)
AnyOwner(owner) == TRUE

(* The upsert of contact_assignment takes its own rows only. *)
MayReassign(owner) == owner # "staff"

(* import_assignment *)
WriteAssignments(j) ==
  LET job == jobs[j]
      assigned == Delta(job) \cap DOMAIN job.contactOf \cap Assigned
      written == assigned \cap SignedIn
      taken == {p \in written : ~MayReassign(contacts[job.contactOf[p]].owner)}
      found == {[type |-> "assignee_no_subject", post |-> p] : p \in assigned \ SignedIn}
               \cup {[type |-> "local_assignment_override", post |-> p] : p \in taken}
  IN
  /\ job.pc = "contact_assignment" /\ AllExist(job, written)
  /\ contacts' = [c \in DOMAIN contacts |->
       IF \E p \in written \ taken : job.contactOf[p] = c
       THEN [contacts[c] EXCEPT !.owner = "dt_import"] ELSE contacts[c]]
  /\ conflicts' = conflicts \cup found
  /\ jobs' = [jobs EXCEPT ![j] = NextTable(job)]
  /\ UNCHANGED <<source, created, children, keeper, tombs, tombEmails, swept, high,
                 requests, runs, overlapped, merged>>

(* import_comments and the watermark of activity_log *)
WriteActivity(j) ==
  LET job == jobs[j]
      read == {m \in DOMAIN job.comments : /\ job.comments[m] > job.watermark
                                           /\ PostOf[m] \in DOMAIN job.contactOf}
      new == read \ DOMAIN children
  IN
  /\ job.pc = "activity_log" /\ AllExist(job, {PostOf[m] : m \in new})
  /\ children' = [x \in DOMAIN children \cup new |->
                    IF x \in new THEN job.contactOf[PostOf[x]] ELSE children[x]]
  /\ high' = [high EXCEPT !["activity_log"] =
                Later(@, Max({job.comments[m] : m \in DOMAIN job.comments} \cup {None}))]
  /\ jobs' = [jobs EXCEPT ![j] = NextTable(job)]
  /\ UNCHANGED <<source, contacts, created, conflicts, keeper, tombs, tombEmails, swept,
                 requests, runs, overlapped, merged>>

(* import_interests: a row that exists keeps its contact. *)
WriteInterests(j) ==
  LET job == jobs[j]
      new == {i \in Interests : PostOf[i] \in Delta(job) \cap DOMAIN job.contactOf} \ DOMAIN children
  IN
  /\ job.pc = "adopter_interest" /\ AllExist(job, {PostOf[i] : i \in new})
  /\ children' = [x \in DOMAIN children \cup new |->
                    IF x \in new THEN job.contactOf[PostOf[x]] ELSE children[x]]
  /\ jobs' = [jobs EXCEPT ![j] = NextTable(job)]
  /\ UNCHANGED <<source, contacts, created, conflicts, keeper, tombs, tombEmails, swept, high,
                 requests, runs, overlapped, merged>>

(* A crash, the replica's timeout, a lost connection or a refused statement
   ends the job; the table's rows and its etl_run row are rolled back.      *)
Fail(j) ==
  /\ jobs[j].pc # "idle"
  /\ jobs' = [jobs EXCEPT ![j] = Idle]
  /\ JobsOnly

-----------------------------------------------------------------------------
(* The merge of duplicates *)

Duplicates == {x \in conflicts : x.type = "duplicate_email"}
Cluster(e) == {x.post : x \in {y \in Duplicates : y.email = e}}

(* plan_merges for one conflict, apart from the open match.  In a cluster
   only the chosen keeper is merged; alone, a decision on its e-mail, of
   whichever post, stands for a name that differs.                          *)
Mergeable(x) ==
  LET shared == Cardinality(Cluster(x.email)) > 1 IN
  /\ shared => keeper[x.email] = x.post
  /\ x.post \in Namesakes \/ keeper[x.email] # None
  /\ x.post \in DOMAIN posts
  /\ \E t \in WithEmail(contacts, x.email) : contacts[t].content # DoNotEngage

Sole(S) == CHOOSE x \in S \cup {None} : S # {} => x \in S

PlanOf(x) ==
  [post |-> x.post, target |-> Sole(WithEmail(contacts, x.email)),
   loser |-> Sole(WithKey(contacts, x.post)), content |-> posts[x.post].stamp]

(* Any of them may have an open match and be left alone. *)
PlanMerges(j) ==
  /\ jobs[j].pc = "plan"
  /\ \E S \in SUBSET {x \in Duplicates : Mergeable(x)} :
       jobs' = [jobs EXCEPT ![j] = [pc |-> "merge", plans |-> {PlanOf(x) : x \in S}]]
  /\ JobsOnly

Fpgs(kids, c) == {FpgOf[i] : i \in {x \in DOMAIN kids \cap Interests : kids[x] = c}}

(* Mutant: the loser is deleted with what hangs on it. *)
NotMoved(kids, pl) == kids

(* _repoint_loser_interests, the union of _merge_children, and the activity:
   a people group the target has stays with the loser.                      *)
Moved(kids, pl) ==
  LET has == Fpgs(kids, pl.target)
      moves(x) == kids[x] = pl.loser /\ (x \in Interests => FpgOf[x] \notin has)
      repointed == [x \in DOMAIN kids |-> IF moves(x) THEN pl.target ELSE kids[x]]
      added == {i \in Interests \ DOMAIN kids :
                  PostOf[i] = pl.post /\ FpgOf[i] \notin Fpgs(repointed, pl.target)}
  IN [x \in DOMAIN kids \cup added |-> IF x \in added THEN pl.target ELSE repointed[x]]

(* _repoint_history_and_assignment: DT's assignment replaces no other one.
   When the two are one row, the delete on the loser's side takes it away.  *)
MergedOwner(rows, pl) ==
  LET mine == rows[pl.target].owner
      theirs == IF pl.loser \in DOMAIN rows THEN rows[pl.loser].owner ELSE "none"
  IN IF theirs # "dt_import" \/ mine = "staff" THEN mine
     ELSE IF pl.loser = pl.target THEN "none" ELSE "dt_import"

(* Mutant: the loser's row keeps the key. *)
KeepLoser(rows, pl) == rows

(* _adopt_dt_keys, first half: the loser goes, unless it is the target. *)
DropLoser(rows, pl) == Without(rows, {pl.loser} \ {pl.target})

(* _apply_one in its savepoint; a key that another row holds undoes it. *)
ApplyPlan(acc, pl) ==
  LET mine == acc.rows[pl.target]
      row == [key |-> pl.post, email |-> mine.email, content |-> pl.content,
              owner |-> MergedOwner(acc.rows, pl), dropped |-> mine.dropped]
      rows == With(DropLoser(acc.rows, pl), pl.target, row)
      kids == Moved(acc.children, pl)
  IN IF pl.target \notin DOMAIN acc.rows \/ ~Unique(With(Without(acc.rows, {pl.loser}), pl.target, row))
     THEN acc
     ELSE [rows |-> rows,
           children |-> Without(kids, {x \in DOMAIN kids : kids[x] \notin DOMAIN rows}),
           conflicts |-> {x \in acc.conflicts :
                            ~(x.type = "duplicate_email" /\ x.post = pl.post)},
           merged |-> acc.merged \cup ({pl.post, mine.key} \ {None})]

(* The plans in the order of their posts; a post has one at most. *)
Merged(plans) ==
  LET after[p \in 0 .. LastPost] ==
        LET due == {pl \in plans : pl.post = p} IN
        IF p = 0
        THEN [rows |-> contacts, children |-> children, conflicts |-> conflicts, merged |-> merged]
        ELSE IF due = {} THEN after[p - 1] ELSE ApplyPlan(after[p - 1], CHOOSE pl \in due : TRUE)
  IN after[LastPost]

ApplyMerges(j) ==
  LET out == Merged(jobs[j].plans) IN
  /\ jobs[j].pc = "merge"
  /\ contacts' = out.rows /\ children' = out.children
  /\ conflicts' = out.conflicts /\ merged' = out.merged
  /\ jobs' = [jobs EXCEPT ![j] = Idle]
  /\ UNCHANGED <<source, created, keeper, tombs, tombEmails, swept, high, requests, runs, overlapped>>

-----------------------------------------------------------------------------
DT == \/ \E p \in Posts : EditPost(p) \/ RemovePost(p)
      \/ \E m \in Comments : AddComment(m)

Staff == \/ \E c \in DOMAIN contacts : EditContact(c) \/ AssignContact(c) \/ DeleteContact(c)
         \/ \E e \in Emails : CreateContact(e) \/ Decide(e)
         \/ \E i \in Interests : RemoveInterest(i)

Job(j) == \/ StartJob(j) \/ TakeLock(j) \/ SkipImport(j) \/ Load(j)
          \/ WriteContacts(j) \/ WriteAssignments(j) \/ WriteActivity(j) \/ WriteInterests(j)
          \/ PlanMerges(j) \/ ApplyMerges(j) \/ Fail(j)

Next == DT \/ Staff \/ \E j \in Jobs : Job(j)

Spec == Init /\ [][Next]_vars

-----------------------------------------------------------------------------
(* Rows and locals are well formed: among them the two unique indexes, which
   a merge keeps only by deleting the loser before its target takes the key. *)
TypeOK ==
  /\ clock \in 0 .. MaxClock
  /\ DOMAIN posts \subseteq Posts /\ \A p \in DOMAIN posts : posts[p] \in Post
  /\ DOMAIN comments \subseteq Comments /\ \A m \in DOMAIN comments : comments[m] \in Stamps
  /\ DOMAIN contacts \subseteq 1 .. created /\ created \in 0 .. MaxContacts
  /\ \A c \in DOMAIN contacts : contacts[c] \in Contact
  /\ Unique(contacts)
  /\ DOMAIN children \subseteq Comments \cup Interests
  /\ \A x \in DOMAIN children : children[x] \in DOMAIN contacts
  /\ conflicts \subseteq Conflict
  /\ keeper \in [Emails -> Posts \cup {None}]
  /\ tombs \subseteq Posts /\ tombEmails \subseteq Emails /\ swept \subseteq Posts
  /\ \A t \in DOMAIN high : high[t] \in Stamps \cup {None}
  /\ requests \in 0 .. MaxRequests /\ runs \in 0 .. MaxRuns
  /\ overlapped \subseteq Posts /\ merged \subseteq Posts

(* A contact deleted in the core comes back only if a job that had already
   read what it would write was running at the deletion: every later job
   skips it, through whichever path it would return.                        *)
DeletedStayDeleted ==
  \A p \in tombs \ overlapped : WithKey(contacts, p) = {}

(* The next run reads only what is newer than its watermark: a post older
   than that is in the core as it is in DT, or as staff left it, unless it
   was deleted here or its contact was merged.                              *)
CaughtUp ==
  \A p \in DOMAIN posts \ (tombs \cup merged) :
    posts[p].stamp <= AutoWatermark /\ posts[p].email \notin tombEmails =>
      \E c \in WithKey(contacts, p) :
        contacts[c].content \in {posts[p].stamp, Edited, DoNotEngage}

(* No job takes a contact that remains away from the member of staff it was
   assigned to, or loses a comment once imported.  A contact goes only when
   its post was merged into another one, and an assignment to staff goes with
   it: the merge carries DT's own assignment across and no other.            *)
JobsKeepWhatStaffHave ==
  [][jobs' # jobs =>
       /\ DOMAIN children \cap Comments \subseteq DOMAIN children'
       /\ \A c \in DOMAIN contacts :
            IF c \in DOMAIN contacts'
            THEN contacts[c].owner = "staff" => contacts'[c].owner = "staff"
            ELSE contacts[c].key \in merged']_vars

(* A contact without the e-mail its post has is on the list of duplicates,
   where staff can decide on it.  Merged contacts are not: a job that loaded
   its e-mails before another job's merge drops one that the merge unlists. *)
DroppedEmailsAreListed ==
  \A c \in DOMAIN contacts : contacts[c].dropped /\ contacts[c].key \notin merged =>
    \E x \in Duplicates : x.post = contacts[c].key

(* Edits of staff survive the job, as the runbooks say: they do not. *)
StaffEditsSurvive ==
  [][jobs' # jobs =>
       \A c \in DOMAIN contacts \cap DOMAIN contacts' :
         contacts[c].content \in {Edited, DoNotEngage} => contacts'[c].content = contacts[c].content]_vars
=============================================================================
