----------------------------- MODULE MagicLink -----------------------------
(***************************************************************************)
(* Signing in by e-mail: auth_magic.py and routers/auth_magic_link.py.     *)
(*                                                                         *)
(* A /request call counts the e-mail's requests of the last hour under an  *)
(* advisory lock, stores a token and a rate-limit row, commits, and leaves *)
(* the mail to a background task of the same process.  A /claim call       *)
(* claims the token by one UPDATE, finds or inserts the identity of the    *)
(* e-mail, and commits: a session is a committed claim.  Each is one       *)
(* transaction, so that a row or an index entry it has written and not     *)
(* committed makes others wait.                                            *)
(*                                                                         *)
(* Staff delete contacts and the reconcile jobs link e-mails to B2C        *)
(* subjects meanwhile.  Token values are indices into the table: guessing  *)
(* one is left out, as are malformed addresses, which change nothing.      *)
(***************************************************************************)
EXTENDS Integers, Sequences, FiniteSets

CONSTANTS
  Emails,
  Calls,      \* calls in progress at one time, each to /request or to /claim
  Limit,      \* MAGIC_LINK_RATE_LIMIT_PER_HOUR
  Window,     \* MAGIC_LINK_RATE_LIMIT_WINDOW
  Ttl,        \* MAGIC_LINK_TTL_SECONDS
  Retention,  \* age at which purge_magic_link_rate_limits drops a row
  MaxTime,    \* bound on the clock
  MaxTokens,  \* bound on tokens
  MaxEvents   \* bound on lost calls, purges, B2C links and deletions, together

ASSUME MagicLinkAssumption ==
  /\ {Limit, Window, Ttl, Retention, MaxTime, MaxTokens, MaxEvents} \subseteq Nat
  /\ Window <= Retention /\ IsFiniteSet(Calls)

VARIABLES
  now,         \* the clock
  tokens,      \* magic_link_token rows, in commit order
  rates,       \* magic_link_rate_limit rows, each the index of the token committed with it
  identities,  \* identities[e]: identity_link rows
  mailed,      \* tokens whose mail arrived
  calls,       \* calls[c]: locals of a call
  sessions,    \* JWTs of committed claims
  forgotten,   \* subjects deleted with their contact (history)
  events

tables == <<tokens, rates, identities>>
vars == <<now, tables, mailed, calls, sessions, forgotten, events>>

Times == 0..MaxTime
Token == [email : Emails, at : Times, claimed : BOOLEAN]

(* subject: B2C, or the token whose claim inserted the row *)
B2C == 0
Identity == [subject : 0..MaxTokens, linkedAt : Times]

Idle == [pc |-> "idle"]

Init ==
  /\ now = 0 /\ tokens = <<>>
  /\ rates = {}
  /\ identities = [e \in Emails |-> {}]
  /\ mailed = {} /\ calls = [c \in Calls |-> Idle]
  /\ sessions = {} /\ forgotten = {}
  /\ events = 0

Tick == /\ now < MaxTime /\ now' = now + 1
        /\ UNCHANGED <<tables, mailed, calls, sessions, forgotten, events>>

Event == events < MaxEvents /\ events' = events + 1

(* A step of one call that changes nothing but its locals *)
Local(c, locals) ==
  /\ calls' = [calls EXCEPT ![c] = locals]
  /\ UNCHANGED <<now, tables, mailed, sessions, forgotten, events>>

(* What the call rolls back with, and tells *)
Refuse(c, answer) == Local(c, [pc |-> "refused", answer |-> answer])

-----------------------------------------------------------------------------
(* POST /request *)

Unissued == {c \in Calls : calls[c].pc \in {"count", "store", "issue"}}

Ask(c, e) ==
  /\ calls[c].pc = "idle" /\ Len(tokens) + Cardinality(Unissued) < MaxTokens
  /\ Local(c, [pc |-> "count", email |-> e])

(* Mutant: the count is not serialised. *)
CountsAtOnce(e) == TRUE

(* pg_advisory_xact_lock: held until the transaction ends. *)
MayCount(e) == \A c \in Calls : calls[c].pc \in {"store", "issue"} => calls[c].email # e

(* Mutant: without the cutoff. *)
RecentEver(e) == Cardinality({i \in rates : tokens[i].email = e})

Recent(e) == Cardinality({i \in rates : tokens[i].email = e /\ tokens[i].at >= now - Window})

(* The lock is taken, then the rows of the window are counted. *)
Count(c) ==
  LET e == calls[c].email IN
  /\ calls[c].pc = "count" /\ MayCount(e)
  /\ IF Recent(e) >= Limit
     THEN Refuse(c, [code |-> "rate_limited", email |-> e, at |-> now])
     ELSE Local(c, [pc |-> "store", email |-> e])

(* Mutant: the mail is handed over before the commit. *)
MailFirst(c) ==
  /\ calls[c].pc = "store"
  /\ mailed' = mailed \cup {Len(tokens) + 1}
  /\ calls' = [calls EXCEPT ![c] = [pc |-> "issue", email |-> calls[c].email, at |-> now]]
  /\ UNCHANGED <<now, tables, sessions, forgotten, events>>

(* Both rows get the clock as it is after the count. *)
Store(c) ==
  /\ calls[c].pc = "store"
  /\ Local(c, [pc |-> "issue", email |-> calls[c].email, at |-> now])

(* The commit of the token *)
Issue(c) ==
  LET call == calls[c] IN
  /\ call.pc = "issue"
  /\ tokens' = Append(tokens, [email |-> call.email, at |-> call.at, claimed |-> FALSE])
  /\ rates' = rates \cup {Len(tokens) + 1}
  /\ calls' = [calls EXCEPT ![c] = [pc |-> "mail", token |-> Len(tokens) + 1]]
  /\ UNCHANGED <<now, identities, mailed, sessions, forgotten, events>>

(* The background task, after the answer *)
SendMail(c) ==
  /\ calls[c].pc = "mail"
  /\ mailed' = mailed \cup {calls[c].token}
  /\ calls' = [calls EXCEPT ![c] = Idle]
  /\ UNCHANGED <<now, tables, sessions, forgotten, events>>

(* purge_magic_link_rate_limits: a batch of old rows *)
Purge ==
  /\ Event
  /\ \E old \in SUBSET {i \in rates : tokens[i].at < now - Retention} :
       old # {} /\ rates' = rates \ old
  /\ UNCHANGED <<now, tokens, identities, mailed, calls, sessions, forgotten>>

-----------------------------------------------------------------------------
(* POST /claim *)

(* A person may click a link again, and in several windows at once. *)
Click(c, i) ==
  /\ calls[c].pc = "idle" /\ i \in mailed
  /\ Local(c, [pc |-> "claim", token |-> i, at |-> now])

(* Mutant: as if the row were read before it is written. *)
ClaimsAtOnce(i) == TRUE

(* The UPDATE waits for one of the same row to commit or roll back. *)
MayClaim(i) ==
  \A c \in Calls : calls[c].pc \in {"find", "insert", "commit"} => calls[c].token # i

Expired(c) == tokens[calls[c].token].at + Ttl <= calls[c].at

(* Mutant: a locked row is skipped instead of waited for. *)
ClaimSkipping(c) ==
  LET i == calls[c].token IN
  /\ calls[c].pc = "claim"
  /\ IF Expired(c) THEN Refuse(c, [code |-> "expired", token |-> i])
     ELSE IF tokens[i].claimed \/ ~MayClaim(i)
     THEN Refuse(c, [code |-> "already_claimed", token |-> i])
     ELSE Local(c, [calls[c] EXCEPT !.pc = "find"])

(* The row is updated only if unclaimed, and expiry is looked at after it:
   the rollback takes the claim back.  Without a row, the second read tells
   the reasons apart.                                                       *)
Claim(c) ==
  LET i == calls[c].token IN
  /\ calls[c].pc = "claim" /\ MayClaim(i)
  /\ IF Expired(c) THEN Refuse(c, [code |-> "expired", token |-> i])
     ELSE IF tokens[i].claimed THEN Refuse(c, [code |-> "already_claimed", token |-> i])
     ELSE Local(c, [calls[c] EXCEPT !.pc = "find"])

EmailOf(c) == tokens[calls[c].token].email

(* linked_at is when the row's transaction began. *)
Oldest(rows) == {x \in rows : \A y \in rows : x.linkedAt <= y.linkedAt}

ToCommit(c, subject, inserts) ==
  [pc |-> "commit", token |-> calls[c].token, at |-> calls[c].at,
   subject |-> subject, inserts |-> inserts]

(* The oldest row decides: one of a B2C subject ends the claim with
   account_resolution_conflict.                                     *)
FindIdentity(c) ==
  LET rows == identities[EmailOf(c)] IN
  /\ calls[c].pc = "find"
  /\ \/ rows = {} /\ Local(c, [calls[c] EXCEPT !.pc = "insert"])
     \/ \E x \in Oldest(rows) :
          Local(c, IF x.subject = B2C THEN Idle ELSE ToCommit(c, x.subject, FALSE))

(* Mutants: no unique index; any claim of the e-mail that will insert is
   waited for.                                                           *)
NoIndex(c) == FALSE
WaitsForAll(c) ==
  \E d \in Calls \ {c} : calls[d].pc = "insert" /\ EmailOf(d) = EmailOf(c)

(* uq_identity_link_magic_email: a row inserted and not committed is waited
   for, a committed one refused.                                            *)
Waits(c) ==
  \E d \in Calls \ {c} : calls[d].pc = "commit" /\ calls[d].inserts /\ EmailOf(d) = EmailOf(c)

IndexRefuses(c) == \E x \in identities[EmailOf(c)] : x.subject # B2C

(* The violation is handled nowhere but in the rollback: a 500. *)
InsertIdentity(c) ==
  /\ calls[c].pc = "insert" /\ ~Waits(c)
  /\ Local(c, IF IndexRefuses(c) THEN Idle ELSE ToCommit(c, calls[c].token, TRUE))

SessionsOf(i) == {s \in sessions : s.token = i}

CommitClaim(c) ==
  LET call == calls[c] IN
  /\ call.pc = "commit"
  /\ tokens' = [tokens EXCEPT ![call.token].claimed = TRUE]
  /\ identities' = [identities EXCEPT ![EmailOf(c)] =
       IF call.inserts THEN @ \cup {[subject |-> call.subject, linkedAt |-> call.at]} ELSE @]
  /\ sessions' = sessions \cup {[token |-> call.token, subject |-> call.subject,
                               nth |-> Cardinality(SessionsOf(call.token)) + 1]}
  /\ calls' = [calls EXCEPT ![c] = Idle]
  /\ UNCHANGED <<now, rates, mailed, forgotten, events>>

(* The answer of a refused call *)
Return(c) == calls[c].pc = "refused" /\ Local(c, Idle)

(* The process dies or a statement fails: the transaction is rolled back, or
   the mail of a committed token lost.  The e-mail service may refuse it too. *)
Lose(c) ==
  /\ calls[c].pc # "idle" /\ Event
  /\ calls' = [calls EXCEPT ![c] = Idle]
  /\ UNCHANGED <<now, tables, mailed, sessions, forgotten>>

-----------------------------------------------------------------------------
(* reconcile: the e-mail of a B2C subject; the job may have begun long ago. *)
LinkB2C(e) ==
  /\ \A x \in identities[e] : x.subject # B2C
  /\ Event
  /\ \E t \in 0..now :
       identities' = [identities EXCEPT ![e] = @ \cup {[subject |-> B2C, linkedAt |-> t]}]
  /\ UNCHANGED <<now, tokens, rates, mailed, calls, sessions, forgotten>>

(* delete_contact: the e-mail's magic link identity, and the B2C one when it
   is the contact's.                                                        *)
DeleteContact(e) ==
  /\ Event
  /\ \E rest \in {{}, {x \in identities[e] : x.subject = B2C}} :
       identities' = [identities EXCEPT ![e] = rest]
  /\ forgotten' = forgotten \cup ({x.subject : x \in identities[e]} \ {B2C})
  /\ UNCHANGED <<now, tokens, rates, mailed, calls, sessions>>

-----------------------------------------------------------------------------
Step(c) == \/ Count(c) \/ Store(c) \/ Issue(c) \/ SendMail(c)
           \/ Claim(c) \/ FindIdentity(c) \/ InsertIdentity(c) \/ CommitClaim(c) \/ Return(c)

Next ==
  \/ Tick \/ Purge
  \/ \E c \in Calls : \/ \E e \in Emails : Ask(c, e)
                      \/ \E i \in mailed : Click(c, i)
                      \/ Step(c) \/ Lose(c)
  \/ \E e \in Emails : LinkB2C(e) \/ DeleteContact(e)

Spec == Init /\ [][Next]_vars

(* A call that has begun goes on, though others come again and again: locks
   are granted in the order they are waited for.  No one need ask or click. *)
FairSpec == Spec /\ \A c \in Calls : SF_vars(Step(c))

-----------------------------------------------------------------------------
TypeOK ==
  /\ now \in Times /\ tokens \in Seq(Token) /\ Len(tokens) <= MaxTokens
  /\ rates \subseteq DOMAIN tokens /\ mailed \subseteq DOMAIN tokens
  /\ \A e \in Emails : identities[e] \subseteq Identity
  /\ \A c \in Calls : calls[c].pc \in
       {"idle", "count", "store", "issue", "mail", "claim", "find", "insert", "commit", "refused"}
  /\ \A s \in sessions : s.token \in DOMAIN tokens /\ s.subject \in 0..MaxTokens

IssuedIn(e, from, to) == {i \in DOMAIN tokens : tokens[i].email = e /\ tokens[i].at \in from..to}

(* No hour, wherever it begins, sees more than six links for one e-mail,
   whatever requests for it overlap and whatever is purged.              *)
LinksAreRationed ==
  \A e \in Emails, t \in Times : Cardinality(IssuedIn(e, t - Window, t)) <= Limit

(* A link gives one session, however often it is clicked; and it is used up
   only by giving one: a claim that fails half-way leaves it usable.        *)
ClaimedForOneSession ==
  \A i \in DOMAIN tokens :
    Cardinality(SessionsOf(i)) = IF tokens[i].claimed THEN 1 ELSE 0

Told == {calls[c].answer : c \in {d \in Calls : calls[d].pc = "refused"}}

(* What a call is told is so.  A person is turned away only if six links were
   really issued within the hour: a refused or lost request does not prolong
   the wait.  A link called claimed has given its session, and one called
   expired is, whatever claim of it was under way and however that ended.   *)
CallsAreToldTheTruth ==
  \A x \in Told :
    /\ x.code = "rate_limited" => Cardinality(IssuedIn(x.email, x.at - Window, x.at)) >= Limit
    /\ x.code = "already_claimed" => SessionsOf(x.token) # {}
    /\ x.code = "expired" => tokens[x.token].at + Ttl <= now

(* All sessions of an e-mail are of one subject, its magic link identity,
   unless its contact was deleted between them: first sign-ins from two
   links at once do not make two people of one.                           *)
OneSubjectPerEmail ==
  \A s1, s2 \in sessions : tokens[s1.token].email = tokens[s2.token].email =>
    \/ s1.subject = s2.subject
    \/ {s1.subject, s2.subject} \cap forgotten # {}

(* No call waits for ever, for the lock, the row or the index. *)
EveryCallEnds == \A c \in Calls : calls[c].pc # "idle" ~> calls[c].pc = "idle"
=============================================================================
