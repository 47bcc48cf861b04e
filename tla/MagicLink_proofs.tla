-------------------------- MODULE MagicLink_proofs --------------------------
(***************************************************************************)
(* Theorems about MagicLink, for all e-mails, any finite set of calls at   *)
(* one time, every limit, window, life of a link and retention (that is at *)
(* least the window), and any number of events.                            *)
(***************************************************************************)
EXTENDS MagicLink, FiniteSetTheorems, SequenceTheorems, TLAPS

USE MagicLinkAssumption

-----------------------------------------------------------------------------
(* Types: what a call carries at each point *)

Ids == DOMAIN tokens
Subject == 1..MaxTokens

Asking == [pc : {"count", "store"}, email : Emails]
Issuing == [pc : {"issue"}, email : Emails, at : Times]
Mailing == [pc : {"mail"}, token : Ids]
Claiming == [pc : {"claim", "find", "insert"}, token : Ids, at : Times]
Committing == [pc : {"commit"}, token : Ids, at : Times, subject : Subject, inserts : BOOLEAN]
Answer == [code : {"rate_limited"}, email : Emails, at : Times]
          \cup [code : {"already_claimed", "expired"}, token : Ids]
Refused == [pc : {"refused"}, answer : Answer]
Locals == {Idle} \cup Asking \cup Issuing \cup Mailing \cup Claiming \cup Committing \cup Refused

Session == [token : Ids, subject : Subject, nth : Nat]

Types ==
  /\ now \in Times /\ tokens \in Seq(Token)
  /\ rates \subseteq Ids /\ mailed \subseteq Ids
  /\ identities \in [Emails -> SUBSET Identity]
  /\ calls \in [Calls -> Locals]
  /\ sessions \subseteq Session /\ IsFiniteSet(sessions)
  /\ events \in Nat

(* A call that has not issued its token keeps a place for it. *)
RoomForTokens == Len(tokens) + Cardinality(Unissued) <= MaxTokens

TypeInv == Types /\ RoomForTokens

(* Rows once committed stay, with their e-mail and time. *)
TokensStay ==
  /\ Ids \subseteq Ids'
  /\ \A i \in Ids : tokens'[i].email = tokens[i].email /\ tokens'[i].at = tokens[i].at

LEMMA TokensAreTyped ==
  ASSUME TypeInv
  PROVE  /\ Ids = 1..Len(tokens) /\ Len(tokens) \in Nat /\ Len(tokens) <= MaxTokens
         /\ \A i \in Ids : tokens[i] \in Token
         /\ IsFiniteSet(Unissued) /\ Cardinality(Unissued) \in Nat
         /\ Times \subseteq Nat
<1>1. Ids = 1..Len(tokens) /\ Len(tokens) \in Nat /\ \A i \in Ids : tokens[i] \in Token
  BY DEF TypeInv, Types, Ids
<1>2. IsFiniteSet(Unissued) /\ Cardinality(Unissued) \in Nat
  <2>1. Unissued \subseteq Calls
    BY DEF Unissued
  <2> QED BY <2>1, FS_Subset, FS_CardinalityType
<1> QED BY <1>1, <1>2 DEF TypeInv, RoomForTokens, Times

(* A step of one call's locals *)
LEMMA LocalStep ==
  ASSUME TypeInv, NEW c \in Calls, NEW x, Local(c, x)
  PROVE  /\ calls'[c] = x /\ \A d \in Calls : calls'[d] = IF d = c THEN x ELSE calls[d]
         /\ UNCHANGED <<now, tokens, rates, identities, mailed, sessions, forgotten, events, Ids>>
         /\ x \in Locals => Types'
<1>1. calls' = [calls EXCEPT ![c] = x]
      /\ UNCHANGED <<now, tokens, rates, identities, mailed, sessions, forgotten, events, Ids>>
  BY DEF Local, tables, Ids
<1>2. Locals' = Locals
  BY <1>1 DEF Locals, Mailing, Claiming, Committing, Refused, Answer, Ids
<1>3. x \in Locals => Types'
  BY <1>1, <1>2 DEF TypeInv, Types, Session, Ids
<1> QED BY <1>1, <1>3 DEF TypeInv, Types

LEMMA LocalBecomes ==
  ASSUME TypeInv, NEW c \in Calls
  PROVE  \A x : Local(c, x) => calls'[c] = x
BY LocalStep

(* Of the calls, only those that ask become, or stop being, unissued. *)
LEMMA RoomStays ==
  ASSUME TypeInv, Types', Len(tokens') = Len(tokens),
         \A d \in Calls : calls'[d].pc \in {"count", "store", "issue"}
                          => calls[d].pc \in {"count", "store", "issue"}
  PROVE  TypeInv'
<1>1. Unissued' \subseteq Unissued
  BY DEF Unissued
<1>2. Cardinality(Unissued') <= Cardinality(Unissued) /\ Cardinality(Unissued') \in Nat
  BY <1>1, TokensAreTyped, FS_Subset, FS_CardinalityType
<1> QED BY <1>2, TokensAreTyped DEF TypeInv, RoomForTokens

-----------------------------------------------------------------------------
(* What each step changes.  Most change the locals of one call. *)

LEMMA LocalsOfCalls ==
  ASSUME TypeInv, NEW c \in Calls
  PROVE  /\ calls[c].pc \in {"count", "store"} => calls[c] \in Asking
         /\ calls[c].pc = "issue" => calls[c] \in Issuing
         /\ calls[c].pc = "mail" => calls[c] \in Mailing
         /\ calls[c].pc \in {"claim", "find", "insert"} => calls[c] \in Claiming
         /\ calls[c].pc = "commit" => calls[c] \in Committing
         /\ calls[c].pc = "refused" => calls[c] \in Refused
BY DEF TypeInv, Types, Locals, Idle, Asking, Issuing, Mailing, Claiming, Committing, Refused

LEMMA AskStep ==
  ASSUME TypeInv, NEW c \in Calls, NEW e \in Emails, Ask(c, e)
  PROVE  Local(c, [pc |-> "count", email |-> e]) /\ [pc |-> "count", email |-> e] \in Locals
BY DEF Ask, Locals, Asking

LEMMA ClickStep ==
  ASSUME TypeInv, NEW c \in Calls, NEW i \in mailed, Click(c, i)
  PROVE  /\ Local(c, [pc |-> "claim", token |-> i, at |-> now])
         /\ [pc |-> "claim", token |-> i, at |-> now] \in Locals
BY DEF Click, Locals, Claiming, TypeInv, Types

LEMMA ReturnStep ==
  ASSUME TypeInv, NEW c \in Calls, Return(c)
  PROVE  Local(c, Idle) /\ Idle \in Locals /\ calls[c] \in Refused
BY LocalsOfCalls DEF Return, Locals

LEMMA CountStep ==
  ASSUME TypeInv, NEW c \in Calls, Count(c)
  PROVE  /\ calls[c] \in Asking /\ calls[c].pc = "count" /\ MayCount(calls[c].email)
         /\ calls'[c].pc = "refused" =>
              /\ Recent(calls[c].email) >= Limit
              /\ calls'[c].answer = [code |-> "rate_limited", email |-> calls[c].email, at |-> now]
         /\ calls'[c].pc = "store" =>
              ~(Recent(calls[c].email) >= Limit) /\ calls'[c].email = calls[c].email
         /\ \E x : Local(c, x)
         /\ calls'[c] \in Locals /\ calls'[c].pc \in {"refused", "store"}
<1>1. calls[c] \in Asking /\ calls[c].pc = "count" /\ calls[c].email \in Emails
  BY LocalsOfCalls DEF Count, Asking
<1>2. CASE Recent(calls[c].email) >= Limit
  <2>1. Local(c, [pc |-> "refused", answer |->
                    [code |-> "rate_limited", email |-> calls[c].email, at |-> now]])
    BY <1>2 DEF Count, Refuse
  <2>3. calls'[c] = [pc |-> "refused", answer |->
                       [code |-> "rate_limited", email |-> calls[c].email, at |-> now]]
    BY <2>1, LocalStep
  <2>2. /\ calls'[c] \in Refused /\ calls'[c].pc = "refused"
        /\ calls'[c].answer = [code |-> "rate_limited", email |-> calls[c].email, at |-> now]
    BY <1>1, <2>3 DEF Refused, Answer, TypeInv, Types
  <2> QED BY <1>1, <1>2, <2>1, <2>2 DEF Count, Locals
<1>3. CASE ~(Recent(calls[c].email) >= Limit)
  <2>1. Local(c, [pc |-> "store", email |-> calls[c].email])
    BY <1>3 DEF Count
  <2>3. calls'[c] = [pc |-> "store", email |-> calls[c].email]
    BY <2>1, LocalStep
  <2>2. calls'[c] \in Asking /\ calls'[c].pc = "store" /\ calls'[c].email = calls[c].email
    BY <1>1, <2>3 DEF Asking
  <2> QED BY <1>1, <1>3, <2>1, <2>2 DEF Count, Locals
<1> QED BY <1>2, <1>3

LEMMA StoreStep ==
  ASSUME TypeInv, NEW c \in Calls, Store(c)
  PROVE  /\ calls[c] \in Asking /\ calls[c].pc = "store"
         /\ Local(c, [pc |-> "issue", email |-> calls[c].email, at |-> now])
         /\ [pc |-> "issue", email |-> calls[c].email, at |-> now] \in Locals
BY LocalsOfCalls DEF Store, Locals, Asking, Issuing, TypeInv, Types

LEMMA ClaimStep ==
  ASSUME TypeInv, NEW c \in Calls, Claim(c)
  PROVE  LET i == calls[c].token IN
         /\ calls[c] \in Claiming /\ calls[c].pc = "claim" /\ i \in Ids /\ MayClaim(i)
         /\ calls'[c].pc = "refused" =>
              \/ Expired(c) /\ calls'[c].answer = [code |-> "expired", token |-> i]
              \/ tokens[i].claimed /\ calls'[c].answer = [code |-> "already_claimed", token |-> i]
         /\ calls'[c].pc = "find" =>
              ~tokens[i].claimed /\ calls'[c].token = i /\ calls'[c].at = calls[c].at
         /\ \E x : Local(c, x)
         /\ calls'[c] \in Locals /\ calls'[c].pc \in {"refused", "find"}
<1> DEFINE i == calls[c].token
<1>1. calls[c] \in Claiming /\ calls[c].pc = "claim" /\ i \in Ids /\ calls[c].at \in Times
  BY LocalsOfCalls DEF Claim, Claiming
<1>2. [calls[c] EXCEPT !.pc = "find"] = [pc |-> "find", token |-> i, at |-> calls[c].at]
  BY <1>1 DEF Claiming
<1>3. CASE Expired(c)
  <2>1. Local(c, [pc |-> "refused", answer |-> [code |-> "expired", token |-> i]])
    BY <1>3 DEF Claim, Refuse
  <2>3. calls'[c] = [pc |-> "refused", answer |-> [code |-> "expired", token |-> i]]
    BY <2>1, LocalStep
  <2>2. /\ calls'[c] \in Refused /\ calls'[c].pc = "refused"
        /\ calls'[c].answer = [code |-> "expired", token |-> i]
    BY <1>1, <2>3 DEF Refused, Answer
  <2> QED BY <1>1, <1>3, <2>1, <2>2 DEF Claim, Locals
<1>4. CASE ~Expired(c) /\ tokens[i].claimed
  <2>1. Local(c, [pc |-> "refused", answer |-> [code |-> "already_claimed", token |-> i]])
    BY <1>4 DEF Claim, Refuse
  <2>3. calls'[c] = [pc |-> "refused", answer |-> [code |-> "already_claimed", token |-> i]]
    BY <2>1, LocalStep
  <2>2. /\ calls'[c] \in Refused /\ calls'[c].pc = "refused"
        /\ calls'[c].answer = [code |-> "already_claimed", token |-> i]
    BY <1>1, <2>3 DEF Refused, Answer
  <2> QED BY <1>1, <1>4, <2>1, <2>2 DEF Claim, Locals
<1>5. CASE ~Expired(c) /\ ~tokens[i].claimed
  <2>1. Local(c, [pc |-> "find", token |-> i, at |-> calls[c].at])
    BY <1>2, <1>5 DEF Claim
  <2>3. calls'[c] = [pc |-> "find", token |-> i, at |-> calls[c].at]
    BY <2>1, LocalStep
  <2>2. /\ calls'[c] \in Claiming /\ calls'[c].pc = "find"
        /\ calls'[c].token = i /\ calls'[c].at = calls[c].at
    BY <1>1, <2>3 DEF Claiming
  <2> QED BY <1>1, <1>5, <2>1, <2>2 DEF Claim, Locals
<1> QED BY <1>3, <1>4, <1>5

(* Subjects of magic link identities of an e-mail *)
MagicSubjects(e) == {x.subject : x \in {y \in identities[e] : y.subject # B2C}}

LEMMA FindStep ==
  ASSUME TypeInv, NEW c \in Calls, FindIdentity(c)
  PROVE  /\ calls[c] \in Claiming /\ calls[c].pc = "find"
         /\ calls'[c].pc # "idle" => calls'[c].token = calls[c].token /\ calls'[c].at = calls[c].at
         /\ calls'[c].pc = "commit" =>
              ~calls'[c].inserts /\ calls'[c].subject \in MagicSubjects(EmailOf(c))
         /\ \E x : Local(c, x)
         /\ calls'[c] \in Locals /\ calls'[c].pc \in {"idle", "insert", "commit"}
<1>1. calls[c] \in Claiming /\ calls[c].pc = "find" /\ calls[c].token \in Ids /\ calls[c].at \in Times
  BY LocalsOfCalls DEF FindIdentity, Claiming
<1>2. EmailOf(c) \in Emails
  BY <1>1, TokensAreTyped DEF EmailOf, Token
<1>3. CASE Local(c, [calls[c] EXCEPT !.pc = "insert"])
  <2>1. [calls[c] EXCEPT !.pc = "insert"] = [pc |-> "insert", token |-> calls[c].token, at |-> calls[c].at]
    BY <1>1 DEF Claiming
  <2>2. calls'[c] = [pc |-> "insert", token |-> calls[c].token, at |-> calls[c].at]
    BY <1>3, <2>1, LocalBecomes
  <2>3. /\ calls'[c] \in Claiming /\ calls'[c].pc = "insert"
        /\ calls'[c].token = calls[c].token /\ calls'[c].at = calls[c].at
    BY <1>1, <2>2 DEF Claiming
  <2> QED BY <1>1, <1>3, <2>3 DEF Locals
<1>4. ASSUME NEW x \in identities[EmailOf(c)],
             Local(c, IF x.subject = B2C THEN Idle ELSE ToCommit(c, x.subject, FALSE))
      PROVE  /\ calls'[c].pc # "idle" => calls'[c].token = calls[c].token /\ calls'[c].at = calls[c].at
             /\ calls'[c].pc = "commit" =>
                  ~calls'[c].inserts /\ calls'[c].subject \in MagicSubjects(EmailOf(c))
             /\ \E y : Local(c, y)
             /\ calls'[c] \in Locals /\ calls'[c].pc \in {"idle", "commit"}
  <2>0. \E y : Local(c, y)
    BY <1>4
  <2>1. CASE x.subject = B2C
    <3>1. calls'[c] = Idle
      BY <1>4, <2>1, LocalBecomes
    <3>2. calls'[c] \in Locals /\ calls'[c].pc = "idle"
      BY <3>1 DEF Locals, Idle
    <3> QED BY <2>0, <3>2
  <2>2. CASE x.subject # B2C
    <3>1. x.subject \in MagicSubjects(EmailOf(c)) /\ x.subject \in Subject
      BY <1>2, <2>2 DEF MagicSubjects, TypeInv, Types, Identity, B2C, Subject
    <3>2. calls'[c] = ToCommit(c, x.subject, FALSE)
      BY <1>4, <2>2, LocalBecomes
    <3>3. /\ calls'[c] \in Committing /\ calls'[c].pc = "commit"
          /\ calls'[c].token = calls[c].token /\ calls'[c].at = calls[c].at
          /\ ~calls'[c].inserts /\ calls'[c].subject = x.subject
      BY <1>1, <3>1, <3>2 DEF ToCommit, Committing
    <3>4. calls'[c] \in Locals
      BY <3>3 DEF Locals
    <3> QED BY <2>0, <3>1, <3>3, <3>4
  <2> QED BY <2>1, <2>2
<1>5. \/ Local(c, [calls[c] EXCEPT !.pc = "insert"])
      \/ \E x \in identities[EmailOf(c)] :
           Local(c, IF x.subject = B2C THEN Idle ELSE ToCommit(c, x.subject, FALSE))
  BY DEF FindIdentity, Oldest
<1> QED BY <1>1, <1>3, <1>4, <1>5

LEMMA InsertStep ==
  ASSUME TypeInv, NEW c \in Calls, InsertIdentity(c)
  PROVE  /\ calls[c] \in Claiming /\ calls[c].pc = "insert" /\ ~Waits(c)
         /\ calls'[c].pc = "commit" =>
              /\ calls'[c].token = calls[c].token /\ calls'[c].at = calls[c].at
              /\ MagicSubjects(EmailOf(c)) = {}
              /\ calls'[c].inserts /\ calls'[c].subject = calls[c].token
         /\ \E x : Local(c, x)
         /\ calls'[c] \in Locals /\ calls'[c].pc \in {"idle", "commit"}
<1>1. calls[c] \in Claiming /\ calls[c].pc = "insert" /\ calls[c].token \in Ids /\ calls[c].at \in Times
  BY LocalsOfCalls DEF InsertIdentity, Claiming
<1>2. CASE IndexRefuses(c)
  <2>1. Local(c, Idle) /\ ~Waits(c)
    BY <1>2 DEF InsertIdentity
  <2>2. calls'[c] \in Locals /\ calls'[c].pc = "idle"
    BY <2>1, LocalBecomes DEF Locals, Idle
  <2> QED BY <1>1, <2>1, <2>2
<1>3. CASE ~IndexRefuses(c)
  <2>1. Local(c, ToCommit(c, calls[c].token, TRUE)) /\ MagicSubjects(EmailOf(c)) = {} /\ ~Waits(c)
    BY <1>3 DEF InsertIdentity, IndexRefuses, MagicSubjects
  <2>2. calls[c].token \in Subject
    BY <1>1, TokensAreTyped DEF Subject
  <2>3. calls'[c] = ToCommit(c, calls[c].token, TRUE)
    BY <2>1, LocalBecomes
  <2>4. /\ calls'[c] \in Committing /\ calls'[c].pc = "commit"
        /\ calls'[c].token = calls[c].token /\ calls'[c].at = calls[c].at
        /\ calls'[c].inserts /\ calls'[c].subject = calls[c].token
    BY <1>1, <2>2, <2>3 DEF Committing, ToCommit
  <2>5. calls'[c] \in Locals
    BY <2>4 DEF Locals
  <2> QED BY <1>1, <2>1, <2>4, <2>5
<1> QED BY <1>2, <1>3

LEMMA MoreLocals ==
  ASSUME TypeInv, NEW x \in Locals, Ids \subseteq Ids'
  PROVE  x \in Locals'
BY DEF Locals, Mailing, Claiming, Committing, Refused, Answer

LEMMA IssueStep ==
  ASSUME TypeInv, NEW c \in Calls, Issue(c)
  PROVE  LET n == Len(tokens) + 1 IN
         /\ calls[c] \in Issuing /\ calls[c].pc = "issue"
         /\ Ids' = Ids \cup {n} /\ n \notin Ids /\ n \in Nat /\ TokensStay
         /\ \A i \in Ids : tokens'[i] = tokens[i]
         /\ tokens'[n] = [email |-> calls[c].email, at |-> calls[c].at, claimed |-> FALSE]
         /\ rates' = rates \cup {n}
         /\ \A d \in Calls : calls'[d] = IF d = c THEN [pc |-> "mail", token |-> n] ELSE calls[d]
         /\ UNCHANGED <<now, identities, mailed, sessions, forgotten, events>>
         /\ TypeInv'
<1> DEFINE n == Len(tokens) + 1
           t == [email |-> calls[c].email, at |-> calls[c].at, claimed |-> FALSE]
<1>1. calls[c] \in Issuing /\ calls[c].pc = "issue" /\ t \in Token
  BY LocalsOfCalls DEF Issue, Issuing, Token
<1>2. tokens' = Append(tokens, t) /\ rates' = rates \cup {n}
      /\ calls' = [calls EXCEPT ![c] = [pc |-> "mail", token |-> n]]
      /\ UNCHANGED <<now, identities, mailed, sessions, forgotten, events>>
  BY DEF Issue
<1> HIDE DEF t
<1>3. /\ tokens' \in Seq(Token) /\ Len(tokens') = n /\ tokens'[n] = t
      /\ \A i \in 1..Len(tokens) : tokens'[i] = tokens[i]
  BY <1>1, <1>2 DEF TypeInv, Types
<1>4. Ids' = Ids \cup {n} /\ n \notin Ids /\ n \in Nat
  BY <1>3, TokensAreTyped DEF TypeInv, Types, Ids
<1>5. \A d \in Calls : calls'[d] = IF d = c THEN [pc |-> "mail", token |-> n] ELSE calls[d]
  BY <1>2 DEF TypeInv, Types
<1>6. Types'
  <2>1. [pc |-> "mail", token |-> n] \in Locals'
    BY <1>4 DEF Locals, Mailing
  <2>2. calls' \in [Calls -> Locals']
    BY <1>2, <1>4, <2>1, MoreLocals DEF TypeInv, Types
  <2>3. sessions' \subseteq Session' /\ IsFiniteSet(sessions')
    BY <1>2, <1>4 DEF TypeInv, Types, Session
  <2> QED BY <1>2, <1>3, <1>4, <2>2, <2>3 DEF TypeInv, Types
<1>7. RoomForTokens'
  <2>1. c \in Unissued /\ Unissued' = Unissued \ {c}
    BY <1>1, <1>5 DEF Unissued
  <2>2. Cardinality(Unissued') = Cardinality(Unissued) - 1
    BY <2>1, TokensAreTyped, FS_RemoveElement
  <2> QED BY <1>3, <2>2, TokensAreTyped DEF TypeInv, RoomForTokens
<1>8. TokensStay
  BY <1>3, <1>4, TokensAreTyped DEF TokensStay
<1> QED BY <1>1, <1>2, <1>3, <1>4, <1>5, <1>6, <1>7, <1>8, TokensAreTyped DEF TypeInv, t

LEMMA CommitStep ==
  ASSUME TypeInv, NEW c \in Calls, CommitClaim(c)
  PROVE  LET i == calls[c].token
             s == [token |-> i, subject |-> calls[c].subject, nth |-> Cardinality(SessionsOf(i)) + 1]
         IN
         /\ calls[c] \in Committing /\ calls[c].pc = "commit" /\ i \in Ids
         /\ Ids' = Ids /\ TokensStay
         /\ \A j \in Ids : tokens'[j].claimed = (tokens[j].claimed \/ j = i)
         /\ identities' = [identities EXCEPT ![EmailOf(c)] =
              IF calls[c].inserts THEN @ \cup {[subject |-> calls[c].subject, linkedAt |-> calls[c].at]}
              ELSE @]
         /\ sessions' = sessions \cup {s}
         /\ \A d \in Calls : calls'[d] = IF d = c THEN Idle ELSE calls[d]
         /\ UNCHANGED <<now, rates, mailed, forgotten, events>>
         /\ TypeInv'
<1> DEFINE i == calls[c].token
           s == [token |-> i, subject |-> calls[c].subject, nth |-> Cardinality(SessionsOf(i)) + 1]
<1>1. calls[c] \in Committing /\ calls[c].pc = "commit" /\ i \in Ids /\ calls[c].subject \in Subject
      /\ calls[c].at \in Times
  BY LocalsOfCalls DEF CommitClaim, Committing
<1>2. tokens' = [tokens EXCEPT ![i].claimed = TRUE] /\ sessions' = sessions \cup {s}
      /\ calls' = [calls EXCEPT ![c] = Idle]
      /\ UNCHANGED <<now, rates, mailed, forgotten, events>>
      /\ identities' = [identities EXCEPT ![EmailOf(c)] =
              IF calls[c].inserts THEN @ \cup {[subject |-> calls[c].subject, linkedAt |-> calls[c].at]}
              ELSE @]
  BY DEF CommitClaim
<1>3. tokens' \in Seq(Token) /\ Len(tokens') = Len(tokens) /\ Ids' = Ids
  <2> DEFINE t == [tokens[i] EXCEPT !.claimed = TRUE]
  <2>1. t \in Token
    BY <1>1, TokensAreTyped DEF Token
  <2>2. tokens' = [tokens EXCEPT ![i] = t]
    BY <1>2
  <2> HIDE DEF t
  <2>3. tokens' \in Seq(Token) /\ Len(tokens') = Len(tokens)
    BY <1>1, <2>1, <2>2, ExceptSeq DEF TypeInv, Types, Ids
  <2> QED BY <2>3 DEF TypeInv, Types, Ids
<1>4. /\ TokensStay
      /\ \A j \in Ids : tokens'[j].claimed = (tokens[j].claimed \/ j = i)
  BY <1>1, <1>2, <1>3, TokensAreTyped DEF TokensStay, Token, Ids
<1>5. \A d \in Calls : calls'[d] = IF d = c THEN Idle ELSE calls[d]
  BY <1>2 DEF TypeInv, Types
<1>6. SessionsOf(i) \subseteq sessions
  BY DEF SessionsOf
<1>7. s \in Session
  BY <1>1, <1>6, FS_Subset, FS_CardinalityType DEF TypeInv, Types, Session
<1> HIDE DEF s
<1>8. Types'
  <2>1. EmailOf(c) \in Emails
    BY <1>1, TokensAreTyped DEF EmailOf, Token
  <2>2. identities' \in [Emails -> SUBSET Identity]
    BY <1>1, <1>2, <2>1 DEF TypeInv, Types, Identity, Subject
  <2>3. calls' \in [Calls -> Locals']
    BY <1>2, <1>3, MoreLocals DEF TypeInv, Types, Locals
  <2>4. sessions' \subseteq Session' /\ IsFiniteSet(sessions')
    BY <1>2, <1>3, <1>7, FS_AddElement DEF TypeInv, Types, Session
  <2> QED BY <1>2, <1>3, <2>2, <2>3, <2>4 DEF TypeInv, Types
<1>9. TypeInv'
  BY <1>3, <1>5, <1>8, RoomStays DEF Idle
<1> QED BY <1>1, <1>2, <1>3, <1>4, <1>5, <1>9 DEF s

(* Steps of the clock, the mail service, the purge, staff and reconcile *)
LEMMA OtherSteps ==
  ASSUME TypeInv, Tick \/ Purge \/ (\E e \in Emails : LinkB2C(e) \/ DeleteContact(e))
                  \/ (\E c \in Calls : SendMail(c) \/ Lose(c))
  PROVE  /\ UNCHANGED <<tokens, Ids, sessions>> /\ TokensStay
         /\ \/ \E c \in Calls : \A d \in Calls : calls'[d] = IF d = c THEN Idle ELSE calls[d]
            \/ UNCHANGED calls
         /\ now' = now \/ (now' = now + 1 /\ calls' = calls /\ rates' = rates)
         /\ rates' \subseteq rates
         /\ \A i \in rates \ rates' : tokens[i].at < now - Retention
         /\ TypeInv'
<1>1. UNCHANGED <<tokens, Ids, sessions>> /\ TokensStay
  BY DEF Tick, Purge, LinkB2C, DeleteContact, SendMail, Lose, tables, TokensStay, Ids
<1>2. /\ \/ \E c \in Calls : calls' = [calls EXCEPT ![c] = Idle]
         \/ UNCHANGED calls
      /\ now' = now \/ (now' = now + 1 /\ calls' = calls /\ rates' = rates)
      /\ rates' \subseteq rates
      /\ \A i \in rates \ rates' : tokens[i].at < now - Retention
  BY DEF Tick, Purge, LinkB2C, DeleteContact, SendMail, Lose, tables
<1>3. Locals' = Locals /\ Session' = Session
  BY <1>1 DEF Locals, Mailing, Claiming, Committing, Refused, Answer, Session
<1>4. calls' \in [Calls -> Locals]
  BY <1>2 DEF TypeInv, Types, Locals
<1>5. now' \in Times /\ mailed' \subseteq Ids /\ events' \in Nat
  <2>1. CASE Tick
    BY <2>1 DEF Tick, TypeInv, Types, Times
  <2>2. CASE ~Tick /\ \E c \in Calls : SendMail(c)
    BY <2>2, LocalsOfCalls DEF SendMail, TypeInv, Types, Mailing
  <2>3. CASE ~Tick /\ ~ \E c \in Calls : SendMail(c)
    BY <2>3 DEF Purge, LinkB2C, DeleteContact, Lose, Event, TypeInv, Types
  <2> QED BY <2>1, <2>2, <2>3
<1>6. identities' \in [Emails -> SUBSET Identity]
  <2>1. CASE \E e \in Emails : LinkB2C(e)
    <3>1. PICK e \in Emails, t \in 0..now :
            identities' = [identities EXCEPT ![e] = @ \cup {[subject |-> B2C, linkedAt |-> t]}]
      BY <2>1 DEF LinkB2C
    <3>2. [subject |-> B2C, linkedAt |-> t] \in Identity
      BY DEF Identity, B2C, TypeInv, Types, Times
    <3> QED BY <3>1, <3>2 DEF TypeInv, Types
  <2>2. CASE \E e \in Emails : DeleteContact(e)
    BY <2>2 DEF DeleteContact, TypeInv, Types
  <2>3. CASE Tick \/ Purge \/ \E c \in Calls : SendMail(c) \/ Lose(c)
    BY <2>3 DEF Tick, Purge, SendMail, Lose, tables, TypeInv, Types
  <2> QED BY <2>1, <2>2, <2>3
<1>7. Types'
  BY <1>1, <1>2, <1>3, <1>4, <1>5, <1>6 DEF TypeInv, Types
<1>8. TypeInv'
  BY <1>1, <1>2, <1>7, RoomStays DEF Idle, TypeInv, Types
<1>9. ASSUME NEW c \in Calls, calls' = [calls EXCEPT ![c] = Idle]
      PROVE  \A d \in Calls : calls'[d] = IF d = c THEN Idle ELSE calls[d]
  BY <1>9 DEF TypeInv, Types
<1> QED BY <1>1, <1>2, <1>8, <1>9

-----------------------------------------------------------------------------
LEMMA InitTypes == Init => TypeInv
<1> SUFFICES ASSUME Init PROVE TypeInv
  OBVIOUS
<1>1. Types
  BY FS_EmptySet DEF Init, Types, Times, Ids, Locals
<1>2. Unissued = {} /\ Len(tokens) = 0
  BY DEF Init, Unissued, Idle
<1> QED BY <1>1, <1>2, FS_EmptySet DEF TypeInv, RoomForTokens

(* A step that leaves tables and clock alone *)
CallMoves(c) ==
  /\ \A d \in Calls \ {c} : calls'[d] = calls[d]
  /\ UNCHANGED <<now, tokens, rates, identities, mailed, sessions, forgotten, events, Ids>>

LEMMA LocalMoves ==
  ASSUME TypeInv, NEW c \in Calls, NEW x, Local(c, x), calls'[c] \in Locals,
         calls'[c].pc \in {"count", "store", "issue"} => calls[c].pc \in {"count", "store", "issue"}
  PROVE  CallMoves(c) /\ TypeInv'
<1>1. CallMoves(c) /\ Types'
  BY LocalStep DEF CallMoves
<1> QED BY <1>1, RoomStays DEF CallMoves

LEMMA AskTypes ==
  ASSUME TypeInv, NEW c \in Calls, NEW e \in Emails, Ask(c, e)
  PROVE  CallMoves(c) /\ calls'[c] = [pc |-> "count", email |-> e] /\ TypeInv'
<1>1. CallMoves(c) /\ calls'[c] = [pc |-> "count", email |-> e] /\ Types'
  BY AskStep, LocalStep DEF CallMoves
<1>2. Unissued' = Unissued \cup {c}
  BY <1>1 DEF Unissued, CallMoves
<1>3. Cardinality(Unissued') <= Cardinality(Unissued) + 1 /\ Cardinality(Unissued') \in Nat
  <2>1. Cardinality(Unissued \cup {c}) \in {Cardinality(Unissued), Cardinality(Unissued) + 1}
    BY TokensAreTyped, FS_AddElement
  <2> QED BY <1>2, <2>1, TokensAreTyped
<1>4. Len(tokens) + Cardinality(Unissued) < MaxTokens
  BY DEF Ask
<1> QED BY <1>1, <1>3, <1>4, TokensAreTyped DEF TypeInv, RoomForTokens, CallMoves

LEMMA CallTypes ==
  ASSUME TypeInv, NEW c \in Calls,
         (\E i \in mailed : Click(c, i)) \/ Count(c) \/ Store(c) \/ Claim(c) \/ FindIdentity(c)
           \/ InsertIdentity(c) \/ Return(c)
  PROVE  CallMoves(c) /\ TypeInv'
<1>1. CASE \E i \in mailed : Click(c, i)
  <2>1. PICK i \in mailed : Click(c, i)
    BY <1>1
  <2>2. /\ Local(c, [pc |-> "claim", token |-> i, at |-> now])
        /\ calls'[c] = [pc |-> "claim", token |-> i, at |-> now] /\ calls'[c] \in Locals
    BY <2>1, ClickStep, LocalStep
  <2> QED BY <2>2, LocalMoves
<1>2. CASE Count(c)
  <2>1. PICK x : Local(c, x)
    BY <1>2, CountStep
  <2> QED BY <1>2, <2>1, CountStep, LocalMoves
<1>3. CASE Store(c)
  <2>1. /\ Local(c, [pc |-> "issue", email |-> calls[c].email, at |-> now])
        /\ calls'[c] \in Locals /\ calls[c].pc = "store"
    BY <1>3, StoreStep, LocalStep
  <2> QED BY <2>1, LocalMoves
<1>4. CASE Claim(c)
  <2>1. PICK x : Local(c, x)
    BY <1>4, ClaimStep
  <2> QED BY <1>4, <2>1, ClaimStep, LocalMoves
<1>5. CASE FindIdentity(c)
  <2>1. PICK x : Local(c, x)
    BY <1>5, FindStep
  <2> QED BY <1>5, <2>1, FindStep, LocalMoves
<1>6. CASE InsertIdentity(c)
  <2>1. PICK x : Local(c, x)
    BY <1>6, InsertStep
  <2> QED BY <1>6, <2>1, InsertStep, LocalMoves
<1>7. CASE Return(c)
  <2>1. Local(c, Idle) /\ calls'[c] = Idle /\ calls'[c] \in Locals
    BY <1>7, ReturnStep, LocalStep
  <2> QED BY <2>1, LocalMoves DEF Idle
<1> QED BY <1>1, <1>2, <1>3, <1>4, <1>5, <1>6, <1>7

LEMMA TypesKept == TypeInv /\ [Next]_vars => TypeInv'
<1> SUFFICES ASSUME TypeInv, [Next]_vars PROVE TypeInv'
  OBVIOUS
<1>1. ASSUME NEW c \in Calls, NEW e \in Emails, Ask(c, e) PROVE TypeInv'
  BY <1>1, AskTypes
<1>2. ASSUME NEW c \in Calls, (\E i \in mailed : Click(c, i)) \/ Count(c) \/ Store(c) \/ Claim(c)
                              \/ FindIdentity(c) \/ InsertIdentity(c) \/ Return(c)
      PROVE  TypeInv'
  BY <1>2, CallTypes
<1>3. ASSUME NEW c \in Calls, Issue(c) PROVE TypeInv'
  BY <1>3, IssueStep
<1>4. ASSUME NEW c \in Calls, CommitClaim(c) PROVE TypeInv'
  BY <1>4, CommitStep
<1>5. ASSUME Tick \/ Purge \/ (\E e \in Emails : LinkB2C(e) \/ DeleteContact(e))
             \/ (\E c \in Calls : SendMail(c) \/ Lose(c))
      PROVE  TypeInv'
  BY <1>5, OtherSteps
<1>6. CASE UNCHANGED vars
  <2>1. Types'
    BY <1>6 DEF vars, tables, TypeInv, Types, Locals, Mailing, Claiming, Committing, Refused,
                Answer, Session, Ids
  <2> QED BY <1>6, <2>1, RoomStays DEF vars, tables
<1> QED BY <1>1, <1>2, <1>3, <1>4, <1>5, <1>6 DEF Next, Step

-----------------------------------------------------------------------------
(* The limit: what is counted is what was issued, and a call that has counted
   keeps its place until it has issued.                                     *)

Since(e, t) == {i \in Ids : tokens[i].email = e /\ tokens[i].at >= t}
Counting(c) == calls[c].pc \in {"store", "issue"}
Stamp(c) == IF calls[c].pc = "store" THEN now ELSE calls[c].at

InThePast ==
  /\ \A i \in Ids : tokens[i].at <= now
  /\ \A c \in Calls : calls[c].pc \in {"issue", "claim", "find", "insert", "commit"} => calls[c].at <= now

(* A row is purged only when no count will look at it again. *)
RecentKept == \A i \in Ids \ rates : tokens[i].at < now - Retention

OneCounter ==
  \A c, d \in Calls : Counting(c) /\ Counting(d) /\ calls[c].email = calls[d].email => c = d

PlaceKept ==
  \A c \in Calls, e \in Emails : Counting(c) /\ calls[c].email = e =>
    /\ \A t \in Int : t >= Stamp(c) - Window => Cardinality(Since(e, t)) < Limit
    /\ \A i \in Ids : tokens[i].email = e => tokens[i].at <= Stamp(c)

RateInv == InThePast /\ RecentKept /\ OneCounter /\ PlaceKept /\ LinksAreRationed

LEMMA SetsOfIdsAreFinite ==
  ASSUME TypeInv, NEW S \in SUBSET Ids
  PROVE  IsFiniteSet(S) /\ Cardinality(S) \in Nat
<1>1. IsFiniteSet(Ids)
  BY TokensAreTyped, FS_Interval
<1> QED BY <1>1, FS_Subset, FS_CardinalityType

LEMMA FewerIds ==
  ASSUME TypeInv, NEW S \in SUBSET Ids, NEW T \in SUBSET S
  PROVE  Cardinality(T) <= Cardinality(S) /\ Cardinality(T) \in Nat /\ Cardinality(S) \in Nat
BY SetsOfIdsAreFinite, FS_Subset

(* Of the tokens, those count that their e-mail and time put in. *)
LEMMA SameTokensCount ==
  ASSUME TokensStay, Ids' = Ids
  PROVE  /\ \A e, t : Since(e, t)' = Since(e, t)
         /\ \A e, s, t : IssuedIn(e, s, t)' = IssuedIn(e, s, t)
BY DEF TokensStay, Since, IssuedIn, Ids

LEMMA RateQuiet ==
  ASSUME TypeInv, TypeInv', RateInv, TokensStay, Ids' = Ids, now' = now, rates' \subseteq rates,
         \A i \in rates \ rates' : tokens[i].at < now - Retention,
         \A d \in Calls : Counting(d)' => calls'[d] = calls[d],
         \A d \in Calls : calls'[d].pc \in {"claim", "find", "insert", "commit"} => calls'[d].at <= now
  PROVE  RateInv'
<1> USE DEF RateInv
<1>1. InThePast'
  BY DEF InThePast, TokensStay, Counting
<1>2. RecentKept'
  BY DEF RecentKept, TokensStay
<1>3. OneCounter' /\ PlaceKept'
  <2>1. \A d \in Calls : Counting(d)' => Counting(d) /\ Stamp(d)' = Stamp(d)
    BY DEF Counting, Stamp
  <2>2. OneCounter'
    BY <2>1 DEF OneCounter
  <2>3. PlaceKept'
    BY <2>1, SameTokensCount DEF PlaceKept, TokensStay
  <2> QED BY <2>2, <2>3
<1>4. LinksAreRationed'
  BY SameTokensCount DEF LinksAreRationed
<1> QED BY <1>1, <1>2, <1>3, <1>4

(* What a call has counted stays true as the clock goes on. *)
LEMMA RateTick ==
  ASSUME TypeInv, TypeInv', RateInv, TokensStay, Ids' = Ids, now' = now + 1, calls' = calls,
         rates' = rates
  PROVE  RateInv'
<1> USE DEF RateInv
<1>1. now \in Nat /\ \A i \in Ids : tokens[i].at \in Nat
  BY TokensAreTyped DEF TypeInv, Types, Token
<1>2. InThePast'
  <2>1. \A c \in Calls : calls[c].pc \in {"issue", "claim", "find", "insert", "commit"} => calls[c].at \in Nat
    BY LocalsOfCalls, TokensAreTyped DEF Issuing, Claiming, Committing
  <2> QED BY <1>1, <2>1 DEF InThePast, TokensStay
<1>3. RecentKept'
  BY <1>1 DEF RecentKept, TokensStay
<1>4. OneCounter'
  BY DEF OneCounter, Counting
<1>5. PlaceKept'
  <2> SUFFICES ASSUME NEW c \in Calls, NEW e \in Emails, Counting(c), calls[c].email = e
               PROVE  /\ \A t \in Int : t >= Stamp(c)' - Window => Cardinality(Since(e, t)) < Limit
                      /\ \A i \in Ids : tokens[i].email = e => tokens[i].at <= Stamp(c)'
    BY SameTokensCount DEF PlaceKept, Counting, TokensStay
  <2>1. Stamp(c) \in Nat /\ Stamp(c)' \in Nat /\ Stamp(c) <= Stamp(c)'
    BY <1>1, LocalsOfCalls, TokensAreTyped DEF Stamp, Counting, Issuing
  <2> QED BY <1>1, <2>1 DEF PlaceKept
<1>6. LinksAreRationed'
  BY SameTokensCount DEF LinksAreRationed
<1> QED BY <1>2, <1>3, <1>4, <1>5, <1>6

LEMMA RateCount ==
  ASSUME TypeInv, TypeInv', RateInv, NEW c \in Calls, Count(c)
  PROVE  RateInv'
<1> USE DEF RateInv
<1>1. CallMoves(c) /\ TokensStay /\ calls[c].email \in Emails /\ calls[c].pc = "count"
      /\ MayCount(calls[c].email)
  BY CallTypes, CountStep DEF CallMoves, TokensStay, Asking
<1>2. CASE calls'[c].pc = "refused"
  BY <1>1, <1>2, RateQuiet DEF CallMoves, Counting, InThePast
<1>3. CASE calls'[c].pc = "store"
  <2> DEFINE e == calls[c].email
  <2>1. calls'[c].pc = "store" /\ calls'[c].email = e /\ ~(Recent(e) >= Limit)
    BY <1>3, CountStep
  <2>2. InThePast' /\ RecentKept' /\ LinksAreRationed'
    BY <1>1, <2>1, SameTokensCount DEF InThePast, RecentKept, LinksAreRationed, CallMoves, TokensStay
  <2>3. OneCounter'
    <3>1. \A d \in Calls \ {c} : Counting(d)' => Counting(d) /\ calls'[d] = calls[d] /\ calls[d].email # e
      BY <1>1 DEF CallMoves, Counting, MayCount
    <3> QED BY <2>1, <3>1 DEF OneCounter
  <2>4. ASSUME NEW t \in Int, t >= now - Window PROVE Cardinality(Since(e, t)) < Limit
    <3> DEFINE R == {i \in rates : tokens[i].email = e /\ tokens[i].at >= now - Window}
    <3>1. Since(e, t) \subseteq R
      BY <2>4, TokensAreTyped, SMTT(20) DEF Since, RecentKept, TypeInv, Types, Token
    <3>2. R \subseteq Ids
      BY DEF TypeInv, Types
    <3>3. Cardinality(Since(e, t)) <= Cardinality(R) /\ Cardinality(R) \in Nat
          /\ Cardinality(Since(e, t)) \in Nat
      BY <3>1, <3>2, FewerIds
    <3> QED BY <2>1, <3>3 DEF Recent
  <2>5. PlaceKept'
    <3>1. ASSUME NEW d \in Calls, NEW f \in Emails, Counting(d)', calls'[d].email = f
          PROVE  /\ \A t \in Int : t >= Stamp(d)' - Window => Cardinality(Since(f, t)) < Limit
                 /\ \A i \in Ids : tokens[i].email = f => tokens[i].at <= Stamp(d)'
      <4>1. CASE d = c
        BY <1>1, <2>1, <2>4, <3>1, <4>1 DEF Stamp, InThePast, CallMoves
      <4>2. CASE d # c
        BY <1>1, <3>1, <4>2 DEF Stamp, Counting, PlaceKept, CallMoves
      <4> QED BY <4>1, <4>2
    <3> QED BY <1>1, <3>1, SameTokensCount DEF PlaceKept, TokensStay, CallMoves
  <2> QED BY <2>2, <2>3, <2>5
<1> QED BY <1>2, <1>3, CountStep

LEMMA RateStore ==
  ASSUME TypeInv, TypeInv', RateInv, NEW c \in Calls, Store(c)
  PROVE  RateInv'
<1> USE DEF RateInv
<1>1. CallMoves(c) /\ TokensStay /\ calls[c].email \in Emails /\ calls[c].pc = "store"
      /\ calls'[c] = [pc |-> "issue", email |-> calls[c].email, at |-> now]
  BY CallTypes, StoreStep, LocalStep DEF CallMoves, TokensStay, Asking
<1>2. \A d \in Calls : Counting(d)' =>
        Counting(d) /\ calls'[d].email = calls[d].email /\ Stamp(d)' = Stamp(d)
  BY <1>1 DEF Counting, Stamp, CallMoves
<1>3. InThePast' /\ RecentKept' /\ LinksAreRationed'
  BY <1>1, TokensAreTyped, SameTokensCount
     DEF InThePast, RecentKept, LinksAreRationed, CallMoves, TokensStay, TypeInv, Types
<1>4. OneCounter' /\ PlaceKept'
  BY <1>1, <1>2, SameTokensCount DEF OneCounter, PlaceKept, TokensStay, CallMoves
<1> QED BY <1>3, <1>4

(* The new link is the latest of its e-mail: an hour that has it began when
   there was a place left.                                                 *)
LEMMA RateIssue ==
  ASSUME TypeInv, TypeInv', RateInv, NEW c \in Calls, Issue(c)
  PROVE  RateInv'
<1> USE DEF RateInv
<1> DEFINE n == Len(tokens) + 1
           e == calls[c].email
           a == calls[c].at
<1>1. /\ calls[c].pc = "issue" /\ e \in Emails /\ a \in Nat /\ Counting(c) /\ Stamp(c) = a
      /\ Ids' = Ids \cup {n} /\ n \notin Ids /\ TokensStay
      /\ \A i \in Ids : tokens'[i] = tokens[i]
      /\ tokens'[n].email = e /\ tokens'[n].at = a
      /\ rates' = rates \cup {n} /\ now' = now /\ now \in Nat
      /\ calls'[c].pc = "mail" /\ \A d \in Calls \ {c} : calls'[d] = calls[d]
  <2>1. calls[c] \in Issuing /\ calls[c].pc = "issue"
    BY IssueStep
  <2>2. e \in Emails /\ a \in Nat /\ now \in Nat
    BY <2>1, TokensAreTyped DEF Issuing, TypeInv, Types
  <2>3. Counting(c) /\ Stamp(c) = a
    BY <2>1 DEF Counting, Stamp
  <2>4. /\ Ids' = Ids \cup {n} /\ n \notin Ids /\ TokensStay
        /\ \A i \in Ids : tokens'[i] = tokens[i]
        /\ tokens'[n] = [email |-> e, at |-> a, claimed |-> FALSE]
        /\ rates' = rates \cup {n} /\ now' = now
        /\ \A d \in Calls : calls'[d] = IF d = c THEN [pc |-> "mail", token |-> n] ELSE calls[d]
    BY IssueStep
  <2> QED BY <2>1, <2>2, <2>3, <2>4
<1> HIDE DEF n, e, a
<1>2. InThePast' /\ RecentKept'
  BY <1>1 DEF InThePast, RecentKept, a
<1>3. ASSUME NEW d \in Calls, Counting(d)'
      PROVE  /\ Counting(d) /\ d # c /\ calls'[d] = calls[d] /\ calls[d].email # e /\ Stamp(d)' = Stamp(d)
  BY <1>1, <1>3 DEF Counting, Stamp, OneCounter, e
<1>4. OneCounter'
  BY <1>3 DEF OneCounter
<1>5. PlaceKept'
  <2>1. \A f, t : f # e => Since(f, t)' = Since(f, t)
    BY <1>1 DEF Since
  <2> QED BY <1>1, <1>3, <2>1 DEF PlaceKept
<1>6. LinksAreRationed'
  <2> SUFFICES ASSUME NEW f \in Emails, NEW t \in Times
               PROVE  Cardinality(IssuedIn(f, t - Window, t)') <= Limit
    BY DEF LinksAreRationed
  <2>1. t \in Nat /\ Limit \in Nat /\ Window \in Nat
    BY DEF Times
  <2>2. CASE f = e /\ a \in (t - Window)..t
    <3> DEFINE S == Since(e, t - Window)
    <3>1. IssuedIn(f, t - Window, t)' \subseteq S \cup {n}
      BY <1>1, <2>1, <2>2, TokensAreTyped DEF IssuedIn, Since, Ids, Token
    <3>2. S \subseteq Ids
      BY DEF Since
    <3>3. Cardinality(S) < Limit
      BY <1>1, <2>1, <2>2 DEF PlaceKept, e
    <3>4. IsFiniteSet(S) /\ Cardinality(S) \in Nat
      BY <3>2, SetsOfIdsAreFinite
    <3> HIDE DEF S
    <3>5. IsFiniteSet(S \cup {n}) /\ Cardinality(S \cup {n}) \in {Cardinality(S), Cardinality(S) + 1}
      BY <3>4, FS_AddElement
    <3>6. /\ Cardinality(IssuedIn(f, t - Window, t)') <= Cardinality(S \cup {n})
          /\ Cardinality(IssuedIn(f, t - Window, t)') \in Nat
      BY <3>1, <3>5, FS_Subset, FS_CardinalityType
    <3> QED BY <2>1, <3>3, <3>4, <3>5, <3>6
  <2>3. CASE ~(f = e /\ a \in (t - Window)..t)
    <3>1. IssuedIn(f, t - Window, t)' = IssuedIn(f, t - Window, t)
      BY <1>1, <2>3 DEF IssuedIn, Ids
    <3> QED BY <3>1 DEF LinksAreRationed
  <2> QED BY <2>2, <2>3
<1> QED BY <1>2, <1>4, <1>5, <1>6

LEMMA RateLimit == Spec => [](TypeInv /\ RateInv)
<1>1. Init => TypeInv /\ RateInv
  <2> SUFFICES ASSUME Init PROVE RateInv
    BY InitTypes
  <2>1. Ids = {} /\ \A c \in Calls : calls[c].pc = "idle"
    BY DEF Init, Ids, Idle
  <2>2. LinksAreRationed
    BY <2>1, FS_EmptySet DEF LinksAreRationed, IssuedIn, Ids
  <2> QED BY <2>1, <2>2 DEF RateInv, InThePast, RecentKept, OneCounter, PlaceKept, Counting
<1>2. TypeInv /\ RateInv /\ [Next]_vars => TypeInv' /\ RateInv'
  <2> SUFFICES ASSUME TypeInv, RateInv, [Next]_vars PROVE RateInv'
    BY TypesKept
  <2>0. TypeInv'
    BY TypesKept
  <2>1. ASSUME NEW c \in Calls, Count(c) \/ Store(c) \/ Issue(c) PROVE RateInv'
    BY <2>0, <2>1, RateCount, RateStore, RateIssue
  <2>2. ASSUME NEW c \in Calls, CallMoves(c), calls'[c].pc \notin {"store", "issue"},
               calls'[c].pc \in {"claim", "find", "insert", "commit"} => calls'[c].at <= now
        PROVE  RateInv'
    <3>1. \A d \in Calls : Counting(d)' => calls'[d] = calls[d]
      BY <2>2 DEF Counting, CallMoves
    <3>2. \A d \in Calls : calls'[d].pc \in {"claim", "find", "insert", "commit"} => calls'[d].at <= now
      BY <2>2 DEF CallMoves, RateInv, InThePast
    <3>3. TokensStay /\ Ids' = Ids /\ now' = now /\ rates' = rates
      BY <2>2 DEF CallMoves, TokensStay
    <3> QED BY <2>0, <3>1, <3>2, <3>3, RateQuiet
  <2>3. ASSUME NEW c \in Calls, NEW e \in Emails, Ask(c, e) PROVE RateInv'
    <3>1. CallMoves(c) /\ calls'[c] = [pc |-> "count", email |-> e]
      BY <2>3, AskTypes
    <3> QED BY <2>2, <3>1
  <2>4. ASSUME NEW c \in Calls, NEW i \in mailed, Click(c, i) PROVE RateInv'
    <3>1. CallMoves(c)
      BY <2>4, CallTypes
    <3>2. calls'[c] = [pc |-> "claim", token |-> i, at |-> now]
      BY <2>4, ClickStep, LocalBecomes
    <3>3. now <= now
      BY TokensAreTyped DEF TypeInv, Types
    <3> QED BY <2>2, <3>1, <3>2, <3>3
  <2>5. ASSUME NEW c \in Calls, Claim(c) PROVE RateInv'
    <3>1. CallMoves(c) /\ calls[c].pc = "claim"
      BY <2>5, CallTypes, ClaimStep
    <3>2. calls'[c].pc = "refused" \/ (calls'[c].pc = "find" /\ calls'[c].at = calls[c].at)
      BY <2>5, ClaimStep
    <3> QED BY <2>2, <3>1, <3>2 DEF RateInv, InThePast
  <2>6. ASSUME NEW c \in Calls, FindIdentity(c) PROVE RateInv'
    <3>1. CallMoves(c) /\ calls[c].pc = "find"
      BY <2>6, CallTypes, FindStep
    <3>2. calls'[c].pc = "idle" \/ (calls'[c].pc \in {"insert", "commit"} /\ calls'[c].at = calls[c].at)
      BY <2>6, FindStep
    <3> QED BY <2>2, <3>1, <3>2 DEF RateInv, InThePast
  <2>7. ASSUME NEW c \in Calls, InsertIdentity(c) PROVE RateInv'
    <3>1. CallMoves(c) /\ calls[c].pc = "insert"
      BY <2>7, CallTypes, InsertStep
    <3>2. calls'[c].pc = "idle" \/ (calls'[c].pc = "commit" /\ calls'[c].at = calls[c].at)
      BY <2>7, InsertStep
    <3> QED BY <2>2, <3>1, <3>2 DEF RateInv, InThePast
  <2>8. ASSUME NEW c \in Calls, Return(c) PROVE RateInv'
    BY <2>2, <2>8, CallTypes, ReturnStep, LocalStep DEF Idle
  <2>9. ASSUME NEW c \in Calls, CommitClaim(c) PROVE RateInv'
    <3>1. /\ TokensStay /\ Ids' = Ids /\ now' = now /\ rates' = rates
          /\ \A d \in Calls : calls'[d] = IF d = c THEN Idle ELSE calls[d]
      BY <2>9, CommitStep
    <3> QED BY <2>0, <3>1, RateQuiet DEF Counting, Idle, RateInv, InThePast
  <2>10. CASE Tick \/ Purge \/ (\E e \in Emails : LinkB2C(e) \/ DeleteContact(e))
              \/ (\E c \in Calls : SendMail(c) \/ Lose(c))
    <3>1. CASE now' = now
      BY <2>0, <2>10, <3>1, OtherSteps, RateQuiet DEF Counting, Idle, RateInv, InThePast
    <3>2. CASE now' # now
      BY <2>0, <2>10, <3>2, OtherSteps, RateTick
    <3> QED BY <3>1, <3>2
  <2>11. CASE UNCHANGED vars
    <3>1. TokensStay /\ Ids' = Ids /\ UNCHANGED <<now, rates, calls>>
      BY <2>11 DEF vars, tables, TokensStay, Ids
    <3> QED BY <2>0, <3>1, RateQuiet DEF RateInv, InThePast
  <2> QED BY <2>1, <2>3, <2>4, <2>5, <2>6, <2>7, <2>8, <2>9, <2>10, <2>11 DEF Next, Step
<1> QED BY <1>1, <1>2, PTL DEF Spec

(* Any state a run can reach has the types of the model: what an action reads
   from a row or from the locals of a call is there to be read.              *)
THEOREM TypeCorrect == Spec => []TypeOK
<1>1. TypeInv => TypeOK
  <2> SUFFICES ASSUME TypeInv PROVE TypeOK
    OBVIOUS
  <2>1. ASSUME NEW c \in Calls
        PROVE  calls[c].pc \in {"idle", "count", "store", "issue", "mail", "claim", "find",
                                "insert", "commit", "refused"}
    BY DEF TypeInv, Types, Locals, Idle, Asking, Issuing, Mailing, Claiming, Committing, Refused
  <2> QED BY <2>1, TokensAreTyped, SMTT(20) DEF TypeOK, TypeInv, Types, Ids, Session, Subject
<1> QED BY <1>1, RateLimit, PTL

(* The limit is one of links issued, in any window of time: what the lock, the
   count, the clock read after it and the purge promise together.            *)
THEOREM LinksRationed == Spec => []LinksAreRationed
<1>1. RateInv => LinksAreRationed
  BY DEF RateInv
<1> QED BY <1>1, RateLimit, PTL

-----------------------------------------------------------------------------
(* The claim: a call past its UPDATE is the only one of its row, and the row
   is as it found it until the commit.                                      *)

Claims(c) == calls[c].pc \in {"find", "insert", "commit"}

OneClaimer == \A c, d \in Calls : Claims(c) /\ Claims(d) /\ calls[c].token = calls[d].token => c = d

NotYetClaimed == \A c \in Calls : Claims(c) => ~tokens[calls[c].token].claimed

ClaimInv == OneClaimer /\ NotYetClaimed /\ ClaimedForOneSession

LEMMA SessionsOfNewTokens ==
  ASSUME TypeInv, NEW i, i \notin Ids
  PROVE  SessionsOf(i) = {}
BY DEF SessionsOf, TypeInv, Types, Session

LEMMA ClaimQuiet ==
  ASSUME TypeInv, TypeInv', ClaimInv, TokensStay, sessions' = sessions,
         \A i \in Ids : tokens'[i].claimed = tokens[i].claimed,
         \A i \in Ids' \ Ids : ~tokens'[i].claimed,
         \A d \in Calls : Claims(d)' => Claims(d) /\ calls'[d].token = calls[d].token
  PROVE  ClaimInv'
<1>1. OneClaimer'
  BY DEF ClaimInv, OneClaimer
<1>2. NotYetClaimed'
  <2>1. ASSUME NEW d \in Calls, Claims(d)' PROVE ~tokens'[calls'[d].token].claimed
    <3>1. Claims(d) /\ calls[d].token \in Ids /\ calls'[d].token = calls[d].token
      BY <2>1, LocalsOfCalls DEF Claims, Claiming, Committing
    <3> QED BY <3>1 DEF ClaimInv, NotYetClaimed
  <2> QED BY <2>1 DEF NotYetClaimed
<1>3. ClaimedForOneSession'
  <2>1. \A i \in Ids' : SessionsOf(i)' = SessionsOf(i)
    BY DEF SessionsOf
  <2>2. \A i \in Ids : Cardinality(SessionsOf(i)) = IF tokens'[i].claimed THEN 1 ELSE 0
    BY DEF ClaimInv, ClaimedForOneSession, Ids
  <2>3. \A i \in Ids' \ Ids : Cardinality(SessionsOf(i)) = 0
    BY SessionsOfNewTokens, FS_EmptySet
  <2> QED BY <2>1, <2>2, <2>3 DEF ClaimedForOneSession, Ids
<1> QED BY <1>1, <1>2, <1>3 DEF ClaimInv

LEMMA ClaimClaim ==
  ASSUME TypeInv, TypeInv', ClaimInv, NEW c \in Calls, Claim(c)
  PROVE  ClaimInv'
<1>1. CallMoves(c)
  BY CallTypes
<1>2. TokensStay /\ tokens' = tokens /\ sessions' = sessions /\ Ids' = Ids
  BY <1>1 DEF CallMoves, TokensStay
<1>3. CASE calls'[c].pc = "refused"
  BY <1>1, <1>2, <1>3, ClaimQuiet DEF CallMoves, Claims
<1>4. CASE calls'[c].pc = "find"
  <2>1. /\ ~tokens[calls[c].token].claimed /\ calls'[c].token = calls[c].token
        /\ MayClaim(calls[c].token)
    BY <1>4, ClaimStep
  <2>2. \A d \in Calls \ {c} : Claims(d)' => Claims(d) /\ calls'[d] = calls[d]
                                              /\ calls[d].token # calls[c].token
    BY <1>1, <2>1 DEF CallMoves, Claims, MayClaim
  <2>3. OneClaimer' /\ NotYetClaimed'
    BY <1>2, <2>1, <2>2 DEF OneClaimer, NotYetClaimed, ClaimInv
  <2>4. ClaimedForOneSession'
    BY <1>2 DEF ClaimInv, ClaimedForOneSession, SessionsOf
  <2> QED BY <2>3, <2>4 DEF ClaimInv
<1> QED BY <1>3, <1>4, ClaimStep

LEMMA ClaimCommit ==
  ASSUME TypeInv, TypeInv', ClaimInv, NEW c \in Calls, CommitClaim(c)
  PROVE  ClaimInv'
<1>00. PICK i \in Ids : i = calls[c].token
  BY CommitStep
<1>0. PICK s : s = [token |-> i, subject |-> calls[c].subject, nth |-> Cardinality(SessionsOf(i)) + 1]
  OBVIOUS
<1>1. /\ calls[c].pc = "commit" /\ Ids' = Ids
      /\ \A j \in Ids : tokens'[j].claimed = (tokens[j].claimed \/ j = i)
      /\ sessions' = sessions \cup {s}
      /\ \A d \in Calls : calls'[d] = IF d = c THEN Idle ELSE calls[d]
  BY <1>00, <1>0, CommitStep
<1>2. Claims(c) /\ ~tokens[i].claimed /\ s.token = i
  BY <1>00, <1>0, <1>1 DEF Claims, ClaimInv, NotYetClaimed
<1>3. \A d \in Calls : Claims(d)' => d # c /\ Claims(d) /\ calls'[d] = calls[d] /\ calls[d].token # i
  BY <1>00, <1>1, <1>2 DEF Claims, Idle, ClaimInv, OneClaimer
<1>4. OneClaimer'
  BY <1>3 DEF OneClaimer, ClaimInv
<1>5. NotYetClaimed'
  <2>1. ASSUME NEW d \in Calls, Claims(d)' PROVE ~tokens'[calls'[d].token].claimed
    <3>1. Claims(d) /\ calls'[d] = calls[d] /\ calls[d].token # i
      BY <1>3, <2>1
    <3>2. calls[d].token \in Ids /\ ~tokens[calls[d].token].claimed
      BY <3>1, LocalsOfCalls DEF Claims, Claiming, Committing, ClaimInv, NotYetClaimed
    <3> QED BY <1>1, <3>1, <3>2
  <2> QED BY <2>1 DEF NotYetClaimed
<1>6. SessionsOf(i) = {}
  <2>1. Cardinality(SessionsOf(i)) = 0
    BY <1>1, <1>2 DEF ClaimInv, ClaimedForOneSession, Ids
  <2>2. SessionsOf(i) \subseteq sessions
    BY DEF SessionsOf
  <2> QED BY <2>1, <2>2, FS_Subset, FS_EmptySet DEF TypeInv, Types
<1>7. ClaimedForOneSession'
  <2>1. SessionsOf(i)' = {s}
    BY <1>1, <1>2, <1>6 DEF SessionsOf
  <2>2. Cardinality({s}) = 1
    BY FS_Singleton
  <2>3. \A j \in Ids \ {i} : SessionsOf(j)' = SessionsOf(j)
    BY <1>1, <1>2 DEF SessionsOf
  <2>4. \A j \in Ids \ {i} : Cardinality(SessionsOf(j)) = IF tokens'[j].claimed THEN 1 ELSE 0
    BY <1>1 DEF ClaimInv, ClaimedForOneSession, Ids
  <2>5. ASSUME NEW j \in Ids
        PROVE  Cardinality(SessionsOf(j)') = IF tokens'[j].claimed THEN 1 ELSE 0
    <3>1. CASE j = i
      BY <1>1, <2>1, <2>2, <3>1
    <3>2. CASE j # i
      BY <2>3, <2>4, <3>2
    <3> QED BY <3>1, <3>2
  <2>6. \A j \in Ids' : Cardinality(SessionsOf(j)') = IF tokens'[j].claimed THEN 1 ELSE 0
    BY <1>1, <2>5
  <2> QED BY <2>6 DEF ClaimedForOneSession, Ids
<1> QED BY <1>4, <1>5, <1>7 DEF ClaimInv

(* A call that moves without claiming, or with its claim *)
LEMMA ClaimKept ==
  ASSUME TypeInv, TypeInv', ClaimInv, NEW c \in Calls, CallMoves(c),
         Claims(c)' => Claims(c) /\ calls'[c].token = calls[c].token
  PROVE  ClaimInv'
<1>1. \A d \in Calls : Claims(d)' => Claims(d) /\ calls'[d].token = calls[d].token
  BY DEF CallMoves, Claims
<1>2. TokensStay /\ tokens' = tokens /\ sessions' = sessions /\ Ids' = Ids
  BY DEF CallMoves, TokensStay
<1> QED BY <1>1, <1>2, ClaimQuiet

LEMMA ClaimsHold == Spec => []ClaimInv
<1>1. Init => ClaimInv
  BY DEF Init, ClaimInv, OneClaimer, NotYetClaimed, ClaimedForOneSession, Claims, Idle
<1>2. TypeInv /\ TypeInv' /\ ClaimInv /\ [Next]_vars => ClaimInv'
  <2> SUFFICES ASSUME TypeInv, TypeInv', ClaimInv, [Next]_vars PROVE ClaimInv'
    OBVIOUS
  <2>1. ASSUME NEW c \in Calls, NEW e \in Emails, Ask(c, e) PROVE ClaimInv'
    <3>1. CallMoves(c) /\ calls'[c] = [pc |-> "count", email |-> e]
      BY <2>1, AskTypes
    <3> QED BY <3>1, ClaimKept DEF Claims
  <2>2. ASSUME NEW c \in Calls, NEW i \in mailed, Click(c, i) PROVE ClaimInv'
    <3>1. CallMoves(c) /\ calls'[c] = [pc |-> "claim", token |-> i, at |-> now]
      BY <2>2, CallTypes, ClickStep, LocalBecomes
    <3> QED BY <3>1, ClaimKept DEF Claims
  <2>3. ASSUME NEW c \in Calls, Count(c) PROVE ClaimInv'
    BY <2>3, CallTypes, CountStep, ClaimKept DEF Claims
  <2>4. ASSUME NEW c \in Calls, Store(c) PROVE ClaimInv'
    <3>1. CallMoves(c) /\ calls'[c] = [pc |-> "issue", email |-> calls[c].email, at |-> now]
      BY <2>4, CallTypes, StoreStep, LocalBecomes
    <3> QED BY <3>1, ClaimKept DEF Claims
  <2>5. ASSUME NEW c \in Calls, Return(c) PROVE ClaimInv'
    <3>1. CallMoves(c) /\ calls'[c] = Idle
      BY <2>5, CallTypes, ReturnStep, LocalBecomes
    <3> QED BY <3>1, ClaimKept DEF Claims, Idle
  <2>6. ASSUME NEW c \in Calls, FindIdentity(c) PROVE ClaimInv'
    BY <2>6, CallTypes, FindStep, ClaimKept DEF Claims
  <2>7. ASSUME NEW c \in Calls, InsertIdentity(c) PROVE ClaimInv'
    BY <2>7, CallTypes, InsertStep, ClaimKept DEF Claims
  <2>8. ASSUME NEW c \in Calls, Issue(c) PROVE ClaimInv'
    <3> DEFINE n == Len(tokens) + 1
    <3>1. /\ Ids' = Ids \cup {n} /\ TokensStay /\ sessions' = sessions
          /\ \A i \in Ids : tokens'[i] = tokens[i]
          /\ tokens'[n] = [email |-> calls[c].email, at |-> calls[c].at, claimed |-> FALSE]
          /\ \A d \in Calls : calls'[d] = IF d = c THEN [pc |-> "mail", token |-> n] ELSE calls[d]
      BY <2>8, IssueStep
    <3>2. ~tokens'[n].claimed /\ \A d \in Calls : Claims(d)' => calls'[d] = calls[d]
      BY <3>1 DEF Claims
    <3> QED BY <3>1, <3>2, ClaimQuiet DEF Claims
  <2>9. ASSUME NEW c \in Calls, Claim(c) \/ CommitClaim(c) PROVE ClaimInv'
    BY <2>9, ClaimClaim, ClaimCommit
  <2>10. CASE Tick \/ Purge \/ (\E e \in Emails : LinkB2C(e) \/ DeleteContact(e))
              \/ (\E c \in Calls : SendMail(c) \/ Lose(c))
    <3>1. TokensStay /\ UNCHANGED <<tokens, Ids, sessions>>
      BY <2>10, OtherSteps
    <3>2. \A d \in Calls : Claims(d)' => calls'[d] = calls[d]
      BY <2>10, OtherSteps DEF Claims, Idle
    <3> QED BY <3>1, <3>2, ClaimQuiet DEF Claims
  <2>11. CASE UNCHANGED vars
    BY <2>11, ClaimQuiet DEF vars, tables, TokensStay, Ids, Claims
  <2> QED BY <2>1, <2>2, <2>3, <2>4, <2>5, <2>6, <2>7, <2>8, <2>9, <2>10, <2>11 DEF Next, Step
<1> QED BY <1>1, <1>2, RateLimit, PTL DEF Spec

(* A link is used up exactly by giving its one session. *)
THEOREM LinksGiveOneSession == Spec => []ClaimedForOneSession
<1>1. ClaimInv => ClaimedForOneSession
  BY DEF ClaimInv
<1> QED BY <1>1, ClaimsHold, PTL

-----------------------------------------------------------------------------
(* What calls are told: links are never fewer for an e-mail and a time, nor
   sessions for a link, nor is the clock turned back.                       *)

LEMMA TruthQuiet ==
  ASSUME TypeInv, TypeInv', CallsAreToldTheTruth, TokensStay, sessions \subseteq sessions',
         now' = now \/ now' = now + 1,
         \A d \in Calls : calls'[d].pc = "refused" => calls[d].pc = "refused" /\ calls'[d] = calls[d]
  PROVE  CallsAreToldTheTruth'
<1> SUFFICES ASSUME NEW x \in Told'
             PROVE  /\ x.code = "rate_limited" =>
                         Cardinality(IssuedIn(x.email, x.at - Window, x.at)') >= Limit
                    /\ x.code = "already_claimed" => SessionsOf(x.token)' # {}
                    /\ x.code = "expired" => tokens'[x.token].at + Ttl <= now'
  BY DEF CallsAreToldTheTruth
<1>1. x \in Told /\ x \in Answer
  BY LocalsOfCalls DEF Told, Refused
<1>2. CASE x.code = "rate_limited"
  <2> DEFINE S == IssuedIn(x.email, x.at - Window, x.at)
  <2>1. Cardinality(S) >= Limit
    BY <1>1, <1>2 DEF CallsAreToldTheTruth
  <2>2. S \subseteq S'
    BY DEF IssuedIn, TokensStay, Ids
  <2>3. IsFiniteSet(S') /\ S \subseteq Ids
    <3>1. S' \subseteq Ids' /\ S \subseteq Ids
      BY DEF IssuedIn, Ids
    <3>2. IsFiniteSet(Ids')
      BY FS_Interval DEF TypeInv, Types, Ids
    <3> QED BY <3>1, <3>2, FS_Subset
  <2>4. Cardinality(S) <= Cardinality(S') /\ Cardinality(S) \in Nat /\ Cardinality(S') \in Nat
    BY <2>2, <2>3, FS_Subset, FS_CardinalityType
  <2> QED BY <1>2, <2>1, <2>4
<1>3. CASE x.code = "already_claimed"
  BY <1>1, <1>3 DEF CallsAreToldTheTruth, SessionsOf
<1>4. CASE x.code = "expired"
  <2>1. x.token \in Ids /\ tokens[x.token].at + Ttl <= now
    BY <1>1, <1>4 DEF Answer, CallsAreToldTheTruth
  <2>2. tokens[x.token].at \in Nat /\ now \in Nat /\ tokens'[x.token].at = tokens[x.token].at
    BY <2>1, TokensAreTyped DEF Token, TokensStay, TypeInv, Types
  <2> QED BY <1>4, <2>1, <2>2
<1>5. x.code \in {"rate_limited", "already_claimed", "expired"}
  BY <1>1 DEF Answer
<1> QED BY <1>2, <1>3, <1>4, <1>5

LEMMA TruthTold ==
  ASSUME TypeInv, TypeInv', CallsAreToldTheTruth, NEW c \in Calls, CallMoves(c), calls'[c].pc = "refused",
         LET x == calls'[c].answer IN
           \/ /\ x.code = "rate_limited"
              /\ Cardinality(IssuedIn(x.email, x.at - Window, x.at)) >= Limit
           \/ x.code = "already_claimed" /\ SessionsOf(x.token) # {}
           \/ x.code = "expired" /\ tokens[x.token].at + Ttl <= now
  PROVE  CallsAreToldTheTruth'
<1>1. Told' \subseteq Told \cup {calls'[c].answer}
  BY DEF Told, CallMoves
<1>2. /\ \A e, s, t : IssuedIn(e, s, t)' = IssuedIn(e, s, t)
      /\ \A i : SessionsOf(i)' = SessionsOf(i)
      /\ now' = now /\ tokens' = tokens
  BY DEF CallMoves, IssuedIn, SessionsOf
<1>3. ASSUME NEW x \in Told'
      PROVE  /\ x.code = "rate_limited" =>
                  Cardinality(IssuedIn(x.email, x.at - Window, x.at)) >= Limit
             /\ x.code = "already_claimed" => SessionsOf(x.token) # {}
             /\ x.code = "expired" => tokens[x.token].at + Ttl <= now
  BY <1>1 DEF CallsAreToldTheTruth
<1> QED BY <1>2, <1>3 DEF CallsAreToldTheTruth

LEMMA TruthCount ==
  ASSUME TypeInv, TypeInv', RateInv, CallsAreToldTheTruth, NEW c \in Calls, Count(c),
         calls'[c].pc = "refused"
  PROVE  CallsAreToldTheTruth'
<1>0. PICK e \in Emails : e = calls[c].email
  BY CountStep DEF Asking
<1>1. CallMoves(c) /\ Recent(e) >= Limit
      /\ calls'[c].answer = [code |-> "rate_limited", email |-> e, at |-> now]
  BY <1>0, CallTypes, CountStep
<1> DEFINE R == {i \in rates : tokens[i].email = e /\ tokens[i].at >= now - Window}
           S == IssuedIn(e, now - Window, now)
<1>2. R \subseteq S
  <2>1. \A i \in rates : i \in Ids /\ tokens[i].at \in Nat /\ tokens[i].at <= now /\ now \in Nat
    BY TokensAreTyped DEF TypeInv, Types, Token, RateInv, InThePast
  <2> QED BY <2>1 DEF IssuedIn, Ids
<1>3. Cardinality(R) <= Cardinality(S) /\ Cardinality(R) \in Nat /\ Cardinality(S) \in Nat
  <2>1. S \subseteq Ids
    BY DEF IssuedIn, Ids
  <2> QED BY <1>2, <2>1, FewerIds
<1>4. Cardinality(S) >= Limit
  BY <1>1, <1>3 DEF Recent
<1> QED BY <1>1, <1>4, TruthTold

LEMMA TruthClaim ==
  ASSUME TypeInv, TypeInv', RateInv, ClaimInv, CallsAreToldTheTruth, NEW c \in Calls, Claim(c),
         calls'[c].pc = "refused"
  PROVE  CallsAreToldTheTruth'
<1>0. PICK i \in Ids : i = calls[c].token
  BY ClaimStep
<1>1. CallMoves(c) /\ calls[c] \in Claiming /\ calls[c].pc = "claim"
  BY CallTypes, ClaimStep
<1>2. CASE Expired(c) /\ calls'[c].answer = [code |-> "expired", token |-> i]
  <2>1. tokens[i].at + Ttl <= calls[c].at /\ calls[c].at <= now
    BY <1>0, <1>1, <1>2 DEF Expired, RateInv, InThePast
  <2>2. tokens[i].at \in Nat /\ calls[c].at \in Nat /\ now \in Nat
    BY <1>1, TokensAreTyped DEF Token, Claiming, TypeInv, Types
  <2> QED BY <1>1, <1>2, <2>1, <2>2, TruthTold
<1>3. CASE tokens[i].claimed /\ calls'[c].answer = [code |-> "already_claimed", token |-> i]
  <2>1. Cardinality(SessionsOf(i)) = 1
    BY <1>3 DEF ClaimInv, ClaimedForOneSession, Ids
  <2>2. SessionsOf(i) # {}
    BY <2>1, FS_EmptySet
  <2> QED BY <1>1, <1>3, <2>2, TruthTold
<1> QED BY <1>0, <1>2, <1>3, ClaimStep

LEMMA TruthMoves ==
  ASSUME TypeInv, TypeInv', CallsAreToldTheTruth, NEW c \in Calls, CallMoves(c), calls'[c].pc # "refused"
  PROVE  CallsAreToldTheTruth'
<1>1. TokensStay /\ sessions \subseteq sessions' /\ now' = now
  BY DEF CallMoves, TokensStay
<1> QED BY <1>1, TruthQuiet DEF CallMoves

(* No answer that turns a person away is wrong at any time. *)
THEOREM ToldTheTruth == Spec => []CallsAreToldTheTruth
<1>1. Init => CallsAreToldTheTruth
  BY DEF Init, CallsAreToldTheTruth, Told, Idle
<1>2. /\ TypeInv /\ TypeInv' /\ RateInv /\ ClaimInv /\ CallsAreToldTheTruth /\ [Next]_vars
      => CallsAreToldTheTruth'
  <2> SUFFICES ASSUME TypeInv, TypeInv', RateInv, ClaimInv, CallsAreToldTheTruth, [Next]_vars
               PROVE  CallsAreToldTheTruth'
    OBVIOUS
  <2>1. ASSUME NEW c \in Calls, NEW e \in Emails, Ask(c, e) PROVE CallsAreToldTheTruth'
    <3>1. CallMoves(c) /\ calls'[c] = [pc |-> "count", email |-> e]
      BY <2>1, AskTypes
    <3> QED BY <3>1, TruthMoves
  <2>2. ASSUME NEW c \in Calls, NEW i \in mailed, Click(c, i) PROVE CallsAreToldTheTruth'
    <3>1. CallMoves(c) /\ calls'[c] = [pc |-> "claim", token |-> i, at |-> now]
      BY <2>2, CallTypes, ClickStep, LocalBecomes
    <3> QED BY <3>1, TruthMoves
  <2>3. ASSUME NEW c \in Calls, Count(c) PROVE CallsAreToldTheTruth'
    BY <2>3, CallTypes, TruthCount, TruthMoves
  <2>4. ASSUME NEW c \in Calls, Store(c) PROVE CallsAreToldTheTruth'
    <3>1. CallMoves(c) /\ calls'[c] = [pc |-> "issue", email |-> calls[c].email, at |-> now]
      BY <2>4, CallTypes, StoreStep, LocalBecomes
    <3> QED BY <3>1, TruthMoves
  <2>5. ASSUME NEW c \in Calls, Return(c) PROVE CallsAreToldTheTruth'
    <3>1. CallMoves(c) /\ calls'[c] = Idle
      BY <2>5, CallTypes, ReturnStep, LocalBecomes
    <3>2. calls'[c].pc # "refused"
      BY <3>1 DEF Idle
    <3> QED BY <3>1, <3>2, TruthMoves
  <2>6. ASSUME NEW c \in Calls, FindIdentity(c) PROVE CallsAreToldTheTruth'
    BY <2>6, CallTypes, FindStep, TruthMoves
  <2>7. ASSUME NEW c \in Calls, InsertIdentity(c) PROVE CallsAreToldTheTruth'
    BY <2>7, CallTypes, InsertStep, TruthMoves
  <2>8. ASSUME NEW c \in Calls, Issue(c) PROVE CallsAreToldTheTruth'
    <3> DEFINE n == Len(tokens) + 1
    <3>1. /\ TokensStay /\ sessions' = sessions /\ now' = now
          /\ \A d \in Calls : calls'[d] = IF d = c THEN [pc |-> "mail", token |-> n] ELSE calls[d]
      BY <2>8, IssueStep
    <3>2. \A d \in Calls : calls'[d].pc = "refused" => calls'[d] = calls[d]
      BY <3>1
    <3> QED BY <3>1, <3>2, TruthQuiet
  <2>9. ASSUME NEW c \in Calls, Claim(c) PROVE CallsAreToldTheTruth'
    BY <2>9, CallTypes, TruthClaim, TruthMoves
  <2>10. ASSUME NEW c \in Calls, CommitClaim(c) PROVE CallsAreToldTheTruth'
    <3>1. /\ TokensStay /\ sessions \subseteq sessions' /\ now' = now
          /\ \A d \in Calls : calls'[d] = IF d = c THEN Idle ELSE calls[d]
      BY <2>10, CommitStep
    <3>2. \A d \in Calls : calls'[d].pc = "refused" => calls'[d] = calls[d]
      BY <3>1 DEF Idle
    <3> QED BY <3>1, <3>2, TruthQuiet
  <2>11. CASE Tick \/ Purge \/ (\E e \in Emails : LinkB2C(e) \/ DeleteContact(e))
              \/ (\E c \in Calls : SendMail(c) \/ Lose(c))
    <3>1. TokensStay /\ sessions \subseteq sessions' /\ (now' = now \/ now' = now + 1)
      BY <2>11, OtherSteps
    <3>2. \A d \in Calls : calls'[d].pc = "refused" => calls'[d] = calls[d]
      BY <2>11, OtherSteps DEF Idle
    <3> QED BY <3>1, <3>2, TruthQuiet
  <2>12. CASE UNCHANGED vars
    BY <2>12, TruthQuiet DEF vars, tables, TokensStay, Ids
  <2> QED BY <2>1, <2>2, <2>3, <2>4, <2>5, <2>6, <2>7, <2>8, <2>9, <2>10, <2>11, <2>12 DEF Next, Step
<1> QED BY <1>1, <1>2, RateLimit, ClaimsHold, PTL DEF Spec

-----------------------------------------------------------------------------
(* Subjects: an e-mail has one magic link identity, or one call that is about
   to commit its first, and whatever signed in under it is known from its
   rows or from its deletions.                                              *)

Known(e) == forgotten \cup MagicSubjects(e)
Inserts(c) == calls[c].pc = "commit" /\ calls[c].inserts
Finds(c) == calls[c].pc = "commit" /\ ~calls[c].inserts

OneIdentity == \A e \in Emails : \A j, k \in MagicSubjects(e) : j = k
OneInserter == \A c, d \in Calls : Inserts(c) /\ Inserts(d) /\ EmailOf(c) = EmailOf(d) => c = d
NoneToInsertTwice == \A c \in Calls : Inserts(c) => MagicSubjects(EmailOf(c)) = {}
FoundAreKnown == \A c \in Calls : Finds(c) => calls[c].subject \in Known(EmailOf(c))
SessionsAreKnown == \A s \in sessions : s.subject \in Known(tokens[s.token].email)

SubjectInv == OneIdentity /\ OneInserter /\ NoneToInsertTwice /\ FoundAreKnown /\ SessionsAreKnown

LEMMA CommitsHaveEmails ==
  ASSUME TypeInv, TokensStay, NEW c \in Calls, calls[c].pc = "commit", calls'[c] = calls[c]
  PROVE  EmailOf(c) \in Emails /\ EmailOf(c)' = EmailOf(c)
<1>1. calls[c].token \in Ids
  BY LocalsOfCalls DEF Committing
<1> QED BY <1>1, TokensAreTyped DEF EmailOf, TokensStay, Token

LEMMA SessionsHaveEmails ==
  ASSUME TypeInv, TokensStay, NEW s \in sessions
  PROVE  tokens[s.token].email \in Emails /\ tokens'[s.token].email = tokens[s.token].email
<1>1. s.token \in Ids
  BY DEF TypeInv, Types, Session
<1> QED BY <1>1, TokensAreTyped DEF TokensStay, Token

LEMMA SubjectQuiet ==
  ASSUME TypeInv, TypeInv', SubjectInv, TokensStay, sessions' = sessions,
         \A e \in Emails : MagicSubjects(e)' \subseteq MagicSubjects(e) /\ Known(e) \subseteq Known(e)',
         \A d \in Calls : calls'[d].pc = "commit" => calls[d].pc = "commit" /\ calls'[d] = calls[d]
  PROVE  SubjectInv'
<1>1. \A d \in Calls :
        /\ Inserts(d)' => Inserts(d) /\ EmailOf(d)' = EmailOf(d) /\ EmailOf(d) \in Emails
        /\ Finds(d)' => /\ Finds(d) /\ EmailOf(d)' = EmailOf(d) /\ EmailOf(d) \in Emails
                        /\ calls'[d] = calls[d]
  BY CommitsHaveEmails DEF Inserts, Finds
<1>2. OneIdentity'
  BY DEF OneIdentity, SubjectInv
<1>3. OneInserter'
  BY <1>1 DEF OneInserter, SubjectInv
<1>4. NoneToInsertTwice'
  <2> SUFFICES ASSUME NEW d \in Calls, Inserts(d)' PROVE (MagicSubjects(EmailOf(d)))' = {}
    BY DEF NoneToInsertTwice
  <2>1. PICK e \in Emails : e = EmailOf(d) /\ EmailOf(d)' = e /\ Inserts(d)
    BY <1>1
  <2>2. MagicSubjects(e)' = {}
    BY <2>1 DEF NoneToInsertTwice, SubjectInv
  <2> QED BY <2>1, <2>2
<1>5. FoundAreKnown'
  <2> SUFFICES ASSUME NEW d \in Calls, Finds(d)' PROVE (calls[d].subject \in Known(EmailOf(d)))'
    BY DEF FoundAreKnown
  <2>1. PICK e \in Emails : e = EmailOf(d) /\ EmailOf(d)' = e /\ Finds(d) /\ calls'[d] = calls[d]
    BY <1>1
  <2>2. calls[d].subject \in Known(e)'
    BY <2>1 DEF FoundAreKnown, SubjectInv
  <2> QED BY <2>1, <2>2
<1>6. SessionsAreKnown'
  <2> SUFFICES ASSUME NEW s \in sessions PROVE s.subject \in Known(tokens[s.token].email)'
    BY DEF SessionsAreKnown
  <2>1. PICK e \in Emails : e = tokens[s.token].email /\ tokens'[s.token].email = e
    BY SessionsHaveEmails
  <2>2. s.subject \in Known(e)'
    BY <2>1 DEF SessionsAreKnown, SubjectInv
  <2> QED BY <2>1, <2>2
<1> QED BY <1>2, <1>3, <1>4, <1>5, <1>6 DEF SubjectInv

(* Steps that leave rows, deletions and sessions alone *)
LEMMA SubjectMoves ==
  ASSUME TypeInv, TypeInv', SubjectInv, NEW c \in Calls, CallMoves(c),
         \/ calls'[c].pc # "commit"
         \/ /\ calls'[c].pc = "commit" /\ EmailOf(c)' = EmailOf(c) /\ EmailOf(c) \in Emails
            /\ Inserts(c)' => MagicSubjects(EmailOf(c)) = {} /\ ~Waits(c)
            /\ Finds(c)' => calls'[c].subject \in MagicSubjects(EmailOf(c))
  PROVE  SubjectInv'
<1>1. /\ TokensStay /\ sessions' = sessions /\ tokens' = tokens
      /\ \A e : MagicSubjects(e)' = MagicSubjects(e) /\ Known(e)' = Known(e)
      /\ \A d \in Calls \ {c} : calls'[d] = calls[d]
  BY DEF CallMoves, TokensStay, MagicSubjects, Known
<1>2. CASE calls'[c].pc # "commit"
  BY <1>1, <1>2, SubjectQuiet
<1>3. CASE calls'[c].pc = "commit"
  <2>1. PICK e \in Emails : EmailOf(c) = e /\ EmailOf(c)' = e
    BY <1>2, <1>3
  <2>2. \A d \in Calls \ {c} : /\ Inserts(d)' = Inserts(d) /\ Finds(d)' = Finds(d)
                               /\ EmailOf(d)' = EmailOf(d)
    BY <1>1 DEF Inserts, Finds, EmailOf
  <2>3. OneIdentity' /\ SessionsAreKnown'
    BY <1>1 DEF OneIdentity, SessionsAreKnown, SubjectInv
  <2>4. OneInserter'
    <3>1. ASSUME NEW d \in Calls \ {c}, Inserts(c)', Inserts(d) PROVE EmailOf(d) # EmailOf(c)
      BY <1>2, <1>3, <3>1 DEF Waits, Inserts
    <3> QED BY <2>1, <2>2, <3>1 DEF OneInserter, SubjectInv
  <2>5. NoneToInsertTwice'
    <3> SUFFICES ASSUME NEW d \in Calls, Inserts(d)' PROVE (MagicSubjects(EmailOf(d)))' = {}
      BY DEF NoneToInsertTwice
    <3>1. CASE d = c
      <4>1. MagicSubjects(e) = {}
        BY <1>2, <1>3, <2>1, <3>1
      <4> QED BY <1>1, <2>1, <3>1, <4>1 DEF MagicSubjects
    <3>2. CASE d # c
      <4>1. MagicSubjects(EmailOf(d)) = {}
        BY <2>2, <3>2 DEF NoneToInsertTwice, SubjectInv
      <4> QED BY <2>2, <3>2, <4>1 DEF MagicSubjects, CallMoves
    <3> QED BY <3>1, <3>2
  <2>6. FoundAreKnown'
    <3> SUFFICES ASSUME NEW d \in Calls, Finds(d)' PROVE (calls[d].subject \in Known(EmailOf(d)))'
      BY DEF FoundAreKnown
    <3>1. CASE d = c
      <4>1. calls'[c].subject \in MagicSubjects(e)
        BY <1>2, <1>3, <2>1, <3>1
      <4> QED BY <1>1, <2>1, <3>1, <4>1 DEF MagicSubjects, Known
    <3>2. CASE d # c
      <4>1. calls[d].subject \in Known(EmailOf(d)) /\ calls'[d] = calls[d]
        BY <1>1, <2>2, <3>2 DEF FoundAreKnown, SubjectInv
      <4> QED BY <2>2, <3>2, <4>1 DEF MagicSubjects, Known, CallMoves
    <3> QED BY <3>1, <3>2
  <2> QED BY <2>3, <2>4, <2>5, <2>6 DEF SubjectInv
<1> QED BY <1>2, <1>3

(* The commit of the row is also that of the session it is for. *)
LEMMA SubjectCommit ==
  ASSUME TypeInv, TypeInv', SubjectInv, NEW c \in Calls, CommitClaim(c)
  PROVE  SubjectInv'
<1>0. PICK i \in Ids : i = calls[c].token
  BY CommitStep
<1>1. PICK e \in Emails, j \in Subject : e = EmailOf(c) /\ j = calls[c].subject
  <2>1. EmailOf(c) \in Emails /\ calls[c].subject \in Subject
    BY <1>0, CommitStep, TokensAreTyped DEF EmailOf, Committing, Token
  <2> QED BY <2>1
<1>2. PICK s : s = [token |-> i, subject |-> j, nth |-> Cardinality(SessionsOf(i)) + 1]
  OBVIOUS
<1>3. /\ calls[c].pc = "commit" /\ calls[c].inserts \in BOOLEAN /\ TokensStay
      /\ sessions' = sessions \cup {s} /\ s.token = i /\ s.subject = j
      /\ \A d \in Calls : calls'[d] = IF d = c THEN Idle ELSE calls[d]
      /\ forgotten' = forgotten
      /\ tokens[i].email = e /\ tokens'[i].email = e
  BY <1>0, <1>1, <1>2, CommitStep DEF Committing, EmailOf, TokensStay
<1>4. identities' = [identities EXCEPT ![e] =
        IF calls[c].inserts THEN @ \cup {[subject |-> j, linkedAt |-> calls[c].at]} ELSE @]
  BY <1>1, CommitStep
<1>5. \A f \in Emails \ {e} : MagicSubjects(f)' = MagicSubjects(f) /\ Known(f)' = Known(f)
  BY <1>3, <1>4 DEF MagicSubjects, Known, TypeInv, Types
<1>6. MagicSubjects(e)' = MagicSubjects(e) \cup (IF calls[c].inserts THEN {j} ELSE {})
  <2>1. CASE calls[c].inserts
    <3>1. PICK z : z = [subject |-> j, linkedAt |-> calls[c].at]
      OBVIOUS
    <3>2. identities'[e] = identities[e] \cup {z} /\ z.subject = j /\ j # B2C
      BY <1>4, <2>1, <3>1 DEF TypeInv, Types, Subject, B2C
    <3>3. MagicSubjects(e)' \subseteq MagicSubjects(e) \cup {j}
      BY <3>2 DEF MagicSubjects
    <3>4. MagicSubjects(e) \subseteq MagicSubjects(e)' /\ j \in MagicSubjects(e)'
      BY <3>2 DEF MagicSubjects
    <3> QED BY <2>1, <3>3, <3>4
  <2>2. CASE ~calls[c].inserts
    BY <1>4, <2>2 DEF MagicSubjects, TypeInv, Types
  <2> QED BY <2>1, <2>2
<1>7. Known(e) \subseteq Known(e)' /\ j \in Known(e)'
  BY <1>1, <1>3, <1>6 DEF Known, SubjectInv, FoundAreKnown, Finds
<1>8. \A d \in Calls :
        /\ Inserts(d)' => Inserts(d) /\ d # c /\ EmailOf(d)' = EmailOf(d) /\ EmailOf(d) \in Emails
        /\ Finds(d)' => /\ Finds(d) /\ EmailOf(d)' = EmailOf(d) /\ EmailOf(d) \in Emails
                        /\ calls'[d] = calls[d]
  BY <1>3, CommitsHaveEmails DEF Inserts, Finds, Idle
<1>9. calls[c].inserts => Inserts(c) /\ MagicSubjects(e) = {}
  BY <1>1, <1>3 DEF Inserts, SubjectInv, NoneToInsertTwice
<1>10. OneIdentity'
  <2>1. ASSUME NEW f \in Emails, NEW k \in MagicSubjects(f)', NEW l \in MagicSubjects(f)'
        PROVE  k = l
    BY <1>5, <1>6, <1>9 DEF OneIdentity, SubjectInv
  <2> QED BY <2>1 DEF OneIdentity
<1>11. OneInserter'
  BY <1>8 DEF OneInserter, SubjectInv
<1>12. NoneToInsertTwice'
  <2> SUFFICES ASSUME NEW d \in Calls, Inserts(d)' PROVE (MagicSubjects(EmailOf(d)))' = {}
    BY DEF NoneToInsertTwice
  <2>1. PICK f \in Emails : f = EmailOf(d) /\ EmailOf(d)' = f /\ Inserts(d) /\ d # c
    BY <1>8
  <2>2. MagicSubjects(f) = {} /\ (f = e => ~calls[c].inserts)
    BY <1>1, <1>9, <2>1 DEF NoneToInsertTwice, OneInserter, SubjectInv
  <2>3. MagicSubjects(f)' = {}
    BY <1>5, <1>6, <2>2
  <2> QED BY <2>1, <2>3
<1>13. FoundAreKnown'
  <2> SUFFICES ASSUME NEW d \in Calls, Finds(d)' PROVE (calls[d].subject \in Known(EmailOf(d)))'
    BY DEF FoundAreKnown
  <2>1. PICK f \in Emails : f = EmailOf(d) /\ EmailOf(d)' = f /\ Finds(d) /\ calls'[d] = calls[d]
    BY <1>8
  <2>2. calls[d].subject \in Known(f)'
    BY <1>5, <1>7, <2>1 DEF FoundAreKnown, SubjectInv
  <2> QED BY <2>1, <2>2
<1>14. SessionsAreKnown'
  <2> SUFFICES ASSUME NEW r \in sessions' PROVE r.subject \in Known(tokens[r.token].email)'
    BY DEF SessionsAreKnown
  <2>1. CASE r = s
    BY <1>3, <1>7, <2>1
  <2>2. CASE r \in sessions
    <3>1. PICK f \in Emails : f = tokens[r.token].email /\ tokens'[r.token].email = f
      BY <1>3, <2>2, SessionsHaveEmails
    <3>2. r.subject \in Known(f)'
      BY <1>5, <1>7, <2>2, <3>1 DEF SessionsAreKnown, SubjectInv
    <3> QED BY <3>1, <3>2
  <2> QED BY <1>3, <2>1, <2>2
<1> QED BY <1>10, <1>11, <1>12, <1>13, <1>14 DEF SubjectInv

(* Staff and reconcile: a deletion forgets what it takes, a link of B2C adds
   no magic link identity.                                                  *)
LEMMA RowsStep ==
  ASSUME TypeInv, NEW e \in Emails, LinkB2C(e) \/ DeleteContact(e)
  PROVE  /\ \A f \in Emails : MagicSubjects(f)' \subseteq MagicSubjects(f) /\ Known(f) \subseteq Known(f)'
         /\ calls' = calls
<1>1. CASE LinkB2C(e)
  <2>1. PICK t \in 0..now :
          identities' = [identities EXCEPT ![e] = @ \cup {[subject |-> B2C, linkedAt |-> t]}]
    BY <1>1 DEF LinkB2C
  <2>2. \A f \in Emails : MagicSubjects(f)' = MagicSubjects(f)
    <3>1. identities'[e] = identities[e] \cup {[subject |-> B2C, linkedAt |-> t]}
          /\ \A f \in Emails \ {e} : identities'[f] = identities[f]
      BY <2>1 DEF TypeInv, Types
    <3> QED BY <3>1 DEF MagicSubjects
  <2> QED BY <1>1, <2>2 DEF LinkB2C, Known
<1>2. CASE DeleteContact(e)
  <2>1. PICK rest \in {{}, {x \in identities[e] : x.subject = B2C}} :
          identities' = [identities EXCEPT ![e] = rest]
    BY <1>2 DEF DeleteContact
  <2>2. identities'[e] = rest /\ \A f \in Emails \ {e} : identities'[f] = identities[f]
    BY <2>1 DEF TypeInv, Types
  <2>3. forgotten' = forgotten \cup ({x.subject : x \in identities[e]} \ {B2C}) /\ calls' = calls
    BY <1>2 DEF DeleteContact
  <2>4. MagicSubjects(e)' = {} /\ MagicSubjects(e) \subseteq forgotten'
    BY <2>2, <2>3 DEF MagicSubjects
  <2>5. \A f \in Emails \ {e} : MagicSubjects(f)' = MagicSubjects(f)
    BY <2>2 DEF MagicSubjects
  <2> QED BY <2>3, <2>4, <2>5 DEF Known
<1> QED BY <1>1, <1>2

LEMMA SubjectsHold == Spec => []SubjectInv
<1>1. Init => SubjectInv
  BY DEF Init, SubjectInv, OneIdentity, OneInserter, NoneToInsertTwice, FoundAreKnown,
         SessionsAreKnown, MagicSubjects, Inserts, Finds, Idle
<1>2. TypeInv /\ TypeInv' /\ SubjectInv /\ [Next]_vars => SubjectInv'
  <2> SUFFICES ASSUME TypeInv, TypeInv', SubjectInv, [Next]_vars PROVE SubjectInv'
    OBVIOUS
  <2>1. ASSUME NEW c \in Calls, NEW e \in Emails, Ask(c, e) PROVE SubjectInv'
    <3>1. CallMoves(c) /\ calls'[c] = [pc |-> "count", email |-> e]
      BY <2>1, AskTypes
    <3> QED BY <3>1, SubjectMoves
  <2>2. ASSUME NEW c \in Calls, NEW i \in mailed, Click(c, i) PROVE SubjectInv'
    <3>1. CallMoves(c) /\ calls'[c] = [pc |-> "claim", token |-> i, at |-> now]
      BY <2>2, CallTypes, ClickStep, LocalBecomes
    <3> QED BY <3>1, SubjectMoves
  <2>3. ASSUME NEW c \in Calls, Count(c) PROVE SubjectInv'
    BY <2>3, CallTypes, CountStep, SubjectMoves
  <2>4. ASSUME NEW c \in Calls, Store(c) PROVE SubjectInv'
    <3>1. CallMoves(c) /\ calls'[c] = [pc |-> "issue", email |-> calls[c].email, at |-> now]
      BY <2>4, CallTypes, StoreStep, LocalBecomes
    <3> QED BY <3>1, SubjectMoves
  <2>5. ASSUME NEW c \in Calls, Return(c) PROVE SubjectInv'
    <3>1. CallMoves(c) /\ calls'[c] = Idle
      BY <2>5, CallTypes, ReturnStep, LocalBecomes
    <3>2. calls'[c].pc # "commit"
      BY <3>1 DEF Idle
    <3> QED BY <3>1, <3>2, SubjectMoves
  <2>6. ASSUME NEW c \in Calls, Claim(c) PROVE SubjectInv'
    BY <2>6, CallTypes, ClaimStep, SubjectMoves
  <2>7. ASSUME NEW c \in Calls, FindIdentity(c) \/ InsertIdentity(c) PROVE SubjectInv'
    <3>1. CallMoves(c) /\ calls[c].token \in Ids
      BY <2>7, CallTypes, FindStep, InsertStep DEF Claiming
    <3>2. EmailOf(c) \in Emails
      BY <3>1, TokensAreTyped DEF EmailOf, Token
    <3>3. CASE calls'[c].pc # "commit"
      BY <3>1, <3>3, SubjectMoves
    <3>4. CASE calls'[c].pc = "commit"
      <4>1. calls'[c].token = calls[c].token
        BY <2>7, <3>4, FindStep, InsertStep
      <4>2. EmailOf(c)' = EmailOf(c)
        BY <3>1, <4>1 DEF EmailOf, CallMoves
      <4>3. /\ Inserts(c)' => MagicSubjects(EmailOf(c)) = {} /\ ~Waits(c)
            /\ Finds(c)' => calls'[c].subject \in MagicSubjects(EmailOf(c))
        BY <2>7, <3>4, FindStep, InsertStep DEF Inserts, Finds
      <4> QED BY <3>1, <3>2, <3>4, <4>2, <4>3, SubjectMoves
    <3> QED BY <3>3, <3>4
  <2>8. ASSUME NEW c \in Calls, Issue(c) PROVE SubjectInv'
    <3> DEFINE n == Len(tokens) + 1
    <3>1. /\ TokensStay /\ sessions' = sessions /\ identities' = identities /\ forgotten' = forgotten
          /\ \A d \in Calls : calls'[d] = IF d = c THEN [pc |-> "mail", token |-> n] ELSE calls[d]
      BY <2>8, IssueStep
    <3>2. \A d \in Calls : calls'[d].pc = "commit" => calls'[d] = calls[d]
      BY <3>1
    <3>3. \A e \in Emails : MagicSubjects(e)' = MagicSubjects(e) /\ Known(e)' = Known(e)
      BY <3>1 DEF MagicSubjects, Known
    <3> QED BY <3>1, <3>2, <3>3, SubjectQuiet
  <2>9. ASSUME NEW c \in Calls, CommitClaim(c) PROVE SubjectInv'
    BY <2>9, SubjectCommit
  <2>10. ASSUME NEW e \in Emails, LinkB2C(e) \/ DeleteContact(e) PROVE SubjectInv'
    BY <2>10, RowsStep, OtherSteps, SubjectQuiet
  <2>11. CASE Tick \/ Purge \/ (\E c \in Calls : SendMail(c) \/ Lose(c))
    <3>1. TokensStay /\ sessions' = sessions
      BY <2>11, OtherSteps
    <3>2. \A d \in Calls : calls'[d].pc = "commit" => calls'[d] = calls[d]
      BY <2>11, OtherSteps DEF Idle
    <3>3. \A e \in Emails : MagicSubjects(e)' = MagicSubjects(e) /\ Known(e)' = Known(e)
      BY <2>11 DEF MagicSubjects, Known, Tick, Purge, SendMail, Lose, tables
    <3> QED BY <3>1, <3>2, <3>3, SubjectQuiet
  <2>12. CASE UNCHANGED vars
    <3>1. \A e \in Emails : MagicSubjects(e)' = MagicSubjects(e) /\ Known(e)' = Known(e)
      BY <2>12 DEF MagicSubjects, Known, vars, tables
    <3> QED BY <2>12, <3>1, SubjectQuiet DEF vars, tables, TokensStay, Ids
  <2> QED BY <2>1, <2>2, <2>3, <2>4, <2>5, <2>6, <2>7, <2>8, <2>9, <2>10, <2>11, <2>12 DEF Next, Step
<1> QED BY <1>1, <1>2, RateLimit, PTL DEF Spec

(* One person stays one subject, whatever links are claimed at once and
   whatever staff and reconcile do meanwhile, but for deletions.          *)
THEOREM OneSubject == Spec => []OneSubjectPerEmail
<1>1. TypeInv /\ SubjectInv => OneSubjectPerEmail
  <2> SUFFICES ASSUME TypeInv, SubjectInv, NEW s1 \in sessions, NEW s2 \in sessions,
                      tokens[s1.token].email = tokens[s2.token].email,
                      s1.subject # s2.subject
               PROVE  {s1.subject, s2.subject} \cap forgotten # {}
    BY DEF OneSubjectPerEmail
  <2>1. PICK e \in Emails : e = tokens[s1.token].email /\ e = tokens[s2.token].email
    <3>1. s1.token \in Ids
      BY DEF TypeInv, Types, Session
    <3> QED BY <3>1, TokensAreTyped DEF Token
  <2>2. s1.subject \in Known(e) /\ s2.subject \in Known(e)
    BY <2>1 DEF SubjectInv, SessionsAreKnown
  <2> QED BY <2>2 DEF Known, SubjectInv, OneIdentity
<1> QED BY <1>1, SubjectsHold, RateLimit, PTL
=============================================================================
