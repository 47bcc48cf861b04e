------------------------ MODULE MatchDecision_proofs ------------------------
(***************************************************************************)
(* Theorems about MatchDecision, for every number of requests, contacts,   *)
(* interests and orgs, and every set of endpoints in use.                  *)
(***************************************************************************)
EXTENDS MatchDecision, SequenceTheorems, TLAPS

-----------------------------------------------------------------------------
(* Type correctness *)

(* The two halves of TypeOK: the database, and the locals of the requests. *)
RowsOK ==
  /\ status \in [Contacts -> ContactStatus]
  /\ version \in [Contacts -> Nat \ {0}]
  /\ audit \in [Contacts -> Seq(AuditRow)]
  /\ interests \subseteq Interests
  /\ matches \in Seq(Match)
  /\ attempts \subseteq Attempt
  /\ total \in [Orgs -> Nat] /\ committed \in [Orgs -> Nat] /\ active \in [Orgs -> BOOLEAN]

Snapshot == [status : ContactStatus, version : Nat]
Locals == [todo : SUBSET Interests, passing : SUBSET (Interests \X Orgs),
           inserts : Seq(Match), attempts : SUBSET Attempt]

LocalsOK ==
  /\ pc \in [Workers -> PC]
  /\ req \in [Workers -> Request \cup {NoRequest}]
  /\ seenMatch \in [Workers -> Queue \cup {"none"}]
  /\ seen \in [Workers -> Snapshot]
  /\ target \in [Workers -> [org : Orgs \cup {NoOrg}, override : BOOLEAN]]
  /\ run \in [Workers -> Locals]

(* What is known of a request from where it stands: the strengthening that
   makes TypeOK inductive.                                                  *)
Deciding == {"match_read", "contact_read", "chosen"}
DecideRequest == [op : Decisions, match : Nat, actor : Actors]
TransitionRequest == [op : {"transition"}, contact : Contacts, kind : Kinds,
                      to : AdopterState \cup FacilitatorState, actor : Actors]

RequestOK(w) ==
  /\ pc[w] \in Deciding => /\ req[w] \in DecideRequest /\ req[w].match \in 1..Len(matches)
                           /\ seenMatch[w] \in Queue
  /\ pc[w] = "chosen" => target[w].org \in Orgs
  /\ pc[w] = "transition" => /\ req[w] \in TransitionRequest
                             /\ req[w].to \in StateOf(req[w].kind)
  /\ pc[w] \in {"run", "loaded"} => req[w] \in [op : {"run"}, contact : Contacts]
  /\ pc[w] = "deactivate" => req[w] \in [op : {"deactivate"}, org : Orgs]
  /\ pc[w] = "intake" => req[w] \in [op : {"intake"}, contact : Contacts]

TypeInv == RowsOK /\ LocalsOK /\ \A w \in Workers : RequestOK(w)

LEMMA TypeInvImpliesTypeOK == TypeInv => TypeOK
BY DEF TypeInv, RowsOK, LocalsOK, Snapshot, Locals, TypeOK

(* The kinds of request Request is made of. *)
LEMMA RequestKinds ==
  /\ DecideRequest \subseteq Request /\ TransitionRequest \subseteq Request
  /\ [op : {"run"}, contact : Contacts] \subseteq Request
  /\ [op : {"deactivate"}, org : Orgs] \subseteq Request
  /\ [op : {"intake"}, contact : Contacts] \subseteq Request
BY DEF DecideRequest, TransitionRequest, Request

LEMMA ActorRole == \A roles : PickActorRole(roles) \in AnyRole
BY DEF PickActorRole, AnyRole

(* A request that ends leaves well-formed locals. *)
LEMMA FinishType ==
  ASSUME TypeInv, NEW w \in Workers, Finish(w), Len(matches') >= Len(matches), Len(matches') \in Nat
  PROVE  LocalsOK' /\ \A v \in Workers : RequestOK(v)'
<1>1. NoContact \in Snapshot
  BY DEF NoContact, Snapshot, ContactStatus
<1>2. NoRun \in Locals
  BY EmptySeq DEF NoRun, Locals
<1>3. NoTarget \in [org : Orgs \cup {NoOrg}, override : BOOLEAN]
  BY DEF NoTarget
<1>4. LocalsOK'
  BY <1>1, <1>2, <1>3 DEF TypeInv, LocalsOK, Finish, PC
<1>5. ASSUME NEW v \in Workers PROVE RequestOK(v)'
  <2>1. CASE v = w
    BY <2>1 DEF RequestOK, Finish, Deciding, TypeInv, LocalsOK
  <2>2. CASE v # w
    <3>1. /\ pc'[v] = pc[v] /\ req'[v] = req[v] /\ seenMatch'[v] = seenMatch[v]
          /\ target'[v] = target[v]
      BY <2>2 DEF Finish, TypeInv, LocalsOK
    <3>2. Len(matches) \in Nat
      BY LenProperties DEF TypeInv, RowsOK
    <3>3. RequestOK(v)
      BY DEF TypeInv
    <3> QED BY <3>1, <3>2, <3>3 DEF RequestOK, DecideRequest
  <2> QED BY <2>1, <2>2
<1> QED BY <1>4, <1>5

(* The state machine keeps the contact row and its audit trail well formed. *)
LEMMA TransitionType ==
  ASSUME TypeInv, NEW w \in Workers, NEW c \in Contacts, NEW kind \in Kinds,
         NEW to \in StateOf(kind), NEW role \in AnyRole, Transition(w, c, kind, to, role)
  PROVE  /\ status' \in [Contacts -> ContactStatus]
         /\ version' \in [Contacts -> Nat \ {0}]
         /\ audit' \in [Contacts -> Seq(AuditRow)]
<1> DEFINE from == seen[w].status[kind]
           row == [kind |-> kind, from |-> FromState(from), to |-> to, role |-> role]
<1>1. seen[w] \in Snapshot /\ status[c] \in ContactStatus /\ version[c] \in Nat \ {0}
  BY DEF TypeInv, LocalsOK, RowsOK
<1>2. [status[c] EXCEPT ![kind] = to] \in ContactStatus
  BY <1>1 DEF ContactStatus, Kinds, StateOf
<1>3. status' \in [Contacts -> ContactStatus]
  BY <1>2 DEF Transition, TypeInv, RowsOK
<1>4. version' \in [Contacts -> Nat \ {0}]
  BY <1>1 DEF Transition, TypeInv, RowsOK, Snapshot
<1>5. FromState(from) \in AdopterState \cup FacilitatorState
  BY <1>1 DEF Snapshot, ContactStatus, Kinds, FromState, AdopterState
<1>6. row \in AuditRow
  BY <1>5 DEF AuditRow, StateOf
<1>7. Append(audit[c], row) \in Seq(AuditRow)
  BY <1>6, AppendProperties DEF TypeInv, RowsOK
<1>8. audit' = [audit EXCEPT ![c] = Append(audit[c], row)]
  BY DEF Transition
<1>9. audit' \in [Contacts -> Seq(AuditRow)]
  BY <1>7, <1>8 DEF TypeInv, RowsOK
<1> QED BY <1>3, <1>4, <1>9

(* A step that only changes the locals of request w: the others are as well
   formed as they were.                                                     *)
LEMMA OtherRequests ==
  ASSUME TypeInv, NEW w \in Workers, UNCHANGED dbVars,
         \A v \in Workers \ {w} : /\ pc'[v] = pc[v] /\ req'[v] = req[v]
                                  /\ seenMatch'[v] = seenMatch[v] /\ target'[v] = target[v],
         RequestOK(w)', LocalsOK'
  PROVE  TypeInv'
<1>1. RowsOK'
  BY DEF TypeInv, RowsOK, dbVars
<1>2. ASSUME NEW v \in Workers \ {w} PROVE RequestOK(v)'
  BY DEF TypeInv, RequestOK, dbVars
<1> QED BY <1>1, <1>2 DEF TypeInv

(* A step that ends request w with well-formed rows. *)
LEMMA Finished ==
  ASSUME TypeInv, NEW w \in Workers, Finish(w), RowsOK', Len(matches') >= Len(matches)
  PROVE  TypeInv'
<1>1. Len(matches') \in Nat
  BY LenProperties DEF RowsOK
<1> QED BY <1>1, FinishType DEF TypeInv

(* The match a decision is about. *)
LEMMA DecidedMatch ==
  ASSUME TypeInv, NEW w \in Workers, pc[w] \in Deciding
  PROVE  /\ req[w].match \in 1..Len(matches) /\ req[w].match \in MatchIds
         /\ matches[req[w].match] \in Match
         /\ req[w].actor \in Actors
         /\ ContactOf[matches[req[w].match].interest] \in Contacts
         /\ seenMatch[w] \in Queue
<1>1. RequestOK(w) /\ matches \in Seq(Match)
  BY DEF TypeInv, RowsOK
<1>2. matches[req[w].match] \in Match
  BY <1>1, ElementOfSeq DEF RequestOK
<1>3. ContactOf[matches[req[w].match].interest] \in Contacts
  BY <1>2, ConstantsAssumption DEF Match
<1>4. DOMAIN matches = 1..Len(matches)
  BY <1>1, LenProperties
<1> QED BY <1>1, <1>2, <1>3, <1>4 DEF RequestOK, DecideRequest, MatchIds

(* The row a decision stamps, and the table it goes back to. *)
LEMMA StampType ==
  ASSUME TypeInv, NEW w \in Workers, pc[w] \in Deciding, NEW new \in MatchStatus
  PROVE  /\ Stamped(w, new) \in Match
         /\ Stamped(w, new).interest = matches[req[w].match].interest
         /\ [matches EXCEPT ![req[w].match] = Stamped(w, new)] \in Seq(Match)
         /\ Len([matches EXCEPT ![req[w].match] = Stamped(w, new)]) = Len(matches)
<1>1. Stamped(w, new) \in Match
  BY DecidedMatch DEF Stamped, Match
<1>2. Stamped(w, new).interest = matches[req[w].match].interest
  BY DecidedMatch DEF Stamped, Match
<1> QED BY <1>1, <1>2, DecidedMatch, ExceptSeq DEF TypeInv, RowsOK

(* Slots are taken and released within the naturals. *)
LEMMA LedgerType ==
  ASSUME NEW f \in [Orgs -> Nat], NEW o \in Orgs
  PROVE  Taken(f, o) \in [Orgs -> Nat] /\ Released(f, o) \in [Orgs -> Nat]
BY DEF Taken, Released

-----------------------------------------------------------------------------
LEMMA ReadMatchType ==
  ASSUME TypeInv, NEW w \in Workers, ReadMatch(w) PROVE TypeInv'
<1>1. PICK m \in MatchIds, verb \in Decisions, a \in Actors :
        /\ matches[m].status \in Queue
        /\ Begin(w, [op |-> verb, match |-> m, actor |-> a], "match_read")
        /\ seenMatch' = [seenMatch EXCEPT ![w] = matches[m].status]
        /\ UNCHANGED <<dbVars, seen, target, run>>
  BY DEF ReadMatch
<1> DEFINE r == [op |-> verb, match |-> m, actor |-> a]
<1>2. m \in 1..Len(matches) /\ m \in Nat
  BY LenProperties DEF MatchIds, TypeInv, RowsOK
<1>3. r \in DecideRequest /\ r \in Request
  BY <1>2, RequestKinds DEF DecideRequest
<1>4. LocalsOK'
  BY <1>1, <1>3 DEF Begin, TypeInv, LocalsOK, PC
<1>5. RequestOK(w)'
  BY <1>1, <1>2, <1>3 DEF Begin, TypeInv, LocalsOK, RequestOK, Deciding, dbVars
<1> QED BY <1>1, <1>4, <1>5, OtherRequests DEF Begin, TypeInv, LocalsOK

LEMMA ReadContactType ==
  ASSUME TypeInv, NEW w \in Workers, ReadContact(w) PROVE TypeInv'
<1> DEFINE c == ContactOf[matches[req[w].match].interest]
<1>1. pc[w] \in Deciding
  BY DEF ReadContact, Deciding
<1>2. ContactRow(c) \in Snapshot
  BY <1>1, DecidedMatch DEF ContactRow, Snapshot, TypeInv, RowsOK
<1>3. LocalsOK'
  BY <1>2 DEF ReadContact, TypeInv, LocalsOK, PC
<1>4. RequestOK(w)'
  BY <1>1 DEF ReadContact, TypeInv, LocalsOK, RequestOK, Deciding, dbVars
<1> QED BY <1>3, <1>4, OtherRequests DEF ReadContact, TypeInv, LocalsOK

LEMMA CommitAcceptType ==
  ASSUME TypeInv, NEW w \in Workers, CommitAccept(w) PROVE TypeInv'
<1> DEFINE m == req[w].match
           c == ContactOf[matches[m].interest]
           toActive == seen[w].status.adopter = "matched"
           to == IF toActive THEN "active" ELSE "matched"
           new == IF toActive THEN "active" ELSE "accepted"
           role == PickActorRole(RolesOf[req[w].actor])
<1>1. pc[w] \in Deciding
  BY DEF CommitAccept, Deciding
<1>2. Transition(w, c, "adopter", to, role) /\ Stamp(w, new)
  BY DEF CommitAccept
<1>3. to \in StateOf("adopter") /\ new \in MatchStatus /\ "adopter" \in Kinds
  BY DEF StateOf, AdopterState, MatchStatus, Kinds
<1>4. /\ status' \in [Contacts -> ContactStatus]
      /\ version' \in [Contacts -> Nat \ {0}]
      /\ audit' \in [Contacts -> Seq(AuditRow)]
  BY <1>1, <1>2, <1>3, DecidedMatch, ActorRole, TransitionType
<1>5. matches' = [matches EXCEPT ![m] = Stamped(w, new)]
  BY <1>2 DEF Stamp
<1>6. matches' \in Seq(Match) /\ Len(matches') = Len(matches) /\ Len(matches) \in Nat
  BY <1>1, <1>3, <1>5, StampType, LenProperties DEF TypeInv, RowsOK
<1>7. committed' \in [Orgs -> Nat]
  <2>1. matches[m].org \in Orgs
    BY <1>1, DecidedMatch DEF Match
  <2> QED BY <2>1, LedgerType DEF CommitAccept, TypeInv, RowsOK
<1>8. RowsOK'
  BY <1>4, <1>6, <1>7 DEF CommitAccept, TypeInv, RowsOK
<1> QED BY <1>6, <1>8, Finished DEF CommitAccept

LEMMA CommitSendBackType ==
  ASSUME TypeInv, NEW w \in Workers, CommitSendBack(w) PROVE TypeInv'
<1> DEFINE m == req[w].match
           c == ContactOf[matches[m].interest]
           role == PickActorRole(RolesOf[req[w].actor])
<1>1. pc[w] \in Deciding
  BY DEF CommitSendBack, Deciding
<1>2. Transition(w, c, "adopter", "sent_back", role) /\ Stamp(w, "sent_back")
  BY DEF CommitSendBack
<1>3. "sent_back" \in StateOf("adopter") /\ "sent_back" \in MatchStatus /\ "adopter" \in Kinds
  BY DEF StateOf, AdopterState, MatchStatus, Kinds
<1>4. /\ status' \in [Contacts -> ContactStatus]
      /\ version' \in [Contacts -> Nat \ {0}]
      /\ audit' \in [Contacts -> Seq(AuditRow)]
  BY <1>1, <1>2, <1>3, DecidedMatch, ActorRole, TransitionType
<1>5. matches' = [matches EXCEPT ![m] = Stamped(w, "sent_back")]
  BY <1>2 DEF Stamp
<1>6. matches' \in Seq(Match) /\ Len(matches') = Len(matches) /\ Len(matches) \in Nat
  BY <1>1, <1>3, <1>5, StampType, LenProperties DEF TypeInv, RowsOK
<1>7. committed' \in [Orgs -> Nat]
  <2>1. matches[m].org \in Orgs
    BY <1>1, DecidedMatch DEF Match
  <2> QED BY <2>1, LedgerType DEF CommitSendBack, TypeInv, RowsOK
<1>8. RowsOK'
  BY <1>4, <1>6, <1>7 DEF CommitSendBack, TypeInv, RowsOK
<1> QED BY <1>6, <1>8, Finished DEF CommitSendBack

LEMMA ChooseTargetType ==
  ASSUME TypeInv, NEW w \in Workers, ChooseTarget(w) PROVE TypeInv'
<1>1. PICK o \in Orgs, override \in BOOLEAN :
        target' = [target EXCEPT ![w] = [org |-> o, override |-> override]]
  BY DEF ChooseTarget
<1>2. LocalsOK'
  BY <1>1 DEF ChooseTarget, TypeInv, LocalsOK, PC
<1>3. RequestOK(w)'
  BY <1>1 DEF ChooseTarget, TypeInv, LocalsOK, RequestOK, Deciding, dbVars
<1> QED BY <1>1, <1>2, <1>3, OtherRequests DEF ChooseTarget, TypeInv, LocalsOK

LEMMA CommitRouteType ==
  ASSUME TypeInv, NEW w \in Workers, CommitRoute(w) PROVE TypeInv'
<1> DEFINE m == req[w].match
           old == matches[m]
           new == [interest |-> old.interest, org |-> target[w].org, status |-> "recommended",
                   override |-> target[w].override, by |-> NoActor]
           stamped == [matches EXCEPT ![m] = Stamped(w, "declined")]
           moves == seenMatch[w] \in Reserved
           freed == IF moves /\ ~old.override THEN Released(committed, old.org) ELSE committed
<1>1. pc[w] \in Deciding /\ pc[w] = "chosen"
  BY DEF CommitRoute, Deciding
<1>2. target[w].org \in Orgs /\ target[w].override \in BOOLEAN
  BY <1>1 DEF TypeInv, RequestOK, LocalsOK
<1>3. old \in Match
  BY <1>1, DecidedMatch
<1>4. new \in Match
  BY <1>2, <1>3 DEF Match, MatchStatus
<1>5. stamped \in Seq(Match) /\ Len(stamped) = Len(matches) /\ Len(matches) \in Nat
  BY <1>1, StampType, LenProperties DEF MatchStatus, TypeInv, RowsOK
<1>6. matches' = Append(stamped, new)
  BY DEF CommitRoute
<1>7. matches' \in Seq(Match) /\ Len(matches') = Len(matches) + 1
  BY <1>4, <1>5, <1>6, AppendProperties
<1>8. freed \in [Orgs -> Nat]
  BY <1>3, LedgerType DEF Match, TypeInv, RowsOK
<1>9. committed' \in [Orgs -> Nat]
  <2>1. committed' = freed \/ committed' = Taken(freed, target[w].org)
    BY DEF CommitRoute
  <2> QED BY <1>2, <1>8, <2>1, LedgerType
<1>10. RowsOK'
  BY <1>7, <1>9 DEF CommitRoute, contactVars, TypeInv, RowsOK
<1> QED BY <1>5, <1>7, <1>10, Finished DEF CommitRoute

LEMMA WorkflowType ==
  ASSUME TypeInv, NEW w \in Workers, Workflow(w) PROVE TypeInv'
<1>1. CASE ReadForTransition(w)
  <2>1. PICK c \in Contacts, kind \in Kinds, a \in Actors : \E to \in Targets[kind] :
          /\ Begin(w, [op |-> "transition", contact |-> c, kind |-> kind, to |-> to, actor |-> a],
                   "transition")
          /\ seen' = [seen EXCEPT ![w] = ContactRow(c)]
          /\ UNCHANGED <<dbVars, seenMatch, target, run>>
    BY <1>1 DEF ReadForTransition
  <2>2. PICK to \in Targets[kind] :
          Begin(w, [op |-> "transition", contact |-> c, kind |-> kind, to |-> to, actor |-> a],
                "transition")
    BY <2>1
  <2> DEFINE r == [op |-> "transition", contact |-> c, kind |-> kind, to |-> to, actor |-> a]
  <2>3. to \in StateOf(kind)
    BY ConstantsAssumption
  <2>4. r \in TransitionRequest /\ r \in Request
    BY <2>3, RequestKinds DEF TransitionRequest, StateOf
  <2>5. ContactRow(c) \in Snapshot
    BY DEF ContactRow, Snapshot, TypeInv, RowsOK
  <2>6. LocalsOK'
    BY <2>1, <2>2, <2>4, <2>5 DEF Begin, TypeInv, LocalsOK, PC
  <2>7. RequestOK(w)'
    BY <2>1, <2>2, <2>3, <2>4 DEF Begin, TypeInv, LocalsOK, RequestOK, Deciding
  <2> QED BY <2>1, <2>2, <2>6, <2>7, OtherRequests DEF Begin, TypeInv, LocalsOK
<1>2. CASE CommitTransition(w)
  <2>1. req[w] \in TransitionRequest /\ req[w].to \in StateOf(req[w].kind)
    BY <1>2 DEF CommitTransition, TypeInv, RequestOK
  <2>2. /\ status' \in [Contacts -> ContactStatus]
        /\ version' \in [Contacts -> Nat \ {0}]
        /\ audit' \in [Contacts -> Seq(AuditRow)]
    BY <1>2, <2>1, ActorRole, TransitionType DEF CommitTransition, TransitionRequest
  <2>3. RowsOK'
    BY <1>2, <2>2 DEF CommitTransition, orgVars, TypeInv, RowsOK
  <2>4. Len(matches') = Len(matches) /\ Len(matches) \in Nat
    BY <1>2, LenProperties DEF CommitTransition, TypeInv, RowsOK
  <2> QED BY <1>2, <2>3, <2>4, Finished DEF CommitTransition
<1> QED BY <1>1, <1>2 DEF Workflow

LEMMA RunMatchType ==
  ASSUME TypeInv, NEW w \in Workers, RunMatch(w) PROVE TypeInv'
<1>1. CASE StartRun(w)
  <2>1. PICK c \in Contacts :
          /\ Begin(w, [op |-> "run", contact |-> c], "run")
          /\ UNCHANGED <<dbVars, seenMatch, seen, target, run>>
    BY <1>1 DEF StartRun
  <2>2. [op |-> "run", contact |-> c] \in Request
    BY RequestKinds
  <2>3. LocalsOK'
    BY <2>1, <2>2 DEF Begin, TypeInv, LocalsOK, PC
  <2>4. RequestOK(w)'
    BY <2>1 DEF Begin, TypeInv, LocalsOK, RequestOK, Deciding
  <2> QED BY <2>1, <2>3, <2>4, OtherRequests DEF Begin, TypeInv, LocalsOK
<1>2. CASE LoadCandidates(w)
  <2> DEFINE c == req[w].contact
             passing == {p \in (InterestsOf(c) \ NoFpg) \X Orgs : Passes(c, p[1], p[2])}
  <2>1. InterestsOf(c) \subseteq Interests /\ passing \subseteq Interests \X Orgs
    BY DEF InterestsOf, TypeInv, RowsOK
  <2>2. run[w] \in Locals /\ run' = [run EXCEPT ![w] = [@ EXCEPT !.todo = InterestsOf(c),
                                                                 !.passing = passing]]
    BY <1>2 DEF LoadCandidates, TypeInv, LocalsOK
  <2> HIDE DEF passing
  <2>3. run' \in [Workers -> Locals]
    BY <2>1, <2>2 DEF TypeInv, LocalsOK, Locals
  <2>4. LocalsOK'
    BY <1>2, <2>3 DEF LoadCandidates, TypeInv, LocalsOK, PC
  <2>5. RequestOK(w)'
    BY <1>2 DEF LoadCandidates, TypeInv, LocalsOK, RequestOK, Deciding
  <2> QED BY <1>2, <2>4, <2>5, OtherRequests DEF LoadCandidates, TypeInv, LocalsOK
<1>3. ASSUME NEW i \in Interests, ProcessInterest(w, i) PROVE TypeInv'
  <2>1. run[w] \in Locals
    BY DEF TypeInv, LocalsOK
  <2>2. PICK promoted \in SUBSET Orgs : \E new \in RunMatches(i, promoted) :
          run' = [run EXCEPT ![w] = Processed(@, i, promoted, new)]
    BY <1>3 DEF ProcessInterest, kSubset
  <2>3. PICK new \in RunMatches(i, promoted) :
          run' = [run EXCEPT ![w] = Processed(@, i, promoted, new)]
    BY <2>2
  <2>4. new \in Match
    <3>1. CASE promoted = {}
      <4>1. TriageOrg \in Orgs
        BY ConstantsAssumption
      <4>2. new = [interest |-> i, org |-> TriageOrg, status |-> "triage", override |-> FALSE,
                   by |-> NoActor]
        BY <2>3, <3>1 DEF RunMatches
      <4> QED BY <4>1, <4>2 DEF Match, MatchStatus
    <3>2. CASE promoted # {}
      BY <2>3, <3>2 DEF RunMatches, Match, MatchStatus
    <3> QED BY <3>1, <3>2
  <2>a. Append(run[w].inserts, new) \in Seq(Match) /\ {i} \X promoted \in SUBSET Attempt
    BY <2>1, <2>4, AppendProperties DEF Locals, Attempt
  <2>b. Processed(run[w], i, promoted, new) \in Locals
    BY <2>1, <2>a DEF Processed, Locals
  <2>5. run' \in [Workers -> Locals]
    BY <2>3, <2>b DEF TypeInv, LocalsOK
  <2>6. LocalsOK'
    BY <1>3, <2>5 DEF ProcessInterest, TypeInv, LocalsOK
  <2>7. RequestOK(w)'
    BY <1>3 DEF ProcessInterest, TypeInv, RequestOK, dbVars
  <2> QED BY <1>3, <2>6, <2>7, OtherRequests DEF ProcessInterest
<1>4. CASE CommitRun(w)
  <2>1. run[w] \in Locals
    BY DEF TypeInv, LocalsOK
  <2>2. /\ matches' \in Seq(Match) /\ Len(matches) \in Nat
        /\ Len(matches') = Len(matches) + Len(run[w].inserts) /\ Len(run[w].inserts) \in Nat
    BY <1>4, <2>1, ConcatProperties, LenProperties DEF CommitRun, Locals, TypeInv, RowsOK
  <2>3. RowsOK'
    BY <1>4, <2>1, <2>2 DEF CommitRun, Locals, contactVars, orgVars, TypeInv, RowsOK
  <2> QED BY <1>4, <2>2, <2>3, Finished DEF CommitRun
<1> QED BY <1>1, <1>2, <1>3, <1>4 DEF RunMatch

LEMMA DeactivateType ==
  ASSUME TypeInv, NEW w \in Workers, Deactivate(w) PROVE TypeInv'
<1>1. CASE ReadForDeactivate(w)
  <2>1. PICK o \in Orgs : /\ Begin(w, [op |-> "deactivate", org |-> o], "deactivate")
                          /\ UNCHANGED <<dbVars, seenMatch, seen, target, run>>
    BY <1>1 DEF ReadForDeactivate
  <2>2. [op |-> "deactivate", org |-> o] \in Request
    BY RequestKinds
  <2>3. LocalsOK'
    BY <2>1, <2>2 DEF Begin, TypeInv, LocalsOK, PC
  <2>4. RequestOK(w)'
    BY <2>1 DEF Begin, TypeInv, LocalsOK, RequestOK, Deciding
  <2> QED BY <2>1, <2>3, <2>4, OtherRequests DEF Begin, TypeInv, LocalsOK
<1>2. CASE CommitDeactivate(w)
  <2>1. RowsOK'
    BY <1>2 DEF CommitDeactivate, contactVars, TypeInv, RowsOK
  <2>2. Len(matches') = Len(matches) /\ Len(matches) \in Nat
    BY <1>2, LenProperties DEF CommitDeactivate, TypeInv, RowsOK
  <2> QED BY <1>2, <2>1, <2>2, Finished DEF CommitDeactivate
<1> QED BY <1>1, <1>2 DEF Deactivate

LEMMA IntakeType ==
  ASSUME TypeInv, NEW w \in Workers, Intake(w) PROVE TypeInv'
<1>1. CASE ReadForIntake(w)
  <2>1. PICK c \in Contacts : /\ Begin(w, [op |-> "intake", contact |-> c], "intake")
                              /\ seen' = [seen EXCEPT ![w] = ContactRow(c)]
                              /\ UNCHANGED <<dbVars, seenMatch, target, run>>
    BY <1>1 DEF ReadForIntake
  <2>2. [op |-> "intake", contact |-> c] \in Request
    BY RequestKinds
  <2>3. ContactRow(c) \in Snapshot
    BY DEF ContactRow, Snapshot, TypeInv, RowsOK
  <2>4. LocalsOK'
    BY <2>1, <2>2, <2>3 DEF Begin, TypeInv, LocalsOK, PC
  <2>5. RequestOK(w)'
    BY <2>1 DEF Begin, TypeInv, LocalsOK, RequestOK, Deciding
  <2> QED BY <2>1, <2>4, <2>5, OtherRequests DEF Begin, TypeInv, LocalsOK
<1>2. CASE CommitIntakeNoFpg(w)
  <2> DEFINE c == req[w].contact
  <2>1. c \in Contacts
    BY <1>2 DEF CommitIntakeNoFpg, TypeInv, RequestOK
  <2>2. status' \in [Contacts -> ContactStatus]
    BY <1>2, <2>1 DEF CommitIntakeNoFpg, TypeInv, RowsOK, ContactStatus, AdopterState
  <2>3. interests' \subseteq Interests
    BY <1>2, ConstantsAssumption DEF CommitIntakeNoFpg, TypeInv, RowsOK
  <2>4. RowsOK'
    BY <1>2, <2>2, <2>3 DEF CommitIntakeNoFpg, orgVars, TypeInv, RowsOK
  <2>5. Len(matches') = Len(matches) /\ Len(matches) \in Nat
    BY <1>2, LenProperties DEF CommitIntakeNoFpg, TypeInv, RowsOK
  <2> QED BY <1>2, <2>4, <2>5, Finished DEF CommitIntakeNoFpg
<1>3. CASE CommitIntakeFpg(w)
  <2>1. interests' \subseteq Interests
    BY <1>3 DEF CommitIntakeFpg, TypeInv, RowsOK
  <2>2. RowsOK'
    BY <1>3, <2>1 DEF CommitIntakeFpg, contactVars, orgVars, TypeInv, RowsOK
  <2>3. Len(matches') = Len(matches) /\ Len(matches) \in Nat
    BY <1>3, LenProperties DEF CommitIntakeFpg, TypeInv, RowsOK
  <2> QED BY <1>3, <2>2, <2>3, Finished DEF CommitIntakeFpg
<1> QED BY <1>1, <1>2, <1>3 DEF Intake

(* Requests whose effect is one statement, and steps that change nothing. *)
LEMMA OtherType ==
  ASSUME TypeInv,
         \/ \E o \in Orgs : PatchCapacity(o) \/ Activate(o)
         \/ \E w \in Workers : Fail(w)
         \/ UNCHANGED vars
  PROVE  TypeInv'
<1>1. ASSUME NEW o \in Orgs, PatchCapacity(o) PROVE TypeInv'
  BY <1>1, ConstantsAssumption
  DEF PatchCapacity, contactVars, localVars, TypeInv, RowsOK, LocalsOK, RequestOK
<1>2. ASSUME NEW o \in Orgs, Activate(o) PROVE TypeInv'
  BY <1>2 DEF Activate, contactVars, localVars, TypeInv, RowsOK, LocalsOK, RequestOK
<1>3. ASSUME NEW w \in Workers, Fail(w) PROVE TypeInv'
  <2>1. RowsOK' /\ Len(matches') = Len(matches) /\ Len(matches) \in Nat
    BY <1>3, LenProperties DEF Fail, dbVars, TypeInv, RowsOK
  <2> QED BY <1>3, <2>1, Finished DEF Fail
<1>4. CASE UNCHANGED vars
  BY <1>4 DEF vars, dbVars, localVars, TypeInv, RowsOK, LocalsOK, RequestOK
<1> QED BY <1>1, <1>2, <1>3, <1>4

LEMMA InitType == Init => TypeInv
<1> SUFFICES ASSUME Init PROVE TypeInv
  OBVIOUS
<1>1. NoContact \in Snapshot
  BY DEF NoContact, Snapshot, ContactStatus
<1>2. NoRun \in Locals /\ <<>> \in Seq(Match) /\ <<>> \in Seq(AuditRow)
  BY EmptySeq DEF NoRun, Locals
<1>a. status \in [Contacts -> ContactStatus]
  BY ConstantsAssumption DEF Init
<1>b. total \in [Orgs -> Nat] /\ interests \subseteq Interests
  BY ConstantsAssumption DEF Init
<1>3. RowsOK
  BY <1>2, <1>a, <1>b DEF Init, RowsOK
<1>4. LocalsOK
  BY <1>1, <1>2 DEF Init, LocalsOK, PC, NoTarget
<1>5. \A w \in Workers : RequestOK(w)
  BY DEF Init, RequestOK, Deciding
<1> QED BY <1>3, <1>4, <1>5 DEF TypeInv

LEMMA NextType == TypeInv /\ [Next]_vars => TypeInv'
<1> SUFFICES ASSUME TypeInv, [Next]_vars PROVE TypeInv'
  OBVIOUS
<1>1. ASSUME NEW w \in Workers, Decide(w) PROVE TypeInv'
  BY <1>1, ReadMatchType, ReadContactType, CommitAcceptType, CommitSendBackType,
     ChooseTargetType, CommitRouteType DEF Decide
<1>2. ASSUME NEW w \in Workers, RunMatch(w) \/ Workflow(w) \/ Intake(w) \/ Deactivate(w)
      PROVE TypeInv'
  BY <1>2, RunMatchType, WorkflowType, IntakeType, DeactivateType
<1> QED BY <1>1, <1>2, OtherType DEF Next

(* The database rows and the locals of every request stay of their types, for
   any number of concurrent requests to any of the endpoints.               *)
THEOREM TypeCorrect == Spec => []TypeOK
<1>1. Spec => []TypeInv
  BY InitType, NextType, PTL DEF Spec
<1> QED BY <1>1, TypeInvImpliesTypeOK, PTL

-----------------------------------------------------------------------------
(* Contacts: no lost transition, and the lifecycle *)

(* The contact a request with a snapshot has read. *)
ContactFor(w) ==
  IF pc[w] = "transition" THEN req[w].contact ELSE ContactOf[matches[req[w].match].interest]

(* Some request moves the contact it read along a row of the state machine. *)
TransitionStep ==
  \E w \in Workers, kind \in Kinds, role \in AnyRole : \E to \in StateOf(kind) :
    /\ pc[w] \in {"contact_read", "transition"}
    /\ Transition(w, ContactFor(w), kind, to, role)

LEMMA ContactForType ==
  ASSUME TypeInv, NEW w \in Workers, pc[w] \in Deciding \cup {"transition"}
  PROVE  ContactFor(w) \in Contacts
<1>1. CASE pc[w] = "transition"
  BY <1>1 DEF ContactFor, TypeInv, RequestOK, TransitionRequest
<1>2. CASE pc[w] # "transition"
  BY <1>2, DecidedMatch DEF ContactFor
<1> QED BY <1>1, <1>2

(* A contact row changes only in the state machine, or in the intake form. *)
LEMMA ContactSteps ==
  ASSUME TypeInv, [Next]_vars
  PROVE  \/ TransitionStep
         \/ UNCHANGED contactVars
         \/ \E w \in Workers : CommitIntakeNoFpg(w)
<1>1. ASSUME NEW w \in Workers, CommitAccept(w) PROVE TransitionStep
  <2>1. pc[w] = "contact_read" /\ ContactFor(w) = ContactOf[matches[req[w].match].interest]
    BY <1>1 DEF CommitAccept, ContactFor
  <2>2. \E to \in StateOf("adopter") :
          Transition(w, ContactFor(w), "adopter", to, PickActorRole(RolesOf[req[w].actor]))
    BY <1>1, <2>1 DEF CommitAccept, StateOf, AdopterState
  <2> QED BY <2>1, <2>2, ActorRole DEF TransitionStep, Kinds
<1>2. ASSUME NEW w \in Workers, CommitSendBack(w) PROVE TransitionStep
  <2>1. pc[w] = "contact_read" /\ ContactFor(w) = ContactOf[matches[req[w].match].interest]
    BY <1>2 DEF CommitSendBack, ContactFor
  <2>2. \E to \in StateOf("adopter") :
          Transition(w, ContactFor(w), "adopter", to, PickActorRole(RolesOf[req[w].actor]))
    BY <1>2, <2>1 DEF CommitSendBack, StateOf, AdopterState
  <2> QED BY <2>1, <2>2, ActorRole DEF TransitionStep, Kinds
<1>3. ASSUME NEW w \in Workers, CommitTransition(w) PROVE TransitionStep
  <2>1. pc[w] = "transition" /\ ContactFor(w) = req[w].contact
    BY <1>3 DEF CommitTransition, ContactFor
  <2>2. req[w].kind \in Kinds /\ req[w].to \in StateOf(req[w].kind)
    BY <2>1 DEF TypeInv, RequestOK, TransitionRequest
  <2> QED BY <1>3, <2>1, <2>2, ActorRole DEF CommitTransition, TransitionStep
<1>4. ASSUME NEW w \in Workers, Decide(w) PROVE TransitionStep \/ UNCHANGED contactVars
  BY <1>1, <1>2, <1>4 DEF Decide, ReadMatch, ReadContact, ChooseTarget, CommitRoute,
     dbVars, contactVars
<1>5. ASSUME NEW w \in Workers, RunMatch(w) \/ Deactivate(w) \/ Fail(w)
      PROVE UNCHANGED contactVars
  BY <1>5 DEF RunMatch, StartRun, LoadCandidates, ProcessInterest, CommitRun, Deactivate,
     ReadForDeactivate, CommitDeactivate, Fail, dbVars, contactVars
<1>6. ASSUME NEW w \in Workers, Workflow(w) PROVE TransitionStep \/ UNCHANGED contactVars
  BY <1>3, <1>6 DEF Workflow, ReadForTransition, dbVars, contactVars
<1>7. ASSUME NEW w \in Workers, Intake(w)
      PROVE CommitIntakeNoFpg(w) \/ UNCHANGED contactVars
  BY <1>7 DEF Intake, ReadForIntake, CommitIntakeFpg, dbVars, contactVars
<1>8. ASSUME NEW o \in Orgs, PatchCapacity(o) \/ Activate(o) PROVE UNCHANGED contactVars
  BY <1>8 DEF PatchCapacity, Activate
<1>9. CASE UNCHANGED vars
  BY <1>9 DEF vars, dbVars, contactVars
<1> QED BY <1>4, <1>5, <1>6, <1>7, <1>8, <1>9 DEF Next

LEMMA NextNoLost ==
  ASSUME TypeInv, NoLostTransition, [Next]_vars PROVE NoLostTransition'
<1>1. ASSUME TransitionStep PROVE NoLostTransition'
  <2>1. PICK w \in Workers, kind \in Kinds, role \in AnyRole : \E to \in StateOf(kind) :
          /\ pc[w] \in {"contact_read", "transition"}
          /\ Transition(w, ContactFor(w), kind, to, role)
    BY <1>1 DEF TransitionStep
  <2> DEFINE c == ContactFor(w)
  <2>2. c \in Contacts
    BY <2>1, ContactForType DEF Deciding
  <2>3. PICK row : /\ version[c] = seen[w].version
                   /\ version' = [version EXCEPT ![c] = seen[w].version + 1]
                   /\ audit' = [audit EXCEPT ![c] = Append(audit[c], row)]
                   /\ row \in AuditRow
    <3>1. PICK to \in StateOf(kind) : Transition(w, c, kind, to, role)
      BY <2>1
    <3> DEFINE from == seen[w].status[kind]
               row == [kind |-> kind, from |-> FromState(from), to |-> to, role |-> role]
    <3>2. seen[w].status \in ContactStatus
      BY DEF TypeInv, LocalsOK, Snapshot
    <3>3. row \in AuditRow
      BY <3>2 DEF AuditRow, StateOf, ContactStatus, Kinds, FromState, AdopterState
    <3>4. audit' = [audit EXCEPT ![c] = Append(audit[c], row)]
      BY <3>1 DEF Transition
    <3>5. version[c] = seen[w].version /\ version' = [version EXCEPT ![c] = seen[w].version + 1]
      BY <3>1 DEF Transition
    <3> QED BY <3>3, <3>4, <3>5
  <2>4. Len(audit'[c]) = Len(audit[c]) + 1
    BY <2>2, <2>3, AppendProperties DEF TypeInv, RowsOK
  <2> QED BY <2>2, <2>3, <2>4 DEF NoLostTransition, TypeInv, RowsOK
<1>2. CASE UNCHANGED contactVars
  BY <1>2 DEF NoLostTransition, contactVars
<1>3. CASE \E w \in Workers : CommitIntakeNoFpg(w)
  BY <1>3 DEF NoLostTransition, CommitIntakeNoFpg
<1> QED BY <1>1, <1>2, <1>3, ContactSteps

(* Each version number of a contact was given out by exactly one committed
   transition: two requests that read the same version never both commit.   *)
THEOREM TransitionsAreNotLost == Spec => []NoLostTransition
<1>1. Init => NoLostTransition
  BY EmptySeq DEF Init, NoLostTransition
<1> QED BY <1>1, InitType, NextType, NextNoLost, PTL DEF Spec

-----------------------------------------------------------------------------
(* Orgs: the ledger stays within what the org offers *)

(* A step gives one slot where there is room, frees one or moves one, or it
   leaves the ledger alone; a total changes only to what covers the ledger. *)
LEMMA NextCapacity ==
  ASSUME TypeInv, CapacityWithinBounds, [Next]_vars PROVE CapacityWithinBounds'
<1>1. committed \in [Orgs -> Nat] /\ total \in [Orgs -> Nat]
  BY DEF TypeInv, RowsOK
<1>2. ASSUME NEW f \in [Orgs -> Nat], NEW o \in Orgs, \A p \in Orgs : f[p] <= total[p]
      PROVE  /\ \A p \in Orgs : Released(f, o)[p] <= total[p]
             /\ HasRoom(f, o) => \A p \in Orgs : Taken(f, o)[p] <= total[p]
  BY <1>1, <1>2 DEF Released, Taken, HasRoom
<1>3. ASSUME NEW w \in Workers, CommitAccept(w) PROVE CapacityWithinBounds'
  <2>1. matches[req[w].match].org \in Orgs
    BY <1>3, DecidedMatch DEF CommitAccept, Deciding, Match
  <2> QED BY <1>1, <1>2, <1>3, <2>1 DEF CommitAccept, CapacityWithinBounds
<1>4. ASSUME NEW w \in Workers, CommitSendBack(w) PROVE CapacityWithinBounds'
  <2>1. matches[req[w].match].org \in Orgs
    BY <1>4, DecidedMatch DEF CommitSendBack, Deciding, Match
  <2> QED BY <1>1, <1>2, <1>4, <2>1 DEF CommitSendBack, CapacityWithinBounds
<1>5. ASSUME NEW w \in Workers, CommitRoute(w) PROVE CapacityWithinBounds'
  <2> DEFINE old == matches[req[w].match]
             moves == seenMatch[w] \in Reserved
             freed == IF moves /\ ~old.override THEN Released(committed, old.org) ELSE committed
             new == [interest |-> old.interest, org |-> target[w].org, status |-> "recommended",
                     override |-> target[w].override, by |-> NoActor]
  <2>1. old.org \in Orgs /\ target[w].org \in Orgs
    BY <1>5, DecidedMatch DEF CommitRoute, Deciding, Match, TypeInv, RequestOK
  <2>2. freed \in [Orgs -> Nat] /\ \A p \in Orgs : freed[p] <= total[p]
    BY <1>1, <1>2, <2>1, LedgerType DEF CapacityWithinBounds
  <2>3. total' = total /\ IF moves /\ ~new.override
                          THEN HasRoom(freed, new.org) /\ committed' = Taken(freed, new.org)
                          ELSE committed' = freed
    BY <1>5 DEF CommitRoute
  <2> HIDE DEF freed
  <2> QED BY <1>2, <2>1, <2>2, <2>3 DEF CapacityWithinBounds
<1>6. ASSUME NEW o \in Orgs, PatchCapacity(o) PROVE CapacityWithinBounds'
  BY <1>1, <1>6, ConstantsAssumption DEF PatchCapacity, CapacityWithinBounds
<1>7. ASSUME NEW w \in Workers, Decide(w) PROVE CapacityWithinBounds'
  BY <1>3, <1>4, <1>5, <1>7
  DEF Decide, ReadMatch, ReadContact, ChooseTarget, dbVars, CapacityWithinBounds
<1>8. ASSUME NEW w \in Workers, RunMatch(w) \/ Workflow(w) PROVE CapacityWithinBounds'
  BY <1>8 DEF RunMatch, StartRun, LoadCandidates, ProcessInterest, CommitRun, Workflow,
     ReadForTransition, CommitTransition, dbVars, orgVars, CapacityWithinBounds
<1>9. ASSUME NEW w \in Workers, Intake(w) \/ Deactivate(w) \/ Fail(w) PROVE CapacityWithinBounds'
  BY <1>9 DEF Intake, ReadForIntake, CommitIntakeNoFpg, CommitIntakeFpg, Deactivate,
     ReadForDeactivate, CommitDeactivate, Fail, dbVars, orgVars, CapacityWithinBounds
<1>10. CASE UNCHANGED vars \/ \E o \in Orgs : Activate(o)
  BY <1>10 DEF vars, dbVars, Activate, CapacityWithinBounds
<1> QED BY <1>6, <1>7, <1>8, <1>9, <1>10 DEF Next

(* No org ever has more slots committed than it offers, however accepts,
   releases, moves and edits of the total interleave.                       *)
THEOREM CapacityIsNeverExceeded == Spec => []CapacityWithinBounds
<1>1. Init => CapacityWithinBounds
  <2> SUFFICES ASSUME Init PROVE CapacityWithinBounds
    OBVIOUS
  <2>1. total \in [Orgs -> Nat]
    BY InitType DEF TypeInv, RowsOK
  <2> QED BY <2>1 DEF Init, CapacityWithinBounds
<1> QED BY <1>1, InitType, NextType, NextCapacity, PTL DEF Spec

-----------------------------------------------------------------------------
(* Matches: one open match per interest *)

IsOpen(m) == matches[m].status \in Open

(* What the unique index needs: besides the committed rows, the rows a run has
   inserted and not committed.  No such row's interest has a committed open
   match, is still to be processed by the run, or has another such row.      *)
OpenInv ==
  /\ \A m, n \in 1..Len(matches) :
       IsOpen(m) /\ IsOpen(n) /\ matches[m].interest = matches[n].interest => m = n
  /\ \A w \in Workers : pc[w] # "loaded" => run[w].inserts = <<>>
  /\ \A w \in Workers : \A k \in 1..Len(run[w].inserts) :
       /\ run[w].inserts[k].interest \notin run[w].todo
       /\ \A m \in 1..Len(matches) :
            IsOpen(m) => matches[m].interest # run[w].inserts[k].interest
  /\ \A w, v \in Workers :
       \A k \in 1..Len(run[w].inserts), j \in 1..Len(run[v].inserts) :
         run[w].inserts[k].interest = run[v].inserts[j].interest => w = v /\ k = j

(* The shape of the rows inserted by a run. *)
LEMMA InsertsType ==
  ASSUME TypeInv, NEW w \in Workers
  PROVE  /\ run[w] \in Locals /\ run[w].inserts \in Seq(Match) /\ Len(run[w].inserts) \in Nat
         /\ DOMAIN run[w].inserts = 1..Len(run[w].inserts)
         /\ matches \in Seq(Match) /\ Len(matches) \in Nat /\ MatchIds = 1..Len(matches)
<1>1. run[w] \in Locals /\ matches \in Seq(Match)
  BY DEF TypeInv, LocalsOK, RowsOK
<1>2. run[w].inserts \in Seq(Match)
  BY <1>1 DEF Locals
<1> QED BY <1>1, <1>2, LenProperties DEF MatchIds

(* A step that leaves the matches alone and at most ends a request. *)
LEMMA QuietStep ==
  ASSUME TypeInv, OpenInv, matches' = matches,
         \A v \in Workers : \/ /\ run'[v].inserts = run[v].inserts /\ run'[v].todo = run[v].todo
                               /\ pc[v] = "loaded" => pc'[v] = "loaded"
                            \/ run'[v].inserts = <<>>
  PROVE  OpenInv'
<1>1. \A v \in Workers : Len(run[v].inserts) \in Nat
  BY InsertsType
<1>2. \A v \in Workers : \A k \in 1..Len(run'[v].inserts) :
        /\ k \in 1..Len(run[v].inserts)
        /\ run'[v].inserts = run[v].inserts /\ run'[v].todo = run[v].todo
  BY EmptySeq
<1>3. \A v \in Workers : pc'[v] # "loaded" => run'[v].inserts = <<>>
  BY DEF OpenInv
<1>4. \A i, j \in 1..Len(matches') :
        IsOpen(i)' /\ IsOpen(j)' /\ matches'[i].interest = matches'[j].interest => i = j
  BY DEF OpenInv, IsOpen
<1>5. ASSUME NEW v \in Workers, NEW k \in 1..Len(run'[v].inserts)
      PROVE  /\ run'[v].inserts[k].interest \notin run'[v].todo
             /\ \A j \in 1..Len(matches') :
                  IsOpen(j)' => matches'[j].interest # run'[v].inserts[k].interest
  BY <1>2 DEF OpenInv, IsOpen
<1>6. ASSUME NEW v \in Workers, NEW u \in Workers,
             NEW k \in 1..Len(run'[v].inserts), NEW j \in 1..Len(run'[u].inserts),
             run'[v].inserts[k].interest = run'[u].inserts[j].interest
      PROVE  v = u /\ k = j
  <2>1. /\ k \in 1..Len(run[v].inserts) /\ run'[v].inserts = run[v].inserts
        /\ j \in 1..Len(run[u].inserts) /\ run'[u].inserts = run[u].inserts
    BY <1>2
  <2> QED BY <1>6, <2>1 DEF OpenInv
<1> QED BY <1>3, <1>4, <1>5, <1>6 DEF OpenInv

(* The index let match m take a status: every open match of its interest is m,
   and no run holds an uncommitted one.                                     *)
LEMMA IndexKeepsOpenInv ==
  ASSUME TypeInv, OpenInv, NEW w \in Workers, NEW m \in 1..Len(matches), NEW row \in Match,
         row.interest = matches[m].interest, pc[w] # "loaded",
         row.status \in Open => IndexAccepts(w, row.interest, m),
         matches' = [matches EXCEPT ![m] = row], Finish(w)
  PROVE  OpenInv'
<1>1. /\ Len(matches') = Len(matches) /\ Len(matches) \in Nat
      /\ \A j \in 1..Len(matches) : matches'[j] = IF j = m THEN row ELSE matches[j]
  BY InsertsType, ExceptSeq
<1>2. \A v \in Workers : run'[v] = IF v = w THEN NoRun ELSE run[v]
  BY DEF Finish, TypeInv, LocalsOK
<1>3. \A v \in Workers : pc'[v] = IF v = w THEN "idle" ELSE pc[v]
  BY DEF Finish, TypeInv, LocalsOK
<1>4. ASSUME NEW v \in Workers, NEW k \in 1..Len(run'[v].inserts)
      PROVE  v # w /\ run'[v] = run[v] /\ k \in 1..Len(run[v].inserts)
  BY <1>2, <1>4, EmptySeq DEF NoRun
<1>5. row.status \in Open =>
        /\ \A j \in 1..Len(matches) : IsOpen(j) /\ matches[j].interest = row.interest => j = m
        /\ \A v \in Workers \ {w} : \A k \in 1..Len(run[v].inserts) :
             run[v].inserts[k].interest # row.interest
  BY InsertsType DEF IndexAccepts, OpenOf, Blocked, IsOpen
<1>6. \A i, j \in 1..Len(matches') :
        IsOpen(i)' /\ IsOpen(j)' /\ matches'[i].interest = matches'[j].interest => i = j
  BY <1>1, <1>5 DEF OpenInv, IsOpen
<1>7. \A v \in Workers : \A k \in 1..Len(run'[v].inserts) :
        /\ run'[v].inserts[k].interest \notin run'[v].todo
        /\ \A j \in 1..Len(matches') :
             IsOpen(j)' => matches'[j].interest # run'[v].inserts[k].interest
  BY <1>1, <1>4, <1>5 DEF OpenInv, IsOpen
<1>8. ASSUME NEW v \in Workers, NEW u \in Workers,
             NEW k \in 1..Len(run'[v].inserts), NEW j \in 1..Len(run'[u].inserts),
             run'[v].inserts[k].interest = run'[u].inserts[j].interest
      PROVE  v = u /\ k = j
  <2>1. /\ k \in 1..Len(run[v].inserts) /\ run'[v] = run[v]
        /\ j \in 1..Len(run[u].inserts) /\ run'[u] = run[u]
    BY <1>4
  <2> QED BY <1>8, <2>1 DEF OpenInv
<1>9. \A v \in Workers : pc'[v] # "loaded" => run'[v].inserts = <<>>
  BY <1>2, <1>3 DEF OpenInv, NoRun
<1> QED BY <1>6, <1>7, <1>8, <1>9 DEF OpenInv

LEMMA StampKeepsOpenInv ==
  ASSUME TypeInv, OpenInv, NEW w \in Workers, NEW new \in MatchStatus, pc[w] \in Deciding,
         Stamp(w, new), Finish(w)
  PROVE  OpenInv'
<1>1. pc[w] # "loaded"
  BY DEF Deciding
<1> QED BY <1>1, DecidedMatch, StampType, IndexKeepsOpenInv DEF Stamp

LEMMA RouteKeepsOpenInv ==
  ASSUME TypeInv, OpenInv, NEW w \in Workers, CommitRoute(w)
  PROVE  OpenInv'
<1> DEFINE m == req[w].match
           row == Stamped(w, "declined")
           stamped == [matches EXCEPT ![m] = row]
           new == [interest |-> matches[m].interest, org |-> target[w].org,
                   status |-> "recommended", override |-> target[w].override, by |-> NoActor]
           n == Len(matches)
<1>1. pc[w] \in Deciding /\ pc[w] # "loaded" /\ "declined" \in MatchStatus
  BY DEF CommitRoute, Deciding, MatchStatus
<1>2. m \in 1..n /\ seenMatch[w] # "declined" /\ row \in Match /\ row.interest = matches[m].interest
  BY <1>1, DecidedMatch, StampType DEF Queue
<1>3. row.status \notin Open
  BY <1>1, <1>2, DecidedMatch DEF Stamped, Match, Open, Queue
<1>4. stamped \in Seq(Match) /\ Len(stamped) = n /\ n \in Nat
      /\ \A j \in 1..n : stamped[j] = IF j = m THEN row ELSE matches[j]
  BY <1>2, InsertsType, ExceptSeq
<1>5. matches' = Append(stamped, new) /\ IndexAccepts(w, matches[m].interest, m) /\ Finish(w)
  BY DEF CommitRoute
<1>6. new \in Match
  <2>1. target[w].org \in Orgs /\ target[w].override \in BOOLEAN
    BY DEF CommitRoute, TypeInv, RequestOK, LocalsOK
  <2>2. matches[m] \in Match
    BY <1>1, DecidedMatch
  <2> QED BY <2>1, <2>2 DEF Match, MatchStatus
<1>7. /\ Len(matches') = n + 1
      /\ \A j \in 1..n : matches'[j] = IF j = m THEN row ELSE matches[j]
      /\ matches'[n + 1] = new
  BY <1>4, <1>5, <1>6, AppendProperties
<1>8. /\ \A j \in 1..n : IsOpen(j) /\ matches[j].interest = new.interest => j = m
      /\ \A v \in Workers \ {w} : \A k \in 1..Len(run[v].inserts) :
           run[v].inserts[k].interest # new.interest
  BY <1>5, InsertsType DEF IndexAccepts, OpenOf, Blocked, IsOpen
<1>9. \A v \in Workers : /\ run'[v] = IF v = w THEN NoRun ELSE run[v]
                         /\ pc'[v] = IF v = w THEN "idle" ELSE pc[v]
  BY <1>5 DEF Finish, TypeInv, LocalsOK
<1>10. ASSUME NEW v \in Workers, NEW k \in 1..Len(run'[v].inserts)
       PROVE  v # w /\ run'[v] = run[v] /\ k \in 1..Len(run[v].inserts)
  BY <1>9, <1>10, EmptySeq DEF NoRun
<1> HIDE DEF row, new, stamped
<1>11. \A j \in 1..Len(matches') : IsOpen(j)' =>
         \/ j = n + 1
         \/ j \in 1..n /\ j # m /\ IsOpen(j) /\ matches'[j] = matches[j]
  BY <1>3, <1>4, <1>7 DEF IsOpen
<1>12. \A i, j \in 1..Len(matches') :
         IsOpen(i)' /\ IsOpen(j)' /\ matches'[i].interest = matches'[j].interest => i = j
  BY <1>7, <1>8, <1>11 DEF OpenInv
<1>13. ASSUME NEW v \in Workers, NEW k \in 1..Len(run'[v].inserts)
       PROVE  /\ run'[v].inserts[k].interest \notin run'[v].todo
              /\ \A j \in 1..Len(matches') :
                   IsOpen(j)' => matches'[j].interest # run'[v].inserts[k].interest
  <2>1. v # w /\ k \in 1..Len(run[v].inserts) /\ run'[v] = run[v]
    BY <1>10
  <2>2. ASSUME NEW j \in 1..Len(matches'), IsOpen(j)'
        PROVE  matches'[j].interest # run'[v].inserts[k].interest
    <3>1. CASE j = n + 1
      BY <1>7, <1>8, <2>1, <3>1
    <3>2. CASE j \in 1..n /\ IsOpen(j) /\ matches'[j] = matches[j]
      BY <2>1, <3>2 DEF OpenInv
    <3> QED BY <1>11, <2>2, <3>1, <3>2
  <2> QED BY <2>1, <2>2 DEF OpenInv
<1>14. ASSUME NEW v \in Workers, NEW u \in Workers,
              NEW k \in 1..Len(run'[v].inserts), NEW j \in 1..Len(run'[u].inserts),
              run'[v].inserts[k].interest = run'[u].inserts[j].interest
       PROVE  v = u /\ k = j
  <2>1. /\ k \in 1..Len(run[v].inserts) /\ run'[v] = run[v]
        /\ j \in 1..Len(run[u].inserts) /\ run'[u] = run[u]
    BY <1>10
  <2> QED BY <1>14, <2>1 DEF OpenInv
<1>15. \A v \in Workers : pc'[v] # "loaded" => run'[v].inserts = <<>>
  BY <1>9 DEF OpenInv, NoRun
<1> QED BY <1>12, <1>13, <1>14, <1>15 DEF OpenInv

LEMMA ProcessKeepsOpenInv ==
  ASSUME TypeInv, OpenInv, NEW w \in Workers, NEW i \in Interests, ProcessInterest(w, i)
  PROVE  OpenInv'
<1>1. PICK promoted \in SUBSET Orgs : \E new \in RunMatches(i, promoted) :
        run' = [run EXCEPT ![w] = Processed(@, i, promoted, new)]
  BY DEF ProcessInterest, kSubset
<1>2. PICK new \in RunMatches(i, promoted) :
        run' = [run EXCEPT ![w] = Processed(@, i, promoted, new)]
  BY <1>1
<1>3. new.interest = i
  <2>1. CASE promoted = {}
    BY <1>2, <2>1 DEF RunMatches
  <2>2. CASE promoted # {}
    BY <1>2, <2>2 DEF RunMatches
  <2> QED BY <2>1, <2>2
<1>4. matches' = matches /\ pc' = pc /\ i \in run[w].todo /\ pc[w] = "loaded" /\ ~Blocked(w, i)
  BY DEF ProcessInterest, dbVars
<1>5. /\ run'[w] = Processed(run[w], i, promoted, new)
      /\ \A v \in Workers \ {w} : run'[v] = run[v]
      /\ run[w] \in Locals
  BY <1>2 DEF TypeInv, LocalsOK
<1>6. run'[w].todo = run[w].todo \ {i}
      /\ run'[w].inserts = IF OpenOf(i) = {} THEN Append(run[w].inserts, new) ELSE run[w].inserts
  BY <1>5 DEF Processed, Locals
<1> DEFINE n == Len(run[w].inserts)
<1>7. /\ run[w].inserts \in Seq(Match) /\ n \in Nat
  BY InsertsType
<1>8. \A v \in Workers \ {w} : \A k \in 1..Len(run[v].inserts) : run[v].inserts[k].interest # i
  BY <1>4, InsertsType DEF Blocked
<1>9. \A k \in 1..n : run[w].inserts[k].interest # i
  BY <1>4 DEF OpenInv
<1>10. CASE OpenOf(i) # {}
  <2>1. run'[w].inserts = run[w].inserts
    BY <1>6, <1>10
  <2>2. \A v \in Workers : run'[v].inserts = run[v].inserts /\ run'[v].todo \subseteq run[v].todo
    BY <1>5, <1>6, <2>1
  <2>3. \A m, j \in 1..Len(matches') :
          IsOpen(m)' /\ IsOpen(j)' /\ matches'[m].interest = matches'[j].interest => m = j
    BY <1>4 DEF OpenInv, IsOpen
  <2>4. \A v \in Workers : pc'[v] # "loaded" => run'[v].inserts = <<>>
    BY <1>4, <2>2 DEF OpenInv
  <2>5. ASSUME NEW v \in Workers, NEW k \in 1..Len(run'[v].inserts)
        PROVE  /\ run'[v].inserts[k].interest \notin run'[v].todo
               /\ \A m \in 1..Len(matches') :
                    IsOpen(m)' => matches'[m].interest # run'[v].inserts[k].interest
    BY <1>4, <2>2 DEF OpenInv, IsOpen
  <2>6. ASSUME NEW v \in Workers, NEW u \in Workers,
               NEW k \in 1..Len(run'[v].inserts), NEW j \in 1..Len(run'[u].inserts),
               run'[v].inserts[k].interest = run'[u].inserts[j].interest
        PROVE  v = u /\ k = j
    <3>1. /\ k \in 1..Len(run[v].inserts) /\ run'[v].inserts = run[v].inserts
          /\ j \in 1..Len(run[u].inserts) /\ run'[u].inserts = run[u].inserts
      BY <2>2
    <3> QED BY <2>6, <3>1 DEF OpenInv
  <2> QED BY <2>3, <2>4, <2>5, <2>6 DEF OpenInv
<1>11. CASE OpenOf(i) = {}
  <2>1. \A m \in 1..Len(matches) : IsOpen(m) => matches[m].interest # i
    BY <1>11, InsertsType DEF OpenOf, IsOpen
  <2>2. new \in Match
    <3>1. TriageOrg \in Orgs
      BY ConstantsAssumption
    <3>2. CASE promoted = {}
      <4>1. new = [interest |-> i, org |-> TriageOrg, status |-> "triage",
                   override |-> FALSE, by |-> NoActor]
        BY <1>2, <3>2 DEF RunMatches
      <4> QED BY <3>1, <4>1 DEF Match, MatchStatus
    <3>3. CASE promoted # {}
      <4>1. new \in [interest : {i}, org : promoted, status : {"recommended"},
                     override : {FALSE}, by : {NoActor}]
        BY <1>2, <3>3 DEF RunMatches
      <4> QED BY <4>1 DEF Match, MatchStatus
    <3> QED BY <3>2, <3>3
  <2>3. /\ Len(run'[w].inserts) = n + 1 /\ run'[w].inserts[n + 1] = new
        /\ \A k \in 1..n : run'[w].inserts[k] = run[w].inserts[k]
    BY <1>6, <1>7, <1>11, <2>2, AppendProperties
  <2>4. ASSUME NEW v \in Workers, NEW k \in 1..Len(run'[v].inserts)
        PROVE  \/ v = w /\ k = n + 1 /\ run'[v].inserts[k].interest = i
               \/ /\ k \in 1..Len(run[v].inserts) /\ run'[v].inserts[k] = run[v].inserts[k]
                  /\ run[v].inserts[k].interest # i /\ (v = w => k # n + 1)
    <3>1. CASE v = w
      BY <1>3, <1>7, <1>9, <2>3, <3>1, SMTT(20)
    <3>2. CASE v # w
      BY <1>5, <1>8, <3>2
    <3> QED BY <3>1, <3>2
  <2>5. \A m, j \in 1..Len(matches') :
          IsOpen(m)' /\ IsOpen(j)' /\ matches'[m].interest = matches'[j].interest => m = j
    BY <1>4 DEF OpenInv, IsOpen
  <2>6. \A v \in Workers : pc'[v] # "loaded" => run'[v].inserts = <<>>
    BY <1>4, <1>5 DEF OpenInv
  <2>7. ASSUME NEW v \in Workers, NEW k \in 1..Len(run'[v].inserts)
        PROVE  /\ run'[v].inserts[k].interest \notin run'[v].todo
               /\ \A m \in 1..Len(matches') :
                    IsOpen(m)' => matches'[m].interest # run'[v].inserts[k].interest
    <3>1. CASE v = w /\ k = n + 1 /\ run'[v].inserts[k].interest = i
      BY <1>4, <1>6, <2>1, <3>1 DEF IsOpen
    <3>2. CASE k \in 1..Len(run[v].inserts) /\ run'[v].inserts[k] = run[v].inserts[k]
      <4>1. run'[v].todo \subseteq run[v].todo
        BY <1>5, <1>6
      <4> QED BY <1>4, <3>2, <4>1 DEF OpenInv, IsOpen
    <3> QED BY <2>4, <3>1, <3>2
  <2>8. ASSUME NEW v \in Workers, NEW u \in Workers,
               NEW k \in 1..Len(run'[v].inserts), NEW j \in 1..Len(run'[u].inserts),
               run'[v].inserts[k].interest = run'[u].inserts[j].interest
        PROVE  v = u /\ k = j
    <3>1. CASE run'[v].inserts[k].interest = i
      <4>1. v = w /\ k = n + 1
        BY <2>4, <3>1
      <4>2. u = w /\ j = n + 1
        <5>1. run'[u].inserts[j].interest = i
          BY <2>8, <3>1
        <5>2. \/ u = w /\ j = n + 1
              \/ /\ run'[u].inserts[j] = run[u].inserts[j]
                 /\ run[u].inserts[j].interest # i
          BY <2>4
        <5> QED BY <5>1, <5>2
      <4> QED BY <4>1, <4>2
    <3>2. CASE run'[v].inserts[k].interest # i
      <4>1. /\ k \in 1..Len(run[v].inserts) /\ run'[v].inserts[k] = run[v].inserts[k]
            /\ j \in 1..Len(run[u].inserts) /\ run'[u].inserts[j] = run[u].inserts[j]
        BY <2>4, <2>8, <3>2
      <4> QED BY <2>8, <4>1 DEF OpenInv
    <3> QED BY <3>1, <3>2
  <2> QED BY <2>5, <2>6, <2>7, <2>8 DEF OpenInv
<1> QED BY <1>10, <1>11

LEMMA CommitRunKeepsOpenInv ==
  ASSUME TypeInv, OpenInv, NEW w \in Workers, CommitRun(w)
  PROVE  OpenInv'
<1> DEFINE n == Len(matches)
           ins == run[w].inserts
<1>1. matches' = matches \o ins /\ Finish(w)
  BY DEF CommitRun
<1>2. /\ Len(matches') = n + Len(ins) /\ n \in Nat /\ Len(ins) \in Nat
      /\ \A j \in 1..n + Len(ins) : matches'[j] = IF j <= n THEN matches[j] ELSE ins[j - n]
  BY <1>1, InsertsType, ConcatProperties
<1>3. \A v \in Workers : /\ run'[v] = IF v = w THEN NoRun ELSE run[v]
                         /\ pc'[v] = IF v = w THEN "idle" ELSE pc[v]
  BY <1>1 DEF Finish, TypeInv, LocalsOK
<1>4. ASSUME NEW v \in Workers, NEW k \in 1..Len(run'[v].inserts)
      PROVE  v # w /\ run'[v] = run[v] /\ k \in 1..Len(run[v].inserts)
  BY <1>3, <1>4, EmptySeq DEF NoRun
<1>5. ASSUME NEW j \in 1..Len(matches')
      PROVE  \/ j \in 1..n /\ matches'[j] = matches[j]
             \/ j > n /\ j - n \in 1..Len(ins) /\ matches'[j] = ins[j - n]
  BY <1>2
<1>6. ASSUME NEW i \in 1..Len(matches'), NEW j \in 1..Len(matches'),
             IsOpen(i)', IsOpen(j)', matches'[i].interest = matches'[j].interest
      PROVE  i = j
  <2>1. CASE i \in 1..n /\ j \in 1..n /\ matches'[i] = matches[i] /\ matches'[j] = matches[j]
    BY <1>6, <2>1 DEF OpenInv, IsOpen
  <2>2. CASE /\ i > n /\ i - n \in 1..Len(ins) /\ matches'[i] = ins[i - n]
             /\ j > n /\ j - n \in 1..Len(ins) /\ matches'[j] = ins[j - n]
    <3>1. i - n = j - n
      BY <1>6, <2>2 DEF OpenInv
    <3> QED BY <1>2, <3>1
  <2>3. CASE /\ i \in 1..n /\ matches'[i] = matches[i]
             /\ j - n \in 1..Len(ins) /\ matches'[j] = ins[j - n]
    BY <1>6, <2>3, SMTT(20) DEF OpenInv, IsOpen
  <2>4. CASE /\ j \in 1..n /\ matches'[j] = matches[j]
             /\ i - n \in 1..Len(ins) /\ matches'[i] = ins[i - n]
    BY <1>6, <2>4 DEF OpenInv, IsOpen
  <2> QED BY <1>5, <2>1, <2>2, <2>3, <2>4
<1>7. ASSUME NEW v \in Workers, NEW k \in 1..Len(run'[v].inserts)
      PROVE  /\ run'[v].inserts[k].interest \notin run'[v].todo
             /\ \A j \in 1..Len(matches') :
                  IsOpen(j)' => matches'[j].interest # run'[v].inserts[k].interest
  <2>1. v # w /\ run'[v] = run[v] /\ k \in 1..Len(run[v].inserts)
    BY <1>4
  <2>2. ASSUME NEW j \in 1..Len(matches'), IsOpen(j)'
        PROVE  matches'[j].interest # run'[v].inserts[k].interest
    <3>1. CASE j \in 1..n /\ matches'[j] = matches[j]
      BY <2>1, <2>2, <3>1 DEF OpenInv, IsOpen
    <3>2. CASE j - n \in 1..Len(ins) /\ matches'[j] = ins[j - n]
      <4>1. ins[j - n].interest # run[v].inserts[k].interest
        BY <2>1, <3>2 DEF OpenInv
      <4> QED BY <2>1, <3>2, <4>1
    <3> QED BY <1>5, <3>1, <3>2
  <2> QED BY <2>1, <2>2 DEF OpenInv
<1>8. ASSUME NEW v \in Workers, NEW u \in Workers,
             NEW k \in 1..Len(run'[v].inserts), NEW j \in 1..Len(run'[u].inserts),
             run'[v].inserts[k].interest = run'[u].inserts[j].interest
      PROVE  v = u /\ k = j
  <2>1. /\ k \in 1..Len(run[v].inserts) /\ run'[v] = run[v]
        /\ j \in 1..Len(run[u].inserts) /\ run'[u] = run[u]
    BY <1>4
  <2> QED BY <1>8, <2>1 DEF OpenInv
<1>9. \A v \in Workers : pc'[v] # "loaded" => run'[v].inserts = <<>>
  BY <1>3 DEF OpenInv, NoRun
<1> QED BY <1>6, <1>7, <1>8, <1>9 DEF OpenInv

(* The remaining steps leave the matches alone, and a run's rows unless they
   end it.                                                                  *)
LEMMA RestKeepsOpenInv ==
  ASSUME TypeInv, OpenInv,
         \/ \E w \in Workers : \/ ReadMatch(w) \/ ReadContact(w) \/ ChooseTarget(w)
                               \/ Workflow(w) \/ StartRun(w) \/ Intake(w) \/ Deactivate(w)
                               \/ Fail(w)
         \/ \E o \in Orgs : PatchCapacity(o) \/ Activate(o)
         \/ UNCHANGED vars
  PROVE  OpenInv'
<1>1. ASSUME NEW w \in Workers, matches' = matches, Finish(w) PROVE OpenInv'
  <2>1. \A v \in Workers : /\ run'[v] = IF v = w THEN NoRun ELSE run[v]
                           /\ pc'[v] = IF v = w THEN "idle" ELSE pc[v]
    BY <1>1 DEF Finish, TypeInv, LocalsOK
  <2> QED BY <1>1, <2>1, QuietStep DEF NoRun
<1>2. ASSUME matches' = matches, run' = run, \A v \in Workers : pc[v] = "loaded" => pc'[v] = "loaded"
      PROVE  OpenInv'
  BY <1>2, QuietStep
<1>3. ASSUME NEW w \in Workers, ReadMatch(w) \/ ReadContact(w) \/ ChooseTarget(w) PROVE OpenInv'
  BY <1>2, <1>3
  DEF ReadMatch, ReadContact, ChooseTarget, Begin, dbVars, TypeInv, LocalsOK
<1>4. ASSUME NEW w \in Workers, StartRun(w) \/ ReadForTransition(w) \/ ReadForIntake(w)
                                \/ ReadForDeactivate(w)
      PROVE  OpenInv'
  BY <1>2, <1>4 DEF StartRun, ReadForTransition, ReadForIntake, ReadForDeactivate, Begin,
     dbVars, TypeInv, LocalsOK
<1>5. ASSUME NEW w \in Workers, CommitTransition(w) \/ CommitIntakeNoFpg(w) \/ CommitIntakeFpg(w)
                                \/ CommitDeactivate(w) \/ Fail(w)
      PROVE  OpenInv'
  BY <1>1, <1>5 DEF CommitTransition, CommitIntakeNoFpg, CommitIntakeFpg, CommitDeactivate,
     Fail, dbVars
<1>6. CASE \E o \in Orgs : PatchCapacity(o) \/ Activate(o)
  BY <1>2, <1>6 DEF PatchCapacity, Activate, localVars
<1>7. CASE UNCHANGED vars
  BY <1>2, <1>7 DEF vars, dbVars, localVars
<1> QED BY <1>3, <1>4, <1>5, <1>6, <1>7 DEF Workflow, Intake, Deactivate

LEMMA LoadKeepsOpenInv ==
  ASSUME TypeInv, OpenInv, NEW w \in Workers, LoadCandidates(w)
  PROVE  OpenInv'
<1>1. pc[w] = "run" /\ run[w].inserts = <<>> /\ run[w] \in Locals
  BY DEF LoadCandidates, OpenInv, TypeInv, LocalsOK
<1>2. run'[w].inserts = <<>> /\ \A v \in Workers \ {w} : run'[v] = run[v] /\ pc'[v] = pc[v]
  BY <1>1 DEF LoadCandidates, TypeInv, LocalsOK, Locals
<1>3. matches' = matches
  BY DEF LoadCandidates, dbVars
<1> QED BY <1>2, <1>3, QuietStep

LEMMA NextOpen ==
  ASSUME TypeInv, OpenInv, [Next]_vars PROVE OpenInv'
<1>1. ASSUME NEW w \in Workers, CommitAccept(w) PROVE OpenInv'
  <2>1. PICK new \in MatchStatus : Stamp(w, new)
    BY <1>1 DEF CommitAccept, MatchStatus
  <2> QED BY <1>1, <2>1, StampKeepsOpenInv DEF CommitAccept, Deciding
<1>2. ASSUME NEW w \in Workers, CommitSendBack(w) PROVE OpenInv'
  BY <1>2, StampKeepsOpenInv DEF CommitSendBack, Deciding, MatchStatus
<1>3. ASSUME NEW w \in Workers, Decide(w) PROVE OpenInv'
  BY <1>1, <1>2, <1>3, RouteKeepsOpenInv, RestKeepsOpenInv DEF Decide
<1>4. ASSUME NEW w \in Workers, RunMatch(w) PROVE OpenInv'
  BY <1>4, ProcessKeepsOpenInv, CommitRunKeepsOpenInv, LoadKeepsOpenInv, RestKeepsOpenInv
  DEF RunMatch
<1> QED BY <1>3, <1>4, RestKeepsOpenInv DEF Next

LEMMA InitOpen == Init => OpenInv
BY EmptySeq DEF Init, OpenInv, NoRun

(* No interest ever has two open matches, though decisions, re-routings and
   concurrent runs that have inserted but not committed all race for it.    *)
THEOREM MatchesAreExclusive == Spec => []OneOpenMatchPerInterest
<1>1. TypeInv /\ OpenInv => OneOpenMatchPerInterest
  <2> SUFFICES ASSUME TypeInv, OpenInv PROVE OneOpenMatchPerInterest
    OBVIOUS
  <2>1. MatchIds = 1..Len(matches)
    BY LenProperties DEF MatchIds, TypeInv, RowsOK
  <2> QED BY <2>1 DEF OneOpenMatchPerInterest, OpenOf, OpenInv, IsOpen
<1> QED BY <1>1, InitType, NextType, InitOpen, NextOpen, PTL DEF Spec

-----------------------------------------------------------------------------
(* Contacts: the abstract lifecycle is implemented *)

(* A request that has read a contact and not yet written holds a snapshot of
   it: never newer than the row, and equal to it while the version is.  The
   intake form breaks this (it writes a status and no version), so what
   follows assumes that no request is one.                                  *)
Holding == {"contact_read", "chosen", "transition"}

SnapshotOK(w) ==
  pc[w] \in Holding =>
    /\ seen[w].version <= version[ContactFor(w)]
    /\ seen[w].version = version[ContactFor(w)] => seen[w].status = status[ContactFor(w)]

SnapshotInv == \A w \in Workers : SnapshotOK(w) /\ pc[w] # "intake"

(* A match never changes the interest it is for, and never disappears. *)
LEMMA InterestsKept ==
  ASSUME TypeInv, [Next]_vars, NEW m \in 1..Len(matches)
  PROVE  m \in 1..Len(matches') /\ matches'[m].interest = matches[m].interest
<1>1. matches \in Seq(Match) /\ Len(matches) \in Nat
  BY LenProperties DEF TypeInv, RowsOK
<1>2. ASSUME NEW w \in Workers, NEW new \in MatchStatus, pc[w] \in Deciding
      PROVE  /\ [matches EXCEPT ![req[w].match] = Stamped(w, new)] \in Seq(Match)
             /\ Len([matches EXCEPT ![req[w].match] = Stamped(w, new)]) = Len(matches)
             /\ [matches EXCEPT ![req[w].match] = Stamped(w, new)][m].interest = matches[m].interest
  <2>1. /\ req[w].match \in 1..Len(matches) /\ Stamped(w, new) \in Match
        /\ Stamped(w, new).interest = matches[req[w].match].interest
    BY <1>2, DecidedMatch, StampType
  <2> QED BY <1>1, <2>1, ExceptSeq
<1>3. ASSUME NEW w \in Workers, CommitAccept(w) \/ CommitSendBack(w)
      PROVE  m \in 1..Len(matches') /\ matches'[m].interest = matches[m].interest
  <2>1. PICK new \in MatchStatus : Stamp(w, new)
    BY <1>3 DEF CommitAccept, CommitSendBack, MatchStatus
  <2>2. pc[w] \in Deciding
    BY <1>3 DEF CommitAccept, CommitSendBack, Deciding
  <2> QED BY <1>1, <1>2, <2>1, <2>2 DEF Stamp
<1>4. ASSUME NEW w \in Workers, CommitRoute(w)
      PROVE  m \in 1..Len(matches') /\ matches'[m].interest = matches[m].interest
  <2> DEFINE stamped == [matches EXCEPT ![req[w].match] = Stamped(w, "declined")]
  <2>1. pc[w] \in Deciding /\ "declined" \in MatchStatus /\ \E new : matches' = Append(stamped, new)
    BY <1>4 DEF CommitRoute, Deciding, MatchStatus
  <2>2. stamped \in Seq(Match) /\ Len(stamped) = Len(matches)
        /\ stamped[m].interest = matches[m].interest
    BY <1>2, <2>1
  <2>3. target[w].org \in Orgs /\ target[w].override \in BOOLEAN
    BY <1>4 DEF CommitRoute, TypeInv, RequestOK, LocalsOK
  <2> DEFINE new == [interest |-> matches[req[w].match].interest, org |-> target[w].org,
                     status |-> "recommended", override |-> target[w].override, by |-> NoActor]
  <2>4. new \in Match
    <3>1. matches[req[w].match] \in Match
      BY <2>1, DecidedMatch
    <3> QED BY <2>3, <3>1 DEF Match, MatchStatus
  <2>5. matches' = Append(stamped, new)
    BY <1>4 DEF CommitRoute
  <2> HIDE DEF stamped, new
  <2> QED BY <1>1, <2>2, <2>4, <2>5, AppendProperties
<1>5. ASSUME NEW w \in Workers, CommitRun(w)
      PROVE  m \in 1..Len(matches') /\ matches'[m].interest = matches[m].interest
  BY <1>1, <1>5, InsertsType, ConcatProperties DEF CommitRun
<1>6. CASE matches' = matches
  BY <1>6
<1>7. \/ matches' = matches
      \/ \E w \in Workers : \/ CommitAccept(w) \/ CommitSendBack(w) \/ CommitRoute(w)
                            \/ CommitRun(w)
  <2>1. ASSUME NEW w \in Workers, Decide(w) \/ RunMatch(w)
        PROVE  \/ CommitAccept(w) \/ CommitSendBack(w) \/ CommitRoute(w) \/ CommitRun(w)
               \/ matches' = matches
    BY <2>1 DEF Decide, RunMatch, ReadMatch, ReadContact, ChooseTarget, StartRun, LoadCandidates,
                ProcessInterest, dbVars
  <2>2. ASSUME NEW w \in Workers, Workflow(w) \/ Intake(w) PROVE matches' = matches
    BY <2>2 DEF Workflow, Intake, ReadForTransition, CommitTransition, ReadForIntake,
                CommitIntakeNoFpg, CommitIntakeFpg, dbVars
  <2>3. ASSUME NEW w \in Workers, Deactivate(w) \/ Fail(w) PROVE matches' = matches
    BY <2>3 DEF Deactivate, Fail, ReadForDeactivate, CommitDeactivate, dbVars
  <2>4. ASSUME NEW o \in Orgs, PatchCapacity(o) \/ Activate(o) PROVE matches' = matches
    BY <2>4 DEF PatchCapacity, Activate
  <2>5. UNCHANGED vars => matches' = matches
    BY DEF vars, dbVars
  <2> QED BY <2>1, <2>2, <2>3, <2>4, <2>5 DEF Next
<1> QED BY <1>3, <1>4, <1>5, <1>6, <1>7

(* A snapshot held after a step was held before it, for the same contact, or
   has just been read.                                                      *)
LEMMA SnapshotSteps ==
  ASSUME TypeInv, [Next]_vars, NEW v \in Workers, pc'[v] \in Holding
  PROVE  \/ UNCHANGED contactVars /\ seen'[v] = ContactRow(ContactFor(v)')
         \/ pc[v] \in Holding /\ seen'[v] = seen[v] /\ ContactFor(v)' = ContactFor(v)
<1> DEFINE Kept == pc[v] \in Holding /\ seen'[v] = seen[v] /\ ContactFor(v)' = ContactFor(v)
<1>1. ASSUME pc[v] \in Holding, req'[v] = req[v], seen'[v] = seen[v],
             pc'[v] = "transition" <=> pc[v] = "transition"
      PROVE  Kept
  <2>1. CASE pc[v] = "transition"
    BY <1>1, <2>1 DEF ContactFor
  <2>2. CASE pc[v] # "transition"
    <3>1. req[v].match \in 1..Len(matches)
      BY <1>1, <2>2, DecidedMatch DEF Holding, Deciding
    <3>2. matches'[req[v].match].interest = matches[req[v].match].interest
      BY <3>1, InterestsKept
    <3> QED BY <1>1, <2>2, <3>2 DEF ContactFor
  <2> QED BY <2>1, <2>2
<1>2. ASSUME pc'[v] = pc[v], req'[v] = req[v], seen'[v] = seen[v] PROVE Kept
  BY <1>1, <1>2
<1>3. ASSUME NEW w \in Workers, Finish(w) PROVE Kept
  <2>1. v # w
    BY <1>3 DEF Finish, Holding, TypeInv, LocalsOK
  <2> QED BY <1>2, <1>3, <2>1 DEF Finish, TypeInv, LocalsOK
<1>4. ASSUME NEW w \in Workers, NEW to \in PC \ Holding, NEW r,
             Begin(w, r, to), seen' = seen \/ seen' = [seen EXCEPT ![w] = ContactRow(req'[w].contact)]
      PROVE  Kept
  <2>1. v # w
    BY <1>4 DEF Begin, TypeInv, LocalsOK
  <2> QED BY <1>2, <1>4, <2>1 DEF Begin, TypeInv, LocalsOK
<1>5. ASSUME NEW w \in Workers, ReadMatch(w) \/ StartRun(w) \/ ReadForDeactivate(w)
      PROVE  Kept
  <2>1. \E r : \E to \in {"match_read", "run", "deactivate"} : Begin(w, r, to) /\ seen' = seen
    BY <1>5 DEF ReadMatch, StartRun, ReadForDeactivate
  <2> QED BY <1>4, <2>1 DEF PC, Holding
<1>6. ASSUME NEW w \in Workers, ReadForIntake(w) PROVE Kept
  <2>1. v # w
    BY <1>6 DEF ReadForIntake, Begin, TypeInv, LocalsOK, Holding
  <2> QED BY <1>2, <1>6, <2>1 DEF ReadForIntake, Begin, TypeInv, LocalsOK
<1>7. ASSUME NEW w \in Workers, ReadForTransition(w)
      PROVE  Kept \/ (UNCHANGED contactVars /\ seen'[v] = ContactRow(ContactFor(v)'))
  <2>1. CASE v # w
    BY <1>2, <1>7, <2>1 DEF ReadForTransition, Begin, TypeInv, LocalsOK
  <2>2. CASE v = w
    <3>1. PICK c \in Contacts :
            /\ \E kind, to, a :
                 Begin(w, [op |-> "transition", contact |-> c, kind |-> kind, to |-> to,
                           actor |-> a], "transition")
            /\ seen' = [seen EXCEPT ![w] = ContactRow(c)] /\ UNCHANGED dbVars
      BY <1>7 DEF ReadForTransition
    <3>2. pc'[v] = "transition" /\ req'[v].contact = c /\ seen'[v] = ContactRow(c)
      BY <2>2, <3>1 DEF Begin, TypeInv, LocalsOK
    <3>3. ContactRow(ContactFor(v)') = ContactRow(c)
      BY <3>1, <3>2 DEF ContactFor
    <3> QED BY <3>1, <3>2, <3>3 DEF contactVars, dbVars
  <2> QED BY <2>1, <2>2
<1>8. ASSUME NEW w \in Workers, ReadContact(w)
      PROVE  Kept \/ (UNCHANGED contactVars /\ seen'[v] = ContactRow(ContactFor(v)'))
  <2>1. CASE v # w
    BY <1>2, <1>8, <2>1 DEF ReadContact, TypeInv, LocalsOK
  <2>2. CASE v = w
    BY <1>8, <2>2
    DEF ReadContact, TypeInv, LocalsOK, ContactFor, ContactRow, contactVars, dbVars
  <2> QED BY <2>1, <2>2
<1>9. ASSUME NEW w \in Workers, ChooseTarget(w) PROVE Kept
  <2>1. CASE v # w
    BY <1>2, <1>9, <2>1 DEF ChooseTarget, TypeInv, LocalsOK
  <2>2. CASE v = w
    BY <1>1, <1>9, <2>2 DEF ChooseTarget, TypeInv, LocalsOK, Holding
  <2> QED BY <2>1, <2>2
<1>10. ASSUME NEW w \in Workers, LoadCandidates(w) \/ \E i \in Interests : ProcessInterest(w, i)
       PROVE  Kept
  <2>1. CASE v # w
    BY <1>2, <1>10, <2>1 DEF LoadCandidates, ProcessInterest, TypeInv, LocalsOK
  <2>2. CASE v = w
    BY <1>10, <2>2 DEF LoadCandidates, ProcessInterest, TypeInv, LocalsOK, Holding
  <2> QED BY <2>1, <2>2
<1>11. CASE UNCHANGED localVars
  BY <1>2, <1>11 DEF localVars
<1>12. ASSUME NEW w \in Workers, Decide(w) \/ RunMatch(w)
       PROVE  Kept \/ (UNCHANGED contactVars /\ seen'[v] = ContactRow(ContactFor(v)'))
  BY <1>3, <1>5, <1>8, <1>9, <1>10, <1>12
  DEF Decide, RunMatch, CommitAccept, CommitSendBack, CommitRoute, CommitRun
<1>13. ASSUME NEW w \in Workers, Workflow(w) \/ Intake(w) \/ Deactivate(w) \/ Fail(w)
       PROVE  Kept \/ (UNCHANGED contactVars /\ seen'[v] = ContactRow(ContactFor(v)'))
  BY <1>3, <1>5, <1>6, <1>7, <1>13
  DEF Workflow, CommitTransition, Intake, CommitIntakeNoFpg, CommitIntakeFpg, Deactivate,
      CommitDeactivate, Fail
<1>14. UNCHANGED vars \/ (\E o \in Orgs : PatchCapacity(o) \/ Activate(o)) => UNCHANGED localVars
  BY DEF vars, PatchCapacity, Activate
<1> QED BY <1>11, <1>12, <1>13, <1>14 DEF Next

(* The tables of the instance are the tables of the state machine. *)
LEMMA SameTables ==
  /\ Lifecycle!Kinds = Kinds /\ Lifecycle!ContactStatus = ContactStatus
  /\ \A kind : Lifecycle!StateOf(kind) = StateOf(kind)
  /\ \A s : Lifecycle!FromState(s) = FromState(s)
  /\ Lifecycle!Transitions = Transitions
BY DEF Kinds, Null, StateOf, AdopterState, FacilitatorState, AnyRole, ManagerOrAdmin, ManagerTriageAdmin, FacilitatorOrAdmin, Rows, Backwards, AdopterTransitions, FacilitatorTransitions, UniversalTransitions, Transitions, FromState, ContactStatus, Lifecycle!Kinds, Lifecycle!Null, Lifecycle!StateOf, Lifecycle!AdopterState, Lifecycle!FacilitatorState, Lifecycle!AnyRole, Lifecycle!ManagerOrAdmin, Lifecycle!ManagerTriageAdmin, Lifecycle!FacilitatorOrAdmin, Lifecycle!Rows, Lifecycle!Backwards, Lifecycle!AdopterTransitions, Lifecycle!FacilitatorTransitions, Lifecycle!UniversalTransitions, Lifecycle!Transitions, Lifecycle!FromState, Lifecycle!ContactStatus

(* The status of a contact moves along its table: the row looked up for the
   snapshot is the row for the state stored, as the version has not moved.   *)
LEMMA TransitionMoves ==
  ASSUME TypeInv, SnapshotInv, TransitionStep PROVE Lifecycle!Next
<1>1. PICK w \in Workers, kind \in Kinds, role \in AnyRole : \E to \in StateOf(kind) :
        /\ pc[w] \in {"contact_read", "transition"}
        /\ Transition(w, ContactFor(w), kind, to, role)
  BY DEF TransitionStep
<1>2. PICK to \in StateOf(kind) : Transition(w, ContactFor(w), kind, to, role)
  BY <1>1
<1> DEFINE c == ContactFor(w)
<1>3. c \in Contacts
  BY <1>1, ContactForType DEF Deciding
<1>4. seen[w].status = status[c]
  BY <1>1, <1>2 DEF SnapshotInv, SnapshotOK, Holding, Transition
<1>5. status' = [status EXCEPT ![c][kind] = to]
  BY <1>2 DEF Transition
<1>6. \E row \in Transitions[kind] : row.from = FromState(status[c][kind]) /\ row.to = to
  BY <1>2, <1>4 DEF Transition, Permitted
<1>7. \E row \in Lifecycle!Transitions[kind] :
        row.from = Lifecycle!FromState(status[c][kind]) /\ row.to = to
  BY <1>6, SameTables
<1>8. Lifecycle!Move(c, kind, to)
  BY <1>5, <1>7 DEF Lifecycle!Move
<1> QED BY <1>3, <1>8, SameTables DEF Lifecycle!Next

(* What a request holds a snapshot of is a contact. *)
HeldContacts == \A w \in Workers : pc[w] \in Holding => ContactFor(w) \in Contacts

LEMMA HeldContactsType == TypeInv => HeldContacts
BY ContactForType DEF HeldContacts, Holding, Deciding

LEMMA NextSnapshot ==
  ASSUME TypeInv, SnapshotInv, [Next]_vars, "intake" \notin Ops PROVE SnapshotInv'
<1>1. TransitionStep \/ UNCHANGED contactVars
  BY ContactSteps DEF CommitIntakeNoFpg, SnapshotInv
<1>2. ASSUME NEW v \in Workers PROVE pc'[v] # "intake"
  <2>1. ASSUME NEW w \in Workers, Finish(w) PROVE pc'[v] # "intake"
    BY <2>1 DEF Finish, TypeInv, LocalsOK, SnapshotInv
  <2>2. ASSUME NEW w \in Workers, NEW to, to # "intake", pc' = [pc EXCEPT ![w] = to]
        PROVE  pc'[v] # "intake"
    BY <2>2 DEF TypeInv, LocalsOK, SnapshotInv
  <2>3. CASE pc' = pc
    BY <2>3 DEF SnapshotInv
  <2>4. ASSUME NEW w \in Workers, Decide(w) \/ Workflow(w) PROVE pc'[v] # "intake"
    BY <2>1, <2>2, <2>4 DEF Decide, ReadMatch, ReadContact, CommitAccept, CommitSendBack,
       ChooseTarget, CommitRoute, Workflow, ReadForTransition, CommitTransition, Begin
  <2>5. ASSUME NEW w \in Workers, RunMatch(w) \/ Deactivate(w) \/ Fail(w) PROVE pc'[v] # "intake"
    BY <2>1, <2>2, <2>3, <2>5 DEF RunMatch, StartRun, LoadCandidates, ProcessInterest,
       CommitRun, Deactivate, ReadForDeactivate, CommitDeactivate, Fail, Begin
  <2>6. ASSUME NEW w \in Workers, Intake(w) PROVE FALSE
    BY <2>6 DEF Intake, ReadForIntake, CommitIntakeNoFpg, CommitIntakeFpg, Begin, SnapshotInv
  <2>7. CASE UNCHANGED vars \/ \E o \in Orgs : PatchCapacity(o) \/ Activate(o)
    BY <2>3, <2>7 DEF vars, localVars, PatchCapacity, Activate
  <2> QED BY <2>4, <2>5, <2>6, <2>7 DEF Next
<1>3. ASSUME NEW v \in Workers, pc'[v] \in Holding
      PROVE  /\ seen'[v].version <= version'[ContactFor(v)']
             /\ seen'[v].version = version'[ContactFor(v)']
                  => seen'[v].status = status'[ContactFor(v)']
  <2> DEFINE c == ContactFor(v)
  <2>1. ASSUME UNCHANGED contactVars, seen'[v] = ContactRow(ContactFor(v)')
        PROVE  seen'[v].version <= version'[c'] /\ seen'[v].status = status'[c']
    <3>1. c' \in Contacts
      <4>1. TypeInv'
        BY NextType
      <4>2. HeldContacts'
        BY <4>1, HeldContactsType, PTL
      <4> QED BY <1>3, <4>2 DEF HeldContacts
    <3>2. version'[c'] \in Nat /\ status' = status /\ version' = version
      BY <2>1, <3>1 DEF contactVars, TypeInv, RowsOK
    <3> QED BY <2>1, <3>2 DEF ContactRow
  <2>2. ASSUME pc[v] \in Holding, seen'[v] = seen[v], c' = c
        PROVE  /\ seen'[v].version <= version'[c']
               /\ seen'[v].version = version'[c'] => seen'[v].status = status'[c']
    <3>1. c \in Contacts /\ seen[v].version \in Nat
      BY <2>2, ContactForType DEF Holding, Deciding, TypeInv, LocalsOK, Snapshot
    <3>2. /\ seen[v].version <= version[c]
          /\ seen[v].version = version[c] => seen[v].status = status[c]
      BY <2>2 DEF SnapshotInv, SnapshotOK
    <3>3. CASE UNCHANGED contactVars
      BY <2>2, <3>2, <3>3 DEF contactVars
    <3>4. CASE TransitionStep
      <4>1. PICK w \in Workers, kind \in Kinds :
              /\ pc[w] \in {"contact_read", "transition"}
              /\ \E to, role : Transition(w, ContactFor(w), kind, to, role)
        BY <3>4 DEF TransitionStep
      <4>2. ContactFor(w) \in Contacts
        BY <4>1, ContactForType DEF Deciding
      <4>3. /\ version' = [version EXCEPT ![ContactFor(w)] = version[ContactFor(w)] + 1]
            /\ \E to : status' = [status EXCEPT ![ContactFor(w)][kind] = to]
        BY <4>1 DEF Transition
      <4>4. CASE c = ContactFor(w)
        <5>1. version'[c] = version[c] + 1 /\ version[c] \in Nat
          BY <3>1, <4>3, <4>4 DEF TypeInv, RowsOK
        <5> QED BY <2>2, <3>1, <3>2, <5>1
      <4>5. CASE c # ContactFor(w)
        <5>1. version'[c] = version[c] /\ status'[c] = status[c]
          BY <3>1, <4>3, <4>5 DEF TypeInv, RowsOK
        <5> QED BY <2>2, <3>2, <5>1
      <4> QED BY <4>4, <4>5
    <3> QED BY <1>1, <3>3, <3>4
  <2> QED BY <1>3, <2>1, <2>2, SnapshotSteps
<1> QED BY <1>2, <1>3 DEF SnapshotInv, SnapshotOK

(* MatchDecision implements ContactLifecycle when no intake form is submitted
   for a contact already there: every status change, by a decision or by the
   transition endpoint, however stale its reads, is a move along the table.  *)
THEOREM ContactsFollowTheLifecycle ==
  ASSUME "intake" \notin Ops PROVE Spec => FollowsLifecycle
<1>1. Init => SnapshotInv
  BY DEF Init, SnapshotInv, SnapshotOK, Holding
<1>2. Init => Lifecycle!Init
  BY ConstantsAssumption, SameTables DEF Init, Lifecycle!Init
<1>3. TypeInv /\ SnapshotInv /\ [Next]_vars => SnapshotInv'
  BY NextSnapshot
<1>4. TypeInv /\ SnapshotInv /\ [Next]_vars => [Lifecycle!Next]_status
  BY ContactSteps, TransitionMoves DEF CommitIntakeNoFpg, SnapshotInv, contactVars
<1> QED BY <1>1, <1>2, <1>3, <1>4, InitType, NextType, PTL DEF Spec, FollowsLifecycle, Lifecycle!Spec

-----------------------------------------------------------------------------
(* The audit trail *)

(* The rows of l after position k that are of its kind *)
LaterOfKind(l, k) == {j \in DOMAIN l : j > k /\ l[j].kind = l[k].kind}

(* l is a path on each side of a contact whose statuses are s. *)
IsPath(l, s) ==
  \A k \in DOMAIN l :
    IF LaterOfKind(l, k) = {}
    THEN s[l[k].kind] = l[k].to
    ELSE \E j \in LaterOfKind(l, k) : (\A i \in LaterOfKind(l, k) : j <= i) /\ l[j].from = l[k].to

LEMMA PathsOfContacts == AuditIsAPath <=> \A c \in Contacts : IsPath(audit[c], status[c])
BY DEF AuditIsAPath, IsPath, LaterOfKind

(* A path goes on with a row that starts where its side stands. *)
LEMMA PathGrows ==
  ASSUME NEW l \in Seq(AuditRow), NEW s \in ContactStatus, IsPath(l, s), NEW row \in AuditRow,
         NEW s2, row.from = FromState(s[row.kind]),
         \A kind \in Kinds : s2[kind] = IF kind = row.kind THEN row.to ELSE s[kind]
  PROVE  IsPath(Append(l, row), s2)
<1> DEFINE n == Len(l) + 1
           new == Append(l, row)
<1>1. /\ Len(l) \in Nat /\ DOMAIN l = 1..Len(l) /\ DOMAIN new = 1..n
      /\ new[n] = row /\ \A k \in DOMAIN l : new[k] = l[k]
  BY AppendProperties, LenProperties
<1>2. \A k \in DOMAIN l : l[k] \in AuditRow
  BY <1>1, ElementOfSeq
<1>3. row.kind \in Kinds /\ \A k \in DOMAIN l : l[k].kind \in Kinds /\ l[k].to # Null
  BY <1>2 DEF AuditRow, AdopterState, FacilitatorState, Null
<1> HIDE DEF new
<1>4. ASSUME NEW k \in DOMAIN l
      PROVE  LaterOfKind(new, k) = LaterOfKind(l, k) \cup (IF l[k].kind = row.kind THEN {n} ELSE {})
  <2>1. k \in 1..Len(l) /\ n > k /\ n \notin DOMAIN l
    BY <1>1
  <2> QED BY <1>1, <2>1 DEF LaterOfKind
<1>5. LaterOfKind(new, n) = {}
  BY <1>1 DEF LaterOfKind
<1>6. ASSUME NEW k \in DOMAIN new
      PROVE  IF LaterOfKind(new, k) = {}
             THEN s2[new[k].kind] = new[k].to
             ELSE \E j \in LaterOfKind(new, k) :
                    (\A i \in LaterOfKind(new, k) : j <= i) /\ new[j].from = new[k].to
  <2>1. CASE k = n
    BY <1>1, <1>3, <1>5, <2>1
  <2>2. CASE k # n /\ LaterOfKind(l, k) = {}
    <3>1. k \in DOMAIN l /\ s[l[k].kind] = l[k].to /\ new[k] = l[k]
      BY <1>1, <2>2 DEF IsPath
    <3>2. CASE l[k].kind # row.kind
      <4>1. LaterOfKind(new, k) = {}
        BY <1>4, <2>2, <3>1, <3>2
      <4>2. s2[l[k].kind] = l[k].to
        BY <1>3, <3>1, <3>2
      <4> QED BY <3>1, <4>1, <4>2
    <3>3. CASE l[k].kind = row.kind
      <4>1. LaterOfKind(new, k) = {n}
        BY <1>4, <2>2, <3>1, <3>3
      <4>2. row.from = l[k].to
        BY <1>3, <3>1, <3>3 DEF FromState
      <4>3. n <= n
        BY <1>1
      <4> QED BY <1>1, <3>1, <4>1, <4>2, <4>3
    <3> QED BY <3>2, <3>3
  <2>3. CASE k # n /\ LaterOfKind(l, k) # {}
    <3>1. k \in DOMAIN l /\ new[k] = l[k]
      BY <1>1, <2>3
    <3>2. PICK j \in LaterOfKind(l, k) : (\A i \in LaterOfKind(l, k) : j <= i) /\ l[j].from = l[k].to
      BY <2>3, <3>1 DEF IsPath
    <3>3. j \in DOMAIN l /\ new[j] = l[j] /\ j <= n /\ j \in LaterOfKind(new, k)
      <4>1. j \in DOMAIN l
        BY DEF LaterOfKind
      <4> QED BY <1>1, <1>4, <3>1, <4>1
    <3>4. \A i \in LaterOfKind(new, k) : j <= i
      BY <1>4, <3>1, <3>2, <3>3
    <3>5. LaterOfKind(new, k) # {}
      BY <3>3
    <3> QED BY <3>1, <3>2, <3>3, <3>4, <3>5
  <2> QED BY <2>1, <2>2, <2>3
<1>7. IsPath(new, s2)
  BY <1>6 DEF IsPath
<1> QED BY <1>7 DEF new

LEMMA TransitionKeepsPaths ==
  ASSUME TypeInv, SnapshotInv, AuditIsAPath, TransitionStep PROVE AuditIsAPath'
<1>1. PICK w \in Workers, kind \in Kinds, role \in AnyRole : \E to \in StateOf(kind) :
        /\ pc[w] \in {"contact_read", "transition"}
        /\ Transition(w, ContactFor(w), kind, to, role)
  BY DEF TransitionStep
<1>2. PICK to \in StateOf(kind) : Transition(w, ContactFor(w), kind, to, role)
  BY <1>1
<1>3. PICK c : c = ContactFor(w)
  OBVIOUS
<1>4. c \in Contacts
  BY <1>1, <1>3, ContactForType DEF Deciding
<1>5. seen[w].status = status[c] /\ status[c] \in ContactStatus /\ audit[c] \in Seq(AuditRow)
  BY <1>1, <1>2, <1>3, <1>4 DEF SnapshotInv, SnapshotOK, Holding, Transition, TypeInv, RowsOK
<1>6. PICK row : row = [kind |-> kind, from |-> FromState(status[c][kind]), to |-> to, role |-> role]
  OBVIOUS
<1>7. row \in AuditRow /\ row.kind = kind /\ row.to = to /\ row.from = FromState(status[c][row.kind])
  BY <1>5, <1>6 DEF AuditRow, StateOf, ContactStatus, Kinds, FromState, AdopterState
<1>8. status' = [status EXCEPT ![c][kind] = to] /\ audit' = [audit EXCEPT ![c] = Append(audit[c], row)]
  BY <1>2, <1>3, <1>5, <1>6 DEF Transition
<1>9. ASSUME NEW d \in Contacts PROVE IsPath(audit'[d], status'[d])
  <2>1. IsPath(audit[d], status[d])
    BY PathsOfContacts
  <2>2. CASE d # c
    BY <1>8, <2>1, <2>2 DEF TypeInv, RowsOK
  <2>3. CASE d = c
    <3>1. audit'[c] = Append(audit[c], row) /\ status'[c] = [status[c] EXCEPT ![kind] = to]
      BY <1>4, <1>8 DEF TypeInv, RowsOK
    <3>2. \A k \in Kinds : status'[c][k] = IF k = row.kind THEN row.to ELSE status[c][k]
      <4>1. DOMAIN status[c] = Kinds
        BY <1>5 DEF ContactStatus, Kinds
      <4> QED BY <1>7, <3>1, <4>1
    <3>3. PICK l, s, s2 : l = audit[c] /\ s = status[c] /\ s2 = status'[c]
      OBVIOUS
    <3>4. IsPath(Append(l, row), s2)
      <4>1. l \in Seq(AuditRow) /\ s \in ContactStatus /\ IsPath(l, s) /\ row \in AuditRow
            /\ row.from = FromState(s[row.kind])
            /\ \A k \in Kinds : s2[k] = IF k = row.kind THEN row.to ELSE s[k]
        BY <1>5, <1>7, <2>1, <2>3, <3>2, <3>3
      <4> QED BY <4>1, PathGrows
    <3> QED BY <2>3, <3>1, <3>3, <3>4
  <2> QED BY <2>2, <2>3
<1>10. AuditIsAPath' <=> \A d \in Contacts : IsPath(audit'[d], status'[d])
  BY DEF AuditIsAPath, IsPath, LaterOfKind
<1> QED BY <1>9, <1>10

(* The audit rows of either side of a contact lead from one state to the next,
   up to the one stored, though every row was written from a snapshot.       *)
THEOREM AuditTrailIsAPath ==
  ASSUME "intake" \notin Ops PROVE Spec => []AuditIsAPath
<1>1. Init => SnapshotInv /\ AuditIsAPath
  <2>1. \A c \in Contacts : Init => audit[c] = <<>> /\ DOMAIN <<>> = {}
    BY EmptySeq DEF Init
  <2> QED BY <2>1 DEF Init, SnapshotInv, SnapshotOK, Holding, AuditIsAPath
<1>2. TypeInv /\ SnapshotInv /\ [Next]_vars => SnapshotInv'
  BY NextSnapshot
<1>3. TypeInv /\ SnapshotInv /\ AuditIsAPath /\ [Next]_vars => AuditIsAPath'
  <2> SUFFICES ASSUME TypeInv, SnapshotInv, AuditIsAPath, [Next]_vars PROVE AuditIsAPath'
    OBVIOUS
  <2>1. TransitionStep \/ UNCHANGED contactVars
    BY ContactSteps DEF CommitIntakeNoFpg, SnapshotInv
  <2>2. CASE UNCHANGED contactVars
    BY <2>2 DEF AuditIsAPath, contactVars
  <2> QED BY <2>1, <2>2, TransitionKeepsPaths
<1> QED BY <1>1, <1>2, <1>3, InitType, NextType, PTL DEF Spec
=============================================================================
