------------------------- MODULE DailyDigest_proofs -------------------------
(***************************************************************************)
(* Theorems about DailyDigest, for all matches, orgs and recipients, every *)
(* length of the day and of its half-hour, and any number of faults.       *)
(***************************************************************************)
EXTENDS DailyDigest, FiniteSetTheorems, TLAPS

Plan == UNION {[D -> SUBSET Matches] : D \in SUBSET Addresses}
Running == [pc : {"send"}, day : AllDays, plans : Plan, todo : SUBSET Addresses, failed : SUBSET Addresses]
Mail == [slot : Slots, day : AllDays, to : Addresses, matches : SUBSET Matches]
Active == run.pc = "send"

Types ==
  /\ now \in Slots /\ ticked \in BOOLEAN
  /\ matches \in [Matches -> Match]
  /\ run = Idle \/ (run \in Running /\ run.todo \subseteq DOMAIN run.plans)
  /\ runs \subseteq Run /\ IsFiniteSet(runs)
  /\ mails \subseteq Mail /\ IsFiniteSet(mails)
  /\ lost \in [AllDays -> Nat] /\ faults \in Nat

(* A slot has one run: it begins with the slot's tick, is the only one, and
   leaves at most one row.  Its window has ended, and is not yet done.     *)
OneRunPerSlot ==
  /\ \A r \in runs : r.slot <= now /\ Nine(r.day) <= now /\ (r.slot = now => ticked)
  /\ \A r1, r2 \in runs : r1.slot = r2.slot => r1 = r2
  /\ Active => /\ ticked /\ Nine(run.day) <= now /\ ~AlreadySent(run.day)
               /\ \A r \in runs : r.slot # now

(* A window is done once. *)
DoneOnce ==
  \A r1, r2 \in runs : /\ r1.day = r2.day /\ r1.status # "failed" /\ r2.status # "failed"
                       => r1 = r2

(* What a run of day d at slot t must find. *)
Owed(d, t) == {m \in Reportable(d) : matches[m].seen < t}

(* The plans of a run have for each of the staff what is owed to them, and
   who was passed has either failed or has the mail.                       *)
PlansCover ==
  Active => /\ \A m \in Owed(run.day, now), a \in Staff : a \in DOMAIN run.plans /\ m \in run.plans[a]
            /\ \A a \in DOMAIN run.plans \ (run.todo \cup run.failed) : Taken(a) \in mails

(* Mails, and the plans of a run, tell of matches of their window. *)
InWindow(m, d) == matches[m].status \notin {"none", "uncommitted"} /\ matches[m].at \in Window(d)
OfTheWindow ==
  /\ \A x \in mails : \A m \in x.matches : InWindow(m, x.day)
  /\ Active => \A a \in DOMAIN run.plans : \A m \in run.plans[a] : InWindow(m, run.day)

(* Every mail of one day to one address is accounted for: by a run that was
   lost, by one that is recorded, or by the present one.                   *)
MailsTo(d, a) == {x \in mails : x.day = d /\ x.to = a}
Recorded(d) == {r \in runs : r.day = d /\ r.status # "empty"}
Passed(d, a) == Active /\ run.day = d /\ a \in DOMAIN run.plans \ run.todo
Accounted(d, a) ==
  Cardinality(MailsTo(d, a)) <= lost[d] + Cardinality(Recorded(d)) + (IF Passed(d, a) THEN 1 ELSE 0)
AllAccounted == \A d \in AllDays, a \in Addresses : Accounted(d, a)

IInv == /\ Types /\ OneRunPerSlot /\ DoneOnce
        /\ NoMatchIsForgotten /\ PlansCover /\ OfTheWindow /\ AllAccounted

USE DigestAssumption

-----------------------------------------------------------------------------
(* Days and slots *)

LEMMA DayBegins ==
  ASSUME NEW t \in Nat PROVE Day(t) \in Int /\ Nine(Day(t)) <= t /\ t < Nine(Day(t) + 1)
BY DEF Day, Nine

(* A slot is in the window of one day only. *)
LEMMA OneWindow ==
  ASSUME NEW d \in AllDays, NEW e \in AllDays, NEW t \in Window(d), t \in Window(e)
  PROVE  d = e
<1>1. \A i, j \in Int : i < j => i * SlotsPerDay <= (j - 1) * SlotsPerDay
  OBVIOUS
<1> QED BY <1>1 DEF Window, Nine, AllDays

LEMMA SlotsAreNat == Slots \subseteq Nat /\ AllDays \subseteq Nat
BY DEF Slots, AllDays

LEMMA RowsAreTyped ==
  ASSUME Types, NEW r \in runs
  PROVE  r.day \in AllDays /\ r.slot \in Nat
<1>1. r.day \in AllDays /\ r.slot \in Slots
  BY DEF Types, Run
<1> QED BY <1>1, SlotsAreNat

-----------------------------------------------------------------------------
LEMMA InitInv == Init => IInv
<1> SUFFICES ASSUME Init PROVE IInv
  OBVIOUS
<1> USE DEF Init
<1>1. 0 \in Slots
  BY DEF Slots
<1>2. Types
  BY <1>1, FS_EmptySet DEF Types, Match, Idle
<1>3. OneRunPerSlot /\ DoneOnce /\ NoMatchIsForgotten /\ PlansCover /\ OfTheWindow
  BY DEF OneRunPerSlot, DoneOnce, NoMatchIsForgotten, AlreadySent, PlansCover, OfTheWindow,
         Active, Idle
<1>4. ASSUME NEW d \in AllDays, NEW a \in Addresses PROVE Accounted(d, a)
  <2>1. MailsTo(d, a) = {} /\ Recorded(d) = {} /\ ~Passed(d, a) /\ lost[d] = 0
    BY DEF MailsTo, Recorded, Passed, Active, Idle
  <2> QED BY <2>1, FS_EmptySet DEF Accounted
<1> QED BY <1>2, <1>3, <1>4 DEF IInv, AllAccounted

-----------------------------------------------------------------------------
(* Matches move on: none that is in a window leaves it, and what the query
   finds from now on is owed by later runs only.                            *)

LEMMA MatchStep ==
  ASSUME IInv, NEW n \in Matches, Recommend(n) \/ CommitMatch(n) \/ Decide(n)
  PROVE  IInv'
<1> USE DEF IInv
<1>0. UNCHANGED <<now, ticked, run, runs, mails, lost, faults>>
  BY DEF Recommend, CommitMatch, Decide, MatchOnly
<1>10. /\ \A m \in Matches \ {n} : matches'[m] = matches[m]
      /\ (matches'[n].at = matches[n].at \/ matches[n].status = "none")
      /\ (matches[n].status \notin {"none", "uncommitted"}
             => matches'[n].status \notin {"none", "uncommitted"})
      /\ (matches'[n].status \in Reported
             => \/ matches'[n].seen = now
                \/ /\ matches[n].status \in Reported
                   /\ matches'[n] = [matches[n] EXCEPT !.status = "accepted"])
  BY DEF Recommend, CommitMatch, Decide, Accept, Types, Match, Reported
<1>1. matches' \in [Matches -> Match]
  BY DEF Recommend, CommitMatch, Decide, Accept, Types, Match, Reported
<1>2. ASSUME NEW m \in Matches, NEW d \in AllDays, InWindow(m, d) PROVE InWindow(m, d)'
  BY <1>2, <1>10 DEF InWindow, Window, Nine
<1>3. ASSUME NEW d \in AllDays, NEW t \in Nat, t <= now PROVE Owed(d, t)' \subseteq Owed(d, t)
  <2> SUFFICES ASSUME NEW m \in Owed(d, t)' PROVE m \in Owed(d, t)
    OBVIOUS
  <2>1. /\ m \in Matches /\ matches'[m].status \in Reported
        /\ matches'[m].at \in Window(d) /\ matches'[m].seen < t
    BY DEF Owed, Reportable, Window, Nine
  <2>2. now \in Nat
    BY SlotsAreNat DEF Types
  <2>3. matches'[m].seen # now
    BY <1>3, <2>1, <2>2
  <2>4. CASE m = n
    <3>1. matches[m].status \in Reported /\ matches'[m] = [matches[m] EXCEPT !.status = "accepted"]
      BY <1>10, <2>1, <2>3, <2>4
    <3>2. matches'[m].at = matches[m].at /\ matches'[m].seen = matches[m].seen
      BY <2>1, <3>1 DEF Types, Match
    <3> QED BY <2>1, <3>1, <3>2 DEF Owed, Reportable
  <2>5. CASE m # n
    BY <1>10, <2>1, <2>5 DEF Owed, Reportable
  <2> QED BY <2>4, <2>5
<1>4. Types'
  BY <1>0, <1>1 DEF Types
<1>5. OneRunPerSlot' /\ DoneOnce'
  BY <1>0 DEF OneRunPerSlot, DoneOnce, AlreadySent, Active, Nine
<1>6. NoMatchIsForgotten'
  <2> SUFFICES ASSUME NEW r \in runs, r.status \in {"sent", "empty"},
                      NEW m \in Owed(r.day, r.slot)', NEW a \in Staff
               PROVE  \E x \in mails : x.to = a /\ m \in x.matches
    BY <1>0 DEF NoMatchIsForgotten, Owed
  <2>1. r.day \in AllDays /\ r.slot \in Nat
    BY RowsAreTyped
  <2>2. r.slot <= now
    BY DEF OneRunPerSlot
  <2>3. Owed(r.day, r.slot)' \subseteq Owed(r.day, r.slot)
    BY <1>3, <2>1, <2>2
  <2> QED BY <2>3 DEF NoMatchIsForgotten, Owed
<1>7. PlansCover'
  <2> SUFFICES ASSUME Active PROVE PlansCover'
    BY <1>0 DEF PlansCover, Active
  <2>1. run.day \in AllDays /\ now \in Nat
    BY SlotsAreNat DEF Types, Active, Idle, Running
  <2>2. PICK d \in AllDays, t \in Nat : d = run.day /\ t = now
    BY <2>1
  <2>3. Owed(d, t)' \subseteq Owed(d, t)
    BY <1>3, <2>2
  <2>4. Owed(run.day, now)' = Owed(d, t)'
    BY <1>0, <2>2 DEF Owed, Reportable, Nine, Window
  <2>5. Owed(run.day, now)' \subseteq Owed(run.day, now)
    BY <2>2, <2>3, <2>4
  <2> QED BY <1>0, <2>5 DEF PlansCover, Active, Taken
<1>8. OfTheWindow'
  <2>1. ASSUME NEW x \in mails, NEW m \in x.matches PROVE InWindow(m, x.day)'
    <3>1. m \in Matches /\ x.day \in AllDays
      BY <2>1 DEF Types, Mail
    <3> QED BY <1>0, <1>2, <3>1 DEF OfTheWindow
  <2>2. ASSUME Active, NEW a \in DOMAIN run.plans, NEW m \in run.plans[a]
        PROVE  InWindow(m, run.day)'
    <3>1. m \in Matches /\ run.day \in AllDays
      BY <2>2 DEF Types, Active, Idle, Running, Plan
    <3> QED BY <1>0, <1>2, <2>2, <3>1 DEF OfTheWindow, InWindow
  <2> QED BY <1>0, <2>1, <2>2 DEF OfTheWindow, Active, InWindow
<1>9. AllAccounted'
  BY <1>0 DEF AllAccounted, Accounted, MailsTo, Recorded, Passed, Active
<1> QED BY <1>4, <1>5, <1>6, <1>7, <1>8, <1>9
-----------------------------------------------------------------------------
(* A run begins.  What it plans covers its window. *)

LEMMA PlansAreTyped ==
  ASSUME NEW ms \in SUBSET Matches, NEW p \in Plans(ms)
  PROVE  /\ p \in Plan /\ DOMAIN p \subseteq Addresses
         /\ \A a \in DOMAIN p : p[a] \subseteq ms
         /\ \A m \in ms, a \in Staff : a \in DOMAIN p /\ m \in p[a]
<1>1. CASE ms = {}
  <2>1. p = [a \in {} |-> {}]
    BY <1>1 DEF Plans
  <2>2. p \in [{} -> SUBSET Matches] /\ DOMAIN p = {}
    BY <2>1
  <2> QED BY <1>1, <2>2 DEF Plan
<1>2. CASE ms # {}
  <2>1. Staff \cup Facilitators(ms) \subseteq Addresses
    BY DEF Facilitators, Addresses
  <2>2. p \in [Staff \cup Facilitators(ms) -> SUBSET ms]
    BY <1>2 DEF Plans
  <2>3. p \in [Staff \cup Facilitators(ms) -> SUBSET Matches]
    BY <2>2
  <2>4. ASSUME NEW a \in Staff PROVE a \in DOMAIN p /\ p[a] = ms
    BY <1>2, <2>2 DEF Plans, Facilitators
  <2> QED BY <2>1, <2>2, <2>3, <2>4 DEF Plan
<1> QED BY <1>1, <1>2

LEMMA StartRunStep ==
  ASSUME IInv, StartRun
  PROVE  IInv'
<1> USE DEF IInv
<1> DEFINE d == Day(now)
<1>0. /\ ~ticked /\ ticked' = TRUE /\ d \in AllDays /\ Nine(d) <= now
      /\ UNCHANGED <<now, matches, runs, mails, lost, faults>>
  BY DayBegins, SlotsAreNat DEF StartRun, MaySend, Types
<1>1. run = Idle /\ \A r \in runs : r.slot # now
  BY <1>0 DEF OneRunPerSlot, Types, Active, Running
<1>2. /\ \A e \in AllDays : AlreadySent(e)' = AlreadySent(e)
      /\ \A m \in Matches, e \in AllDays : InWindow(m, e)' = InWindow(m, e)
  BY <1>0 DEF AlreadySent, InWindow, Window, Nine
<1>3. NoMatchIsForgotten' /\ DoneOnce'
  BY <1>0 DEF NoMatchIsForgotten, Reportable, AlreadySent, Window, Nine, DoneOnce
<1>4. ASSUME NEW e \in AllDays, NEW a \in Addresses PROVE ~Passed(e, a)
  BY <1>1 DEF Passed, Active, Idle
<1>5. ASSUME NEW e \in AllDays, NEW a \in Addresses, ~Passed(e, a)' PROVE Accounted(e, a)'
  BY <1>0, <1>4, <1>5 DEF Accounted, AllAccounted, MailsTo, Recorded
<1>6. \A x \in mails' : \A m \in x.matches : InWindow(m, x.day)'
  BY <1>0, <1>2 DEF OfTheWindow, Types, Mail
<1>7. CASE AlreadySent(d)
  <2>1. run' = Idle /\ ~Active'
    BY <1>7 DEF StartRun, Active, Idle
  <2>2. \A e \in AllDays, a \in Addresses : ~Passed(e, a)'
    BY <2>1 DEF Passed
  <2>3. Types' /\ OneRunPerSlot' /\ PlansCover' /\ OfTheWindow'
    BY <1>0, <1>6, <2>1 DEF Types, OneRunPerSlot, PlansCover, OfTheWindow, Nine
  <2> QED BY <1>3, <1>5, <2>2, <2>3 DEF AllAccounted
<1>8. CASE ~AlreadySent(d)
  <2>1. PICK p \in Plans(Reportable(d)) :
          run' = [pc |-> "send", day |-> d, plans |-> p, todo |-> DOMAIN p, failed |-> {}]
    BY <1>8 DEF StartRun
  <2>2. /\ p \in Plan /\ DOMAIN p \subseteq Addresses
        /\ \A a \in DOMAIN p : p[a] \subseteq Reportable(d)
        /\ \A m \in Reportable(d), a \in Staff : a \in DOMAIN p /\ m \in p[a]
    <3>1. Reportable(d) \in SUBSET Matches
      BY DEF Reportable
    <3> QED BY <2>1, <3>1, PlansAreTyped
  <2>3. /\ Active' /\ run'.day = d /\ run'.plans = p /\ run'.todo = DOMAIN p /\ run'.failed = {}
    BY <2>1 DEF Active
  <2>4. Types'
    <3>1. run' \in Running
      BY <1>0, <2>1, <2>2 DEF Running
    <3> QED BY <1>0, <2>3, <3>1 DEF Types
  <2>5. OneRunPerSlot'
    BY <1>0, <1>1, <1>8, <2>3 DEF OneRunPerSlot, AlreadySent, Nine
  <2>6. PlansCover'
    <3>1. Owed(run.day, now)' \subseteq Reportable(d)
      BY <1>0, <2>3 DEF Owed, Reportable, Window, Nine
    <3>2. \A m \in Owed(run.day, now)', a \in Staff : a \in DOMAIN run'.plans /\ m \in run'.plans[a]
      BY <2>2, <2>3, <3>1
    <3>3. DOMAIN run'.plans \ (run'.todo \cup run'.failed) = {}
      BY <2>3
    <3> QED BY <3>2, <3>3 DEF PlansCover
  <2>7. OfTheWindow'
    <3>1. \A m \in Reportable(d) : InWindow(m, d)
      BY DEF Reportable, Reported, InWindow
    <3>2. \A a \in DOMAIN p : \A m \in p[a] : InWindow(m, d)
      BY <2>2, <3>1
    <3>3. \A a \in DOMAIN run'.plans : \A m \in run'.plans[a] : InWindow(m, run.day)'
      BY <1>0, <2>3, <3>2 DEF InWindow, Window, Nine
    <3> QED BY <1>6, <3>3 DEF OfTheWindow
  <2>8. \A e \in AllDays, a \in Addresses : ~Passed(e, a)'
    BY <2>3 DEF Passed
  <2> QED BY <1>3, <1>5, <2>4, <2>5, <2>6, <2>7, <2>8 DEF AllAccounted
<1> QED BY <1>7, <1>8

LEMMA OneMore ==
  ASSUME NEW S, NEW T, NEW x, IsFiniteSet(S), T \in {S, S \cup {x}}
  PROVE  /\ Cardinality(S) \in Nat /\ Cardinality(T) \in Nat
         /\ Cardinality(T) <= Cardinality(S) + 1
<1>1. Cardinality(S) \in Nat
  BY FS_CardinalityType
<1>2. Cardinality(S \cup {x}) \in {Cardinality(S), Cardinality(S) + 1}
  BY FS_AddElement, <1>1
<1> QED BY <1>1, <1>2

-----------------------------------------------------------------------------
(* A run passes an address: it has the mail, or it has failed, or both. *)

LEMMA SendStep ==
  ASSUME IInv, Send \/ FailSend
  PROVE  IInv'
<1> USE DEF IInv
<1> DEFINE n == NextAddress
<1>1. /\ Active /\ run \in Running /\ run.todo \subseteq DOMAIN run.plans
      /\ run.todo # {}
  BY DEF Send, FailSend, Active, Types, Idle
<1>2. n \in run.todo /\ n \in Addresses /\ run.day \in AllDays
      /\ DOMAIN run.plans \subseteq Addresses /\ run.plans[n] \subseteq Matches
  BY <1>1 DEF NextAddress, Running, Plan
<1> HIDE DEF n
<1>3. UNCHANGED <<now, ticked, matches, runs, lost>> /\ faults' \in Nat
  BY DEF Send, FailSend, Fault, Types
<1>4. /\ run'.pc = "send" /\ run'.day = run.day /\ run'.plans = run.plans
      /\ run'.todo = run.todo \ {n} /\ run'.failed \in {run.failed, run.failed \cup {n}}
      /\ run' \in Running
  <2>1. run' \in {[run EXCEPT !.todo = @ \ {n}],
                  [run EXCEPT !.todo = @ \ {n}, !.failed = @ \cup {n}]}
    BY DEF Send, FailSend, n
  <2>2. run'.failed \in {run.failed, run.failed \cup {n}} /\ run'.todo = run.todo \ {n}
    BY <1>1, <2>1 DEF Running
  <2>3. run' \in Running
    <3>1. CASE run' = [run EXCEPT !.todo = @ \ {n}]
      BY <1>1, <3>1 DEF Running
    <3>2. CASE run' = [run EXCEPT !.todo = @ \ {n}, !.failed = @ \cup {n}]
      BY <1>1, <1>2, <3>2 DEF Running
    <3> QED BY <2>1, <3>1, <3>2
  <2> QED BY <1>1, <2>1, <2>2, <2>3 DEF Running
<1>5. mails' \in {mails, mails \cup {Taken(n)}} /\ (Taken(n) \in mails' \/ n \in run'.failed)
  BY <1>1, <1>4 DEF Send, FailSend, Running, n
<1>6. Types'
  <2>1. Taken(n) \in Mail
    BY <1>2 DEF Taken, Mail, Types
  <2>2. IsFiniteSet(mails \cup {Taken(n)})
    BY FS_AddElement DEF Types
  <2> QED BY <1>1, <1>3, <1>4, <1>5, <2>1, <2>2 DEF Types
<1>7. OneRunPerSlot' /\ DoneOnce'
  BY <1>1, <1>3, <1>4 DEF OneRunPerSlot, DoneOnce, AlreadySent, Active, Nine
<1>8. NoMatchIsForgotten'
  BY <1>3, <1>5 DEF NoMatchIsForgotten, Reportable, Nine, Window
<1>9. PlansCover'
  <2>1. Owed(run.day, now)' = Owed(run.day, now)
    BY <1>3, <1>4 DEF Owed, Reportable, Nine, Window
  <2>2. ASSUME NEW a \in DOMAIN run'.plans \ (run'.todo \cup run'.failed) PROVE Taken(a)' \in mails'
    <3>1. Taken(a)' = Taken(a)
      BY <1>3, <1>4 DEF Taken
    <3>2. CASE a = n
      BY <1>5, <2>2, <3>1, <3>2
    <3>3. CASE a # n
      BY <1>1, <1>4, <1>5, <2>2, <3>1, <3>3 DEF PlansCover
    <3> QED BY <3>2, <3>3
  <2> QED BY <1>1, <1>4, <2>1, <2>2 DEF PlansCover
<1>10. OfTheWindow'
  <2>1. \A m \in Matches, e \in AllDays : InWindow(m, e)' = InWindow(m, e)
    BY <1>3 DEF InWindow, Window, Nine
  <2>2. \A m \in Taken(n).matches : InWindow(m, run.day)
    BY <1>1, <1>2 DEF OfTheWindow, Taken
  <2>3. \A x \in mails' : \A m \in x.matches : InWindow(m, x.day)
    BY <1>5, <2>2 DEF OfTheWindow, Taken
  <2>4. \A x \in mails' : \A m \in x.matches : InWindow(m, x.day)'
    BY <1>6, <2>1, <2>3 DEF Types, Mail
  <2>5. \A a \in DOMAIN run.plans : \A m \in run.plans[a] : InWindow(m, run.day)
    BY <1>1 DEF OfTheWindow
  <2>6. \A a \in DOMAIN run'.plans : \A m \in run'.plans[a] : InWindow(m, run.day)'
    BY <1>3, <1>4, <2>5 DEF InWindow, Window, Nine
  <2> QED BY <2>4, <2>6 DEF OfTheWindow
<1>11. ASSUME NEW e \in AllDays, NEW a \in Addresses PROVE Accounted(e, a)'
  <2>1. Recorded(e)' = Recorded(e) /\ lost'[e] = lost[e] /\ Accounted(e, a)
    BY <1>3 DEF Recorded, AllAccounted
  <2>2. IsFiniteSet(MailsTo(e, a)) /\ IsFiniteSet(Recorded(e)) /\ lost[e] \in Nat
    <3>1. MailsTo(e, a) \subseteq mails /\ Recorded(e) \subseteq runs
      BY DEF MailsTo, Recorded
    <3> QED BY <3>1, FS_Subset DEF Types
  <2>3. Cardinality(MailsTo(e, a)) \in Nat /\ Cardinality(Recorded(e)) \in Nat
    BY <2>2, FS_CardinalityType
  <2>4. CASE e = run.day /\ a = n
    <3>1. ~Passed(e, a) /\ Passed(e, a)'
      BY <1>1, <1>2, <1>4, <2>4 DEF Passed, Active
    <3>2. MailsTo(e, a)' \in {MailsTo(e, a), MailsTo(e, a) \cup {Taken(n)}}
      BY <1>5, <2>4 DEF MailsTo, Taken
    <3>3. /\ Cardinality(MailsTo(e, a)') \in Nat
          /\ Cardinality(MailsTo(e, a)') <= Cardinality(MailsTo(e, a)) + 1
      BY <2>2, <3>2, OneMore
    <3>4. Cardinality(MailsTo(e, a)) <= lost[e] + Cardinality(Recorded(e))
      BY <2>1, <2>2, <2>3, <3>1 DEF Accounted
    <3>5. Cardinality(MailsTo(e, a)') <= lost[e] + Cardinality(Recorded(e)) + 1
      BY <2>2, <2>3, <3>3, <3>4
    <3> QED BY <2>1, <3>1, <3>5 DEF Accounted
  <2>5. CASE ~(e = run.day /\ a = n)
    <3>1. Passed(e, a)' <=> Passed(e, a)
      BY <1>1, <1>4, <2>5 DEF Passed, Active
    <3>2. MailsTo(e, a)' = MailsTo(e, a)
      BY <1>5, <2>5 DEF MailsTo, Taken
    <3> QED BY <2>1, <3>1, <3>2 DEF Accounted
  <2> QED BY <2>4, <2>5
<1> QED BY <1>6, <1>7, <1>8, <1>9, <1>10, <1>11 DEF AllAccounted

-----------------------------------------------------------------------------
(* A run ends: its row stands for the mails it sent, or it is counted lost. *)

LEMMA CommitRunStep ==
  ASSUME IInv, CommitRun
  PROVE  IInv'
<1> USE DEF IInv
<1> DEFINE row == [slot |-> now, day |-> run.day, status |-> Status(run.plans, run.failed)]
<1>1. /\ Active /\ run \in Running /\ run.todo = {} /\ run.day \in AllDays
      /\ runs' = runs \cup {row} /\ run' = Idle /\ ~Active'
      /\ UNCHANGED <<now, ticked, matches, mails, lost, faults>>
  BY DEF CommitRun, Active, Types, Idle, Running
<1>2. /\ row.slot = now /\ row.day = run.day /\ row \in Run /\ row \notin runs
      /\ row.status = Status(run.plans, run.failed)
  BY <1>1 DEF Run, Status, Types, OneRunPerSlot
<1> HIDE DEF row
<1>3. Types'
  <2>1. IsFiniteSet(runs \cup {row})
    BY FS_AddElement DEF Types
  <2> QED BY <1>1, <1>2, <2>1 DEF Types
<1>4. OneRunPerSlot'
  <2>1. row.slot <= now /\ Nine(row.day) <= now /\ ticked
    BY <1>1, <1>2, SlotsAreNat DEF OneRunPerSlot, Types
  <2>2. \A r \in runs : r.slot # row.slot
    BY <1>1, <1>2 DEF OneRunPerSlot
  <2> QED BY <1>1, <2>1, <2>2 DEF OneRunPerSlot, Nine
<1>5. DoneOnce'
  <2>1. ASSUME NEW r \in runs, r.day = row.day, r.status # "failed" PROVE FALSE
    BY <1>1, <1>2, <2>1 DEF OneRunPerSlot, AlreadySent, Types, Run
  <2> QED BY <1>1, <2>1 DEF DoneOnce
<1>6. NoMatchIsForgotten'
  <2> SUFFICES ASSUME NEW r \in runs \cup {row}, r.status \in {"sent", "empty"},
                      NEW m \in Owed(r.day, r.slot), NEW a \in Staff
               PROVE  \E x \in mails : x.to = a /\ m \in x.matches
    BY <1>1 DEF NoMatchIsForgotten, Owed, Reportable, Window, Nine
  <2>1. CASE r \in runs
    BY <2>1 DEF NoMatchIsForgotten, Owed
  <2>2. CASE r = row
    <3>1. row.status # "failed" /\ m \in Owed(run.day, now)
      BY <1>2, <2>2
    <3>2. a \in DOMAIN run.plans /\ m \in run.plans[a]
      BY <1>1, <3>1 DEF PlansCover
    <3>3. run.failed = {}
      BY <1>2, <3>1, <3>2 DEF Status
    <3>4. Taken(a) \in mails
      BY <1>1, <3>2, <3>3 DEF PlansCover
    <3> QED BY <3>2, <3>4 DEF Taken
  <2> QED BY <2>1, <2>2
<1>7. PlansCover'
  BY <1>1 DEF PlansCover
<1>8. OfTheWindow'
  <2>1. \A m \in Matches, e \in AllDays : InWindow(m, e)' = InWindow(m, e)
    BY <1>1 DEF InWindow, Window, Nine
  <2> QED BY <1>1, <1>3, <2>1 DEF OfTheWindow, Types, Mail
<1>9. ASSUME NEW e \in AllDays, NEW a \in Addresses PROVE Accounted(e, a)'
  <2>1. MailsTo(e, a)' = MailsTo(e, a) /\ lost'[e] = lost[e] /\ Accounted(e, a) /\ ~Passed(e, a)'
    BY <1>1 DEF MailsTo, AllAccounted, Passed
  <2>2. IsFiniteSet(Recorded(e)) /\ Cardinality(Recorded(e)) \in Nat /\ lost[e] \in Nat
    <3>1. Recorded(e) \subseteq runs
      BY DEF Recorded
    <3> QED BY <3>1, FS_Subset, FS_CardinalityType DEF Types
  <2>3. IsFiniteSet(MailsTo(e, a)) /\ Cardinality(MailsTo(e, a)) \in Nat
    <3>1. MailsTo(e, a) \subseteq mails
      BY DEF MailsTo
    <3> QED BY <3>1, FS_Subset, FS_CardinalityType DEF Types
  <2>4. CASE e = run.day /\ row.status # "empty"
    <3>1. Recorded(e)' = Recorded(e) \cup {row} /\ row \notin Recorded(e)
      BY <1>1, <1>2, <2>4 DEF Recorded
    <3>2. Cardinality(Recorded(e)') = Cardinality(Recorded(e)) + 1
      BY <2>2, <3>1, FS_AddElement
    <3> QED BY <2>1, <2>2, <2>3, <3>2 DEF Accounted
  <2>5. CASE ~(e = run.day /\ row.status # "empty")
    <3>1. Recorded(e)' = Recorded(e)
      BY <1>1, <1>2, <2>5 DEF Recorded
    <3>2. ~Passed(e, a)
      BY <1>2, <2>5 DEF Passed, Status
    <3> QED BY <2>1, <3>1, <3>2 DEF Accounted
  <2> QED BY <2>4, <2>5
<1> QED BY <1>3, <1>4, <1>5, <1>6, <1>7, <1>8, <1>9 DEF AllAccounted

LEMMA LoseRunStep ==
  ASSUME IInv, LoseRun
  PROVE  IInv'
<1> USE DEF IInv
<1>1. /\ run.day \in AllDays /\ run' = Idle /\ ~Active' /\ faults' \in Nat
      /\ lost' = [lost EXCEPT ![run.day] = @ + 1]
      /\ UNCHANGED <<now, ticked, matches, runs, mails>>
  BY DEF LoseRun, Active, Types, Idle, Running, Fault
<1>2. Types'
  BY <1>1 DEF Types
<1>3. OneRunPerSlot' /\ DoneOnce' /\ PlansCover'
  BY <1>1 DEF OneRunPerSlot, DoneOnce, PlansCover, Nine
<1>4. NoMatchIsForgotten'
  BY <1>1 DEF NoMatchIsForgotten, Reportable, Nine, Window
<1>5. OfTheWindow'
  <2>1. \A m \in Matches, e \in AllDays : InWindow(m, e)' = InWindow(m, e)
    BY <1>1 DEF InWindow, Window, Nine
  <2> QED BY <1>1, <1>2, <2>1 DEF OfTheWindow, Types, Mail
<1>6. ASSUME NEW e \in AllDays, NEW a \in Addresses PROVE Accounted(e, a)'
  <2>1. /\ MailsTo(e, a)' = MailsTo(e, a) /\ Recorded(e)' = Recorded(e)
        /\ Accounted(e, a) /\ ~Passed(e, a)'
    BY <1>1 DEF MailsTo, Recorded, AllAccounted, Passed
  <2>2. lost[e] \in Nat /\ lost'[e] = IF e = run.day THEN lost[e] + 1 ELSE lost[e]
    BY <1>1 DEF Types
  <2>3. MailsTo(e, a) \subseteq mails /\ Recorded(e) \subseteq runs
    BY DEF MailsTo, Recorded
  <2>4. Cardinality(MailsTo(e, a)) \in Nat /\ Cardinality(Recorded(e)) \in Nat
    BY <2>3, FS_Subset, FS_CardinalityType DEF Types
  <2>5. e # run.day => ~Passed(e, a)
    BY DEF Passed
  <2> QED BY <2>1, <2>2, <2>4, <2>5 DEF Accounted
<1> QED BY <1>2, <1>3, <1>4, <1>5, <1>6 DEF AllAccounted

-----------------------------------------------------------------------------
(* Time goes on, between runs only. *)

LEMMA ClockStep ==
  ASSUME IInv, MissTick \/ Pass
  PROVE  IInv'
<1> USE DEF IInv
<1>1. /\ now' \in Slots /\ ticked' \in BOOLEAN /\ faults' \in Nat
      /\ \/ now' = now /\ ticked' = TRUE
         \/ now' = now + 1 /\ ticked' = FALSE /\ run = Idle
      /\ UNCHANGED <<matches, run, runs, mails, lost>>
  <2>1. CASE MissTick
    BY <2>1 DEF MissTick, Fault, Types
  <2>2. CASE Pass
    BY <2>2 DEF Pass, Types
  <2> QED BY <2>1, <2>2
<1>2. now \in Nat /\ \A r \in runs : r.slot \in Nat /\ r.day \in Nat
  BY SlotsAreNat DEF Types, Run
<1>3. Types'
  BY <1>1 DEF Types
<1>4. OneRunPerSlot'
  <2>1. CASE now' = now /\ ticked' = TRUE
    BY <1>1, <2>1 DEF OneRunPerSlot, Active, AlreadySent, Nine
  <2>2. CASE now' = now + 1 /\ ticked' = FALSE /\ run = Idle
    <3>1. ASSUME NEW r \in runs PROVE r.slot < now' /\ Nine(r.day) <= now'
      <4>1. r.slot <= now /\ Nine(r.day) <= now
        BY DEF OneRunPerSlot
      <4>2. Nine(r.day) \in Int
        BY <1>2 DEF Nine
      <4> QED BY <1>2, <2>2, <4>1, <4>2
    <3>2. ~Active'
      BY <1>1, <2>2 DEF Active, Idle
    <3> QED BY <1>1, <1>2, <2>2, <3>1, <3>2 DEF OneRunPerSlot, Nine
  <2> QED BY <1>1, <2>1, <2>2
<1>5. DoneOnce' /\ NoMatchIsForgotten'
  BY <1>1 DEF DoneOnce, NoMatchIsForgotten, AlreadySent, Reportable, Window, Nine
<1>6. PlansCover'
  BY <1>1 DEF PlansCover, Active, Idle, Taken, Owed, Reportable, Window, Nine
<1>7. OfTheWindow'
  BY <1>1 DEF OfTheWindow, Active, InWindow, Window, Nine
<1>8. AllAccounted'
  BY <1>1 DEF AllAccounted, Accounted, MailsTo, Recorded, Passed, Active
<1> QED BY <1>3, <1>4, <1>5, <1>6, <1>7, <1>8

LEMMA StutterStep ==
  ASSUME IInv, UNCHANGED vars
  PROVE  IInv'
<1> USE DEF IInv, vars
<1>1. Types' /\ OneRunPerSlot' /\ DoneOnce'
  BY DEF Types, OneRunPerSlot, DoneOnce, AlreadySent, Active, Nine
<1>2. NoMatchIsForgotten' /\ PlansCover' /\ OfTheWindow'
  BY DEF NoMatchIsForgotten, PlansCover, OfTheWindow, AlreadySent, Active, Taken, Owed,
         Reportable, InWindow, Window, Nine
<1>3. AllAccounted'
  BY DEF AllAccounted, Accounted, MailsTo, Recorded, Passed, Active
<1> QED BY <1>1, <1>2, <1>3

-----------------------------------------------------------------------------
LEMMA Invariance == Spec => []IInv
<1>1. IInv /\ [Next]_vars => IInv'
  <2> SUFFICES ASSUME IInv, [Next]_vars PROVE IInv'
    OBVIOUS
  <2>1. ASSUME NEW m \in Matches, Recommend(m) \/ CommitMatch(m) \/ Decide(m) PROVE IInv'
    BY <2>1, MatchStep
  <2>2. CASE StartRun
    BY <2>2, StartRunStep
  <2>3. CASE Send \/ FailSend
    BY <2>3, SendStep
  <2>4. CASE CommitRun
    BY <2>4, CommitRunStep
  <2>5. CASE LoseRun
    BY <2>5, LoseRunStep
  <2>6. CASE MissTick \/ Pass
    BY <2>6, ClockStep
  <2>7. CASE UNCHANGED vars
    BY <2>7, StutterStep
  <2> QED BY <2>1, <2>2, <2>3, <2>4, <2>5, <2>6, <2>7 DEF Next, RunStep
<1> QED BY <1>1, InitInv, PTL DEF Spec

LEMMA TypesImplyTypeOK == IInv => TypeOK
<1> SUFFICES ASSUME IInv PROVE TypeOK
  OBVIOUS
<1>1. Types /\ \A r1, r2 \in runs : r1.slot = r2.slot => r1 = r2
  BY DEF IInv, OneRunPerSlot
<1> QED BY <1>1 DEF Types, TypeOK, Idle, Running, Mail

(* Of the recorded runs of a day at most one did not fail, so that what
   Accounted allows is what RepeatsAreExplained states.                   *)
LEMMA AccountsExplainRepeats == IInv => RepeatsAreExplained
<1> SUFFICES ASSUME IInv PROVE RepeatsAreExplained
  OBVIOUS
<1> USE DEF IInv
<1>1. ASSUME NEW d \in AllDays, NEW a \in Addresses
      PROVE  Cardinality({x \in mails : x.day = d /\ x.to = a})
               <= 1 + lost[d] + Cardinality({r \in runs : r.day = d /\ r.status = "failed"})
  <2> DEFINE F == {r \in runs : r.day = d /\ r.status = "failed"}
             G == {r \in runs : r.day = d /\ r.status = "sent"}
  <2>1. IsFiniteSet(F) /\ IsFiniteSet(G) /\ IsFiniteSet(MailsTo(d, a))
    <3>1. F \subseteq runs /\ G \subseteq runs /\ MailsTo(d, a) \subseteq mails
      BY DEF MailsTo
    <3> QED BY <3>1, FS_Subset DEF Types
  <2>2. Recorded(d) = F \cup G
    BY DEF Recorded, Types, Run
  <2>3. PICK r : Recorded(d) \in {F, F \cup {r}}
    <3>1. CASE G = {}
      BY <2>2, <3>1
    <3>2. CASE G # {}
      <4>1. PICK r \in G : TRUE
        BY <3>2
      <4>2. G = {r}
        BY <4>1 DEF DoneOnce
      <4> QED BY <2>2, <4>2
    <3> QED BY <3>1, <3>2
  <2>4. /\ Cardinality(F) \in Nat /\ Cardinality(Recorded(d)) \in Nat
        /\ Cardinality(Recorded(d)) <= Cardinality(F) + 1
    BY <2>1, <2>3, OneMore
  <2>5. Cardinality(MailsTo(d, a)) \in Nat /\ lost[d] \in Nat /\ Accounted(d, a)
    BY <2>1, FS_CardinalityType DEF Types, AllAccounted
  <2>6. CASE ~Passed(d, a)
    BY <2>4, <2>5, <2>6 DEF Accounted, MailsTo
  <2>7. CASE Passed(d, a)
    <3>1. Recorded(d) = F
      BY <2>2, <2>7 DEF Passed, OneRunPerSlot, AlreadySent
    <3> QED BY <2>4, <2>5, <2>7, <3>1 DEF Accounted, MailsTo
  <2> QED BY <2>6, <2>7
<1>2. ASSUME NEW x \in mails, NEW y \in mails, x.matches \cap y.matches # {} PROVE x.day = y.day
  <2>1. PICK m \in x.matches : m \in y.matches
    BY <1>2
  <2>2. x.day \in AllDays /\ y.day \in AllDays
    BY DEF Types, Mail
  <2>3. matches[m].at \in Window(x.day) /\ matches[m].at \in Window(y.day)
    BY <2>1 DEF OfTheWindow, InWindow
  <2> QED BY <2>2, <2>3, OneWindow
<1> QED BY <1>1, <1>2 DEF RepeatsAreExplained

-----------------------------------------------------------------------------
(* State is well typed, and a slot has one run at most. *)
THEOREM TypeCorrect == Spec => []TypeOK
BY Invariance, TypesImplyTypeOK, PTL

(* Whatever runs failed or died before, a window counts as done only when all
   staff have been mailed every match of it that is still open.             *)
THEOREM NothingForgotten == Spec => []NoMatchIsForgotten
<1>1. IInv => NoMatchIsForgotten
  BY DEF IInv
<1> QED BY <1>1, Invariance, PTL

(* A second mail for a day is the work of a run that failed or died, and no
   match is in the digests of two days.                                     *)
THEOREM RepeatsExplained == Spec => []RepeatsAreExplained
BY Invariance, AccountsExplainRepeats, PTL
=============================================================================
