----------------------- MODULE ContactImport_proofs -----------------------
(***************************************************************************)
(* Theorems about ContactImport, for any posts, e-mails, comments and      *)
(* people groups, any number of jobs at one time and every bound.          *)
(***************************************************************************)
EXTENDS ContactImport, FiniteSetTheorems, WellFoundedInduction, TLAPS

-----------------------------------------------------------------------------
(* Sets of numbers *)

(* What holds of 0 and with every number of the next holds of all. *)
LEMMA AllNumbers ==
  ASSUME NEW S, 0 \in S, \A n \in Nat : n \in S => n + 1 \in S
  PROVE  Nat \subseteq S
<1> SUFFICES ASSUME Nat \ S # {} PROVE FALSE
  OBVIOUS
<1>1. PICK n \in Nat \ S : \A m \in Nat \ S : ~(<<m, n>> \in OpToRel(<, Nat))
  BY NatLessThanWellFounded, WFMin
<1>2. n \in Nat /\ n # 0 /\ n - 1 \in Nat
  <2>1. n \in Nat /\ n # 0
    OBVIOUS
  <2> QED BY <2>1
<1>3. n - 1 \in S
  <2>1. <<n - 1, n>> \in OpToRel(<, Nat)
    <3>1. OpToRel(<, Nat) = {p \in Nat \X Nat : p[1] < p[2]}
      BY DEF OpToRel
    <3>2. <<n - 1, n>> \in Nat \X Nat /\ <<n - 1, n>>[1] = n - 1 /\ <<n - 1, n>>[2] = n /\ n - 1 < n
      BY <1>2
    <3> QED BY <3>1, <3>2
  <2> QED BY <1>1, <1>2, <2>1
<1>4. (n - 1) + 1 = n
  BY <1>2
<1> QED BY <1>1, <1>2, <1>3, <1>4

LEMMA FiniteIsBounded ==
  ASSUME NEW S \in SUBSET Nat, IsFiniteSet(S)
  PROVE  \E u \in Nat : \A x \in S : x <= u
<1> DEFINE Sized(n) == {T \in SUBSET Nat : IsFiniteSet(T) /\ Cardinality(T) = n}
           Good == {n \in Nat : \A T \in Sized(n) : \E u \in Nat : \A x \in T : x <= u}
<1>1. 0 \in Good
  BY FS_EmptySet
<1>2. ASSUME NEW n \in Nat, n \in Good PROVE n + 1 \in Good
  <2> SUFFICES ASSUME NEW T \in Sized(n + 1) PROVE \E u \in Nat : \A x \in T : x <= u
    <3>1. n + 1 \in Nat
      OBVIOUS
    <3> HIDE DEF Sized
    <3> QED BY <3>1
  <2>1. T \in SUBSET Nat /\ IsFiniteSet(T) /\ Cardinality(T) = n + 1
    OBVIOUS
  <2>2. PICK y : y \in T
    BY <2>1, FS_EmptySet
  <2>3. T \ {y} \in Sized(n)
    <3>1. IsFiniteSet(T \ {y}) /\ Cardinality(T \ {y}) = Cardinality(T) - 1
      BY <2>1, <2>2, FS_RemoveElement
    <3>2. Cardinality(T \ {y}) = n
      <4> HIDE DEF Sized
      <4> QED BY <2>1, <3>1
    <3>3. T \ {y} \in SUBSET Nat
      BY <2>1
    <3> QED BY <3>1, <3>2, <3>3
  <2>4. PICK u \in Nat : \A x \in T \ {y} : x <= u
    BY <1>2, <2>3
  <2>5. y \in Nat
    BY <2>1, <2>2
  <2>6. PICK v \in Nat : u <= v /\ y <= v
    BY <2>5
  <2>7. \A x \in T : x <= v
    <3> SUFFICES ASSUME NEW x \in T PROVE x <= v
      OBVIOUS
    <3>1. x \in Nat
      BY <2>1
    <3>2. x = y \/ x <= u
      BY <2>4
    <3> QED BY <3>1, <3>2, <2>6, <2>5
  <2> QED BY <2>7
<1> HIDE DEF Good
<1>3. Nat \subseteq Good
  BY <1>1, <1>2, AllNumbers
<1>4. Cardinality(S) \in Nat /\ S \in Sized(Cardinality(S))
  BY FS_CardinalityType
<1> QED BY <1>3, <1>4 DEF Good

LEMMA MaxIsGreatest ==
  ASSUME NEW S \in SUBSET Nat, S # {}, NEW n \in Nat, \A x \in S : x <= n
  PROVE  Max(S) \in S /\ \A y \in S : y <= Max(S)
<1> DEFINE Above == {u \in Nat : \A x \in S : x <= u}
<1>1. PICK u \in Above : \A v \in Above : ~(<<v, u>> \in OpToRel(<, Nat))
  <2>1. n \in Above /\ Above \subseteq Nat
    OBVIOUS
  <2> HIDE DEF Above
  <2> QED BY <2>1, NatLessThanWellFounded, WFMin
<1>2. \A v \in Above : ~(v < u)
  <2> SUFFICES ASSUME NEW v \in Above, v < u PROVE FALSE
    OBVIOUS
  <2>1. OpToRel(<, Nat) = {p \in Nat \X Nat : p[1] < p[2]}
    BY DEF OpToRel
  <2>2. <<v, u>> \in Nat \X Nat /\ <<v, u>>[1] = v /\ <<v, u>>[2] = u
    OBVIOUS
  <2> QED BY <1>1, <2>1, <2>2
<1>3. u \in S
  <2> SUFFICES ASSUME u \notin S PROVE FALSE
    OBVIOUS
  <2>1. \A x \in S : x \in Nat /\ x < u
    OBVIOUS
  <2>2. PICK x \in S : TRUE
    OBVIOUS
  <2>3. u \in Nat /\ x \in Nat /\ x < u
    BY <2>1
  <2>4. u - 1 \in Nat
    BY <2>3
  <2>5. \A y \in S : y <= u - 1
    BY <2>1, <2>3
  <2>6. u - 1 \in Above /\ u - 1 < u
    BY <2>3, <2>4, <2>5
  <2> QED BY <1>2, <2>6
<1>4. \A y \in S : u >= y
  OBVIOUS
<1>5. Max(S) \in S /\ \A y \in S : Max(S) >= y
  BY <1>3, <1>4 DEF Max
<1>6. Max(S) \in Nat /\ \A y \in S : y \in Nat
  BY <1>5
<1> QED BY <1>5, <1>6

LEMMA MinIsLeast ==
  ASSUME NEW S \in SUBSET Nat, S # {}
  PROVE  Min(S) \in S /\ \A y \in S : Min(S) <= y
<1>1. PICK u \in S : \A v \in S : ~(<<v, u>> \in OpToRel(<, Nat))
  BY NatLessThanWellFounded, WFMin
<1>2. \A v \in S : u <= v
  <2> SUFFICES ASSUME NEW v \in S, v < u PROVE FALSE
    OBVIOUS
  <2>1. OpToRel(<, Nat) = {p \in Nat \X Nat : p[1] < p[2]}
    BY DEF OpToRel
  <2>2. <<v, u>> \in Nat \X Nat /\ <<v, u>>[1] = v /\ <<v, u>>[2] = u
    OBVIOUS
  <2> QED BY <1>1, <2>1, <2>2
<1>3. Min(S) \in S /\ \A y \in S : Min(S) =< y
  BY <1>2 DEF Min
<1> QED BY <1>3

LEMMA LastPostIsLast == LastPost \in Nat /\ \A p \in Posts : p \in 1 .. LastPost
<1>1. Posts \cup {0} \in SUBSET Nat /\ IsFiniteSet(Posts \cup {0})
  BY ImportAssumption, FS_AddElement
<1>2. PICK u \in Nat : \A x \in Posts \cup {0} : x <= u
  BY <1>1, FiniteIsBounded
<1>3. Max(Posts \cup {0}) \in Posts \cup {0} /\ \A y \in Posts \cup {0} : y <= Max(Posts \cup {0})
  BY <1>1, <1>2, MaxIsGreatest
<1>4. \A p \in Posts : p \in Nat \ {0}
  BY ImportAssumption
<1> QED BY <1>1, <1>3, <1>4 DEF LastPost

-----------------------------------------------------------------------------
(* The import and the merge, one post after the other *)

Loaded(job) ==
  [rows |-> contacts, made |-> created, emailOwner |-> job.emailOwner,
   conflicts |-> conflicts, ok |-> TRUE]

AfterPost(job, acc, p) == IF p \in Delta(job) THEN ImportPost(job, acc, p) ELSE acc

NotMerged == [rows |-> contacts, children |-> children, conflicts |-> conflicts, merged |-> merged]

PlanFor(plans, p) == CHOOSE pl \in {x \in plans : x.post = p} : TRUE

AfterPlan(plans, acc, p) ==
  IF {x \in plans : x.post = p} = {} THEN acc ELSE ApplyPlan(acc, PlanFor(plans, p))

LEMMA ImportIsStepwise ==
  ASSUME NEW job
  PROVE  \E f : /\ f[0] = Loaded(job)
                /\ \A p \in 1 .. LastPost : f[p] = AfterPost(job, f[p - 1], p)
                /\ ImportedContacts(job) = f[LastPost]
<1> DEFINE Body(f, n) == [p \in 0 .. n |-> IF p = 0 THEN Loaded(job) ELSE AfterPost(job, f[p - 1], p)]
           Good == {n \in Nat : \E f : f = Body(f, n)}
<1>1. 0 \in Good
  <2>1. [p \in 0 .. 0 |-> Loaded(job)] = Body([p \in 0 .. 0 |-> Loaded(job)], 0)
    OBVIOUS
  <2> QED BY <2>1
<1>2. ASSUME NEW n \in Nat, n \in Good PROVE n + 1 \in Good
  <2>1. PICK f : f = Body(f, n)
    BY <1>2
  <2> DEFINE g == [p \in 0 .. n + 1 |-> IF p = n + 1 THEN AfterPost(job, f[n], n + 1) ELSE f[p]]
  <2>2. ASSUME NEW p \in 0 .. n + 1
        PROVE  g[p] = IF p = 0 THEN Loaded(job) ELSE AfterPost(job, g[p - 1], p)
    <3>1. CASE p = n + 1
      <4>1. p # 0 /\ p - 1 = n /\ n \in 0 .. n + 1 /\ n # n + 1
        BY <3>1
      <4>2. g[n] = f[n] /\ g[p] = AfterPost(job, f[n], n + 1)
        BY <3>1, <4>1
      <4> QED BY <3>1, <4>1, <4>2
    <3>2. CASE p # n + 1
      <4>1. p \in 0 .. n
        BY <3>2
      <4>2. g[p] = f[p] /\ f[p] = IF p = 0 THEN Loaded(job) ELSE AfterPost(job, f[p - 1], p)
        BY <2>1, <3>2, <4>1
      <4>3. p # 0 => p - 1 \in 0 .. n + 1 /\ p - 1 # n + 1
        BY <4>1
      <4>4. p # 0 => g[p - 1] = f[p - 1]
        BY <4>3
      <4> QED BY <4>2, <4>4
    <3> QED BY <3>1, <3>2
  <2>3. g = [p \in 0 .. n + 1 |-> g[p]]
    OBVIOUS
  <2>4. g = Body(g, n + 1)
    <3> HIDE DEF g
    <3> QED BY <2>2, <2>3
  <2>5. \E h : h = Body(h, n + 1)
    <3> HIDE DEF g, Body
    <3> QED BY <2>4
  <2>6. n + 1 \in Nat
    OBVIOUS
  <2> HIDE DEF Body, g
  <2> QED BY <2>5, <2>6
<1>3. LastPost \in Good
  <2> HIDE DEF Good
  <2> QED BY <1>1, <1>2, AllNumbers, LastPostIsLast
<1>4. \E f : f = Body(f, LastPost)
  BY <1>3
<1> DEFINE after == CHOOSE f : f = Body(f, LastPost)
<1>5. after = Body(after, LastPost)
  BY <1>4
<1>6. ImportedContacts(job) = after[LastPost]
  BY DEF ImportedContacts, Loaded, AfterPost
<1>7. after[0] = Loaded(job)
  <2> HIDE DEF after
  <2> QED BY <1>5, LastPostIsLast
<1>8. ASSUME NEW p \in 1 .. LastPost PROVE after[p] = AfterPost(job, after[p - 1], p)
  <2> HIDE DEF after
  <2>1. p \in 0 .. LastPost /\ p # 0
    BY LastPostIsLast
  <2> QED BY <1>5, <2>1
<1> QED BY <1>6, <1>7, <1>8

LEMMA MergeIsStepwise ==
  ASSUME NEW plans
  PROVE  \E f : /\ f[0] = NotMerged
                /\ \A p \in 1 .. LastPost : f[p] = AfterPlan(plans, f[p - 1], p)
                /\ Merged(plans) = f[LastPost]
<1> DEFINE Body(f, n) == [p \in 0 .. n |-> IF p = 0 THEN NotMerged ELSE AfterPlan(plans, f[p - 1], p)]
           Good == {n \in Nat : \E f : f = Body(f, n)}
<1>1. 0 \in Good
  <2>1. [p \in 0 .. 0 |-> NotMerged] = Body([p \in 0 .. 0 |-> NotMerged], 0)
    OBVIOUS
  <2> QED BY <2>1
<1>2. ASSUME NEW n \in Nat, n \in Good PROVE n + 1 \in Good
  <2>1. PICK f : f = Body(f, n)
    BY <1>2
  <2> DEFINE g == [p \in 0 .. n + 1 |-> IF p = n + 1 THEN AfterPlan(plans, f[n], n + 1) ELSE f[p]]
  <2>2. ASSUME NEW p \in 0 .. n + 1
        PROVE  g[p] = IF p = 0 THEN NotMerged ELSE AfterPlan(plans, g[p - 1], p)
    <3>1. CASE p = n + 1
      <4>1. p # 0 /\ p - 1 = n /\ n \in 0 .. n + 1 /\ n # n + 1
        BY <3>1
      <4>2. g[n] = f[n] /\ g[p] = AfterPlan(plans, f[n], n + 1)
        BY <3>1, <4>1
      <4> QED BY <3>1, <4>1, <4>2
    <3>2. CASE p # n + 1
      <4>1. p \in 0 .. n
        BY <3>2
      <4>2. g[p] = f[p] /\ f[p] = IF p = 0 THEN NotMerged ELSE AfterPlan(plans, f[p - 1], p)
        BY <2>1, <3>2, <4>1
      <4>3. p # 0 => p - 1 \in 0 .. n + 1 /\ p - 1 # n + 1
        BY <4>1
      <4>4. p # 0 => g[p - 1] = f[p - 1]
        BY <4>3
      <4> QED BY <4>2, <4>4
    <3> QED BY <3>1, <3>2
  <2>3. g = [p \in 0 .. n + 1 |-> g[p]]
    OBVIOUS
  <2>4. g = Body(g, n + 1)
    <3> HIDE DEF g
    <3> QED BY <2>2, <2>3
  <2>5. \E h : h = Body(h, n + 1)
    <3> HIDE DEF g, Body
    <3> QED BY <2>4
  <2>6. n + 1 \in Nat
    OBVIOUS
  <2> HIDE DEF Body, g
  <2> QED BY <2>5, <2>6
<1>3. LastPost \in Good
  <2> HIDE DEF Good
  <2> QED BY <1>1, <1>2, AllNumbers, LastPostIsLast
<1>4. \E f : f = Body(f, LastPost)
  BY <1>3
<1> DEFINE after == CHOOSE f : f = Body(f, LastPost)
<1>5. after = Body(after, LastPost)
  BY <1>4
<1>6. Merged(plans) = after[LastPost]
  BY DEF Merged, NotMerged, AfterPlan, PlanFor
<1>7. after[0] = NotMerged
  <2> HIDE DEF after
  <2> QED BY <1>5, LastPostIsLast
<1>8. ASSUME NEW p \in 1 .. LastPost PROVE after[p] = AfterPlan(plans, after[p - 1], p)
  <2> HIDE DEF after
  <2>1. p \in 0 .. LastPost /\ p # 0
    BY LastPostIsLast
  <2> QED BY <1>5, <2>1
<1> QED BY <1>6, <1>7, <1>8

-----------------------------------------------------------------------------
(* The unique indexes *)

Distinct(rows) ==
  \A c, d \in DOMAIN rows :
    /\ rows[c].key \in Posts /\ rows[d].key = rows[c].key => c = d
    /\ rows[c].email \in Emails /\ rows[d].email = rows[c].email => c = d

LEMMA AtMostOne ==
  ASSUME NEW S, IsFiniteSet(S)
  PROVE  Cardinality(S) <= 1 <=> \A x, y \in S : x = y
<1>1. ASSUME Cardinality(S) <= 1, NEW x \in S, NEW y \in S PROVE x = y
  <2>1. Cardinality(S) \in Nat
    BY FS_CardinalityType
  <2>2. Cardinality(S) # 0
    BY <1>1, FS_EmptySet
  <2>3. Cardinality(S) = 1
    BY <1>1, <2>1, <2>2
  <2>4. PICK z : S = {z}
    BY <2>3, FS_Singleton
  <2> QED BY <1>1, <2>4
<1>2. ASSUME \A x, y \in S : x = y PROVE Cardinality(S) <= 1
  <2>1. CASE S = {}
    BY <2>1, FS_EmptySet
  <2>2. CASE S # {}
    <3>1. PICK z : z \in S
      BY <2>2
    <3>2. S = {z}
      BY <1>2, <3>1
    <3>3. Cardinality({z}) = 1
      BY FS_Singleton
    <3> QED BY <3>2, <3>3
  <2> QED BY <2>1, <2>2
<1> QED BY <1>1, <1>2

LEMMA UniqueIsDistinct ==
  ASSUME NEW rows, NEW n \in Nat, DOMAIN rows \subseteq 1 .. n
  PROVE  Unique(rows) <=> Distinct(rows)
<1>1. IsFiniteSet(DOMAIN rows)
  <2>1. IsFiniteSet(1 .. n)
    BY FS_Interval
  <2> QED BY <2>1, FS_Subset
<1>2. ASSUME NEW p PROVE Cardinality(WithKey(rows, p)) <= 1
                           <=> \A c, d \in WithKey(rows, p) : c = d
  <2>1. WithKey(rows, p) \in SUBSET DOMAIN rows
    BY DEF WithKey
  <2>2. IsFiniteSet(WithKey(rows, p))
    BY <1>1, <2>1, FS_Subset
  <2> QED BY <2>2, AtMostOne
<1>3. ASSUME NEW e PROVE Cardinality(WithEmail(rows, e)) <= 1
                           <=> \A c, d \in WithEmail(rows, e) : c = d
  <2>1. WithEmail(rows, e) \in SUBSET DOMAIN rows
    BY DEF WithEmail
  <2>2. IsFiniteSet(WithEmail(rows, e))
    BY <1>1, <2>1, FS_Subset
  <2> QED BY <2>2, AtMostOne
<1>4. Unique(rows) <=> /\ \A p \in Posts : \A c, d \in WithKey(rows, p) : c = d
                       /\ \A e \in Emails : \A c, d \in WithEmail(rows, e) : c = d
  BY <1>2, <1>3 DEF Unique
<1>5. Distinct(rows) <=> /\ \A p \in Posts : \A c, d \in WithKey(rows, p) : c = d
                         /\ \A e \in Emails : \A c, d \in WithEmail(rows, e) : c = d
  BY DEF Distinct, WithKey, WithEmail
<1> QED BY <1>4, <1>5

-----------------------------------------------------------------------------
(* What rows and locals are *)

RowsOK(rows, made) ==
  /\ DOMAIN rows \subseteq 1 .. made
  /\ \A c \in DOMAIN rows : rows[c] \in Contact

PostsOK(ps, t) == DOMAIN ps \subseteq Posts /\ \A p \in DOMAIN ps : ps[p] \in Post /\ ps[p].stamp <= t
CommentsOK(cs, t) ==
  DOMAIN cs \subseteq Comments /\ \A m \in DOMAIN cs : cs[m] \in Stamps /\ cs[m] <= t

ImportPcs == {"load", "contacts", "contact_assignment", "activity_log", "adopter_interest"}
InImport(job) == job.pc \in ImportPcs
Marked(job) == job.pc = "lock" \/ InImport(job)

PlanOK(pl, made) ==
  pl.post \in Posts /\ pl.target \in 0 .. made /\ pl.loser \in 0 .. made /\ pl.content \in Stamps

(* A job at edit t of DT, when made rows were created and tb and te deleted. *)
JobOK(job, t, made, tb, te) ==
  /\ job.pc \in {"idle", "lock", "plan", "merge"} \cup ImportPcs
  /\ Marked(job) => job.watermark \in 0 .. t
  /\ InImport(job) =>
       /\ job.table \in 1 .. 4 /\ job.pc \in {"load", Tables[job.table]}
       /\ PostsOK(job.posts, t) /\ CommentsOK(job.comments, t)
  /\ job.pc = "contacts" =>
       /\ DOMAIN job.emailOwner \subseteq Emails
       /\ job.tombs \subseteq tb /\ job.tombEmails \subseteq te
  /\ job.pc = "merge" => \A pl \in job.plans : PlanOK(pl, made)

-----------------------------------------------------------------------------
(* One post of the import *)

Skips(job, p) == p \in job.tombs \/ job.posts[p].email \in job.tombEmails

(* Post p was written to row c. *)
Wrote(job, acc, out, p, c) ==
  /\ \/ c \in DOMAIN acc.rows /\ acc.rows[c].key = p /\ out.made = acc.made
        /\ out.rows[c].owner = acc.rows[c].owner
     \/ c = acc.made + 1 /\ WithKey(acc.rows, p) = {} /\ out.made = c
  /\ DOMAIN out.rows = DOMAIN acc.rows \cup {c}
  /\ \A d \in DOMAIN acc.rows : d # c => out.rows[d] = acc.rows[d]
  /\ out.rows[c] \in Contact /\ out.rows[c].key = p
  /\ out.rows[c].content = job.posts[p].stamp
  /\ out.conflicts = IF out.rows[c].dropped
                     THEN Recorded(acc.conflicts, DuplicateConflict(p, job.posts[p].email))
                     ELSE acc.conflicts
  /\ out.rows[c].dropped => job.posts[p].email \in Emails
  /\ DOMAIN out.emailOwner \subseteq Emails
  /\ out.ok => acc.ok /\ Unique(out.rows)

LEMMA PostIsWritten ==
  ASSUME NEW job, NEW acc, NEW p \in Posts, job.posts[p] \in Post, ~Skips(job, p),
         acc.made \in Nat, RowsOK(acc.rows, acc.made), DOMAIN acc.emailOwner \subseteq Emails
  PROVE  \E c \in 1 .. acc.made + 1 : Wrote(job, acc, ImportPost(job, acc, p), p, c)
<1> DEFINE post == job.posts[p]
           e == post.email
           taken == e \in DOMAIN acc.emailOwner /\ acc.emailOwner[e] # p
           known == WithKey(acc.rows, p)
           c == IF known = {} THEN acc.made + 1 ELSE CHOOSE x \in known : TRUE
           row == [key |-> p, email |-> IF taken THEN None ELSE e, content |-> post.stamp,
                   owner |-> IF known = {} THEN "none" ELSE acc.rows[c].owner, dropped |-> taken]
           out == [rows |-> With(acc.rows, c, row),
                   made |-> IF known = {} THEN c ELSE acc.made,
                   emailOwner |-> IF e = None \/ taken THEN acc.emailOwner
                                                       ELSE With(acc.emailOwner, e, p),
                   conflicts |-> IF taken THEN Recorded(acc.conflicts, DuplicateConflict(p, e))
                                          ELSE acc.conflicts,
                   ok |-> acc.ok /\ post.mapped /\ Unique(With(acc.rows, c, row))]
<1>1. ImportPost(job, acc, p) = out
  BY DEF ImportPost, Skips
<1>2. e \in Emails \cup {None} /\ post.stamp \in Stamps
  BY DEF Post
<1>3. taken \in BOOLEAN /\ (taken => e \in Emails)
  OBVIOUS
<1>4. known # {} => c \in DOMAIN acc.rows /\ acc.rows[c].key = p
  BY DEF WithKey
<1>5. c \in 1 .. acc.made + 1
  BY <1>4 DEF RowsOK
<1>6. row \in Contact
  <2>1. row.owner \in {"none", "dt_import", "staff"}
    <3>1. known # {} => acc.rows[c] \in Contact
      BY <1>4 DEF RowsOK
    <3> HIDE DEF c, known
    <3> QED BY <3>1 DEF Contact
  <2> DEFINE em == IF taken THEN None ELSE e
             ow == IF known = {} THEN "none" ELSE acc.rows[c].owner
  <2>2. em \in Emails \cup {None}
    BY <1>2
  <2>3. ow \in {"none", "dt_import", "staff"}
    BY <2>1
  <2> HIDE DEF em, ow, taken, c, known
  <2>4. [key |-> p, email |-> em, content |-> post.stamp, owner |-> ow, dropped |-> taken] \in Contact
    BY <1>2, <1>3, <2>2, <2>3 DEF Contact
  <2> QED BY <2>4 DEF em, ow
<1>7. DOMAIN out.emailOwner \subseteq Emails
  <2>1. out.emailOwner = IF e = None \/ taken THEN acc.emailOwner ELSE With(acc.emailOwner, e, p)
    <3> HIDE DEF taken, c, known, row, e
    <3> QED OBVIOUS
  <2>2. DOMAIN With(acc.emailOwner, e, p) = DOMAIN acc.emailOwner \cup {e}
    BY DEF With
  <2>3. e # None => e \in Emails
    BY <1>2
  <2> HIDE DEF taken, c, known, row, e, out
  <2>4. CASE e = None \/ taken
    BY <2>1, <2>4
  <2>5. CASE ~(e = None \/ taken)
    BY <2>1, <2>2, <2>3, <2>5
  <2> QED BY <2>4, <2>5
<1>8. /\ out.rows = With(acc.rows, c, row)
      /\ out.made = IF known = {} THEN c ELSE acc.made
      /\ out.conflicts = IF taken THEN Recorded(acc.conflicts, DuplicateConflict(p, e))
                                  ELSE acc.conflicts
      /\ out.ok = (acc.ok /\ post.mapped /\ Unique(With(acc.rows, c, row)))
  <2> HIDE DEF taken, c, known, row, e
  <2> QED OBVIOUS
<1>9. /\ row.key = p /\ row.content = post.stamp /\ row.dropped = taken
      /\ known # {} => row.owner = acc.rows[c].owner
  <2> HIDE DEF taken, c, known, e
  <2> QED OBVIOUS
<1>10. known = {} => c = acc.made + 1
  OBVIOUS
<1> HIDE DEF row, c, taken, out
<1>11. /\ DOMAIN out.rows = DOMAIN acc.rows \cup {c}
       /\ out.rows[c] = row
       /\ \A d \in DOMAIN acc.rows : d # c => out.rows[d] = acc.rows[d]
  <2>1. /\ DOMAIN With(acc.rows, c, row) = DOMAIN acc.rows \cup {c}
        /\ With(acc.rows, c, row)[c] = row
        /\ \A d \in DOMAIN acc.rows : d # c => With(acc.rows, c, row)[d] = acc.rows[d]
    BY DEF With
  <2>2. out.rows = With(acc.rows, c, row)
    BY <1>8
  <2> HIDE DEF known, e, post
  <2> QED BY <2>1, <2>2
<1>12. out.ok => acc.ok /\ Unique(out.rows)
  BY <1>8
<1>13. \/ c \in DOMAIN acc.rows /\ acc.rows[c].key = p /\ out.made = acc.made
          /\ out.rows[c].owner = acc.rows[c].owner
       \/ c = acc.made + 1 /\ WithKey(acc.rows, p) = {} /\ out.made = c
  BY <1>4, <1>8, <1>9, <1>10, <1>11
<1>14. Wrote(job, acc, out, p, c)
  BY <1>3, <1>6, <1>7, <1>8, <1>9, <1>11, <1>12, <1>13 DEF Wrote
<1> QED BY <1>1, <1>5, <1>14

-----------------------------------------------------------------------------
(* What the import of the first n posts has made of the rows it began with *)

Listed(S, p) == \E x \in S : x.type = "duplicate_email" /\ x.post = p

ImportAcc(job, acc, n) ==
  /\ acc.made \in Nat /\ created <= acc.made /\ RowsOK(acc.rows, acc.made)
  /\ DOMAIN acc.emailOwner \subseteq Emails
  /\ acc.ok => Unique(acc.rows)
  /\ DOMAIN contacts \subseteq DOMAIN acc.rows
  /\ \A c \in DOMAIN contacts :
       /\ acc.rows[c].key = contacts[c].key /\ acc.rows[c].owner = contacts[c].owner
       /\ acc.rows[c] = contacts[c] \/ acc.rows[c].key \in Delta(job)
  /\ \A c \in DOMAIN acc.rows \ DOMAIN contacts :
       c > created /\ acc.rows[c].key \in Delta(job) /\ acc.rows[c].key \notin job.tombs
  /\ conflicts \subseteq acc.conflicts /\ acc.conflicts \subseteq Conflict
  /\ \A x \in acc.conflicts \ conflicts : x.post \notin job.tombs
  /\ \A c \in DOMAIN acc.rows : acc.rows[c].dropped =>
       \/ c \in DOMAIN contacts /\ contacts[c].dropped
       \/ Listed(acc.conflicts, acc.rows[c].key)
  /\ \A q \in Delta(job) : q <= n /\ ~Skips(job, q) =>
       \E c \in DOMAIN acc.rows : acc.rows[c].key = q /\ acc.rows[c].content = job.posts[q].stamp

LEMMA RecordedIs ==
  ASSUME NEW S, NEW p \in Posts, NEW e \in Emails, S \subseteq Conflict
  PROVE  LET T == Recorded(S, DuplicateConflict(p, e)) IN
         /\ S \subseteq T /\ T \subseteq Conflict /\ Listed(T, p)
         /\ \A x \in T \ S : x.post = p
<1> DEFINE x == DuplicateConflict(p, e)
<1>1. x \in Conflict /\ x.type = "duplicate_email" /\ x.post = p
  BY DEF Conflict, DuplicateConflict
<1>2. DuplicateConflict(p, e) = x
  OBVIOUS
<1> HIDE DEF x
<1> DEFINE T == Recorded(S, x)
<1>3. \/ T = S /\ \E y \in S : y.type = x.type /\ y.post = x.post
      \/ T = S \cup {x}
  BY DEF Recorded
<1>4. Listed(T, p)
  <2>1. \E y \in T : y.type = x.type /\ y.post = x.post
    BY <1>3
  <2> HIDE DEF T
  <2> QED BY <1>1, <2>1 DEF Listed
<1>5. S \subseteq T /\ T \subseteq Conflict /\ \A y \in T \ S : y.post = p
  <2> HIDE DEF T
  <2> QED BY <1>1, <1>3
<1> QED BY <1>2, <1>4, <1>5

LEMMA SkippedIsKept ==
  ASSUME NEW job, NEW acc, NEW p, Skips(job, p)
  PROVE  ImportPost(job, acc, p) = acc
BY DEF ImportPost, Skips

LEMMA NextPost ==
  ASSUME NEW job, NEW acc, NEW n \in Nat, ImportAcc(job, acc, n), created \in Nat,
         DOMAIN job.posts \subseteq Posts, \A p \in DOMAIN job.posts : job.posts[p] \in Post
  PROVE  ImportAcc(job, AfterPost(job, acc, n + 1), n + 1)
<1> DEFINE p == n + 1
<1>0. \A q \in Delta(job) : q \in Nat /\ q \in Posts /\ job.posts[q] \in Post
  BY ImportAssumption DEF Delta
<1>1. CASE ~(p \in Delta(job) /\ ~Skips(job, p))
  <2>1. AfterPost(job, acc, p) = acc
    BY <1>1, SkippedIsKept DEF AfterPost
  <2>2. ASSUME NEW q \in Delta(job), q <= p, ~Skips(job, q)
        PROVE  \E c \in DOMAIN acc.rows : acc.rows[c].key = q /\ acc.rows[c].content = job.posts[q].stamp
    <3>1. q # p /\ q \in Nat
      BY <1>0, <1>1, <2>2
    <3>2. q <= n
      BY <3>1, <2>2
    <3> QED BY <2>2, <3>2 DEF ImportAcc
  <2> HIDE DEF p
  <2>3. ImportAcc(job, acc, p)
    BY <2>2 DEF ImportAcc
  <2> QED BY <2>1, <2>3 DEF p
<1>2. CASE p \in Delta(job) /\ ~Skips(job, p)
  <2> DEFINE out == ImportPost(job, acc, p)
  <2>1. AfterPost(job, acc, p) = out
    BY <1>2 DEF AfterPost
  <2>2. /\ acc.made \in Nat /\ created <= acc.made /\ RowsOK(acc.rows, acc.made)
        /\ DOMAIN acc.emailOwner \subseteq Emails
        /\ p \in Posts /\ job.posts[p] \in Post /\ p \notin job.tombs
    BY <1>0, <1>2 DEF ImportAcc, Skips
  <2>3. PICK c \in 1 .. acc.made + 1 : Wrote(job, acc, out, p, c)
    <3> HIDE DEF p
    <3> QED BY <1>2, <2>2, PostIsWritten
  <2> HIDE DEF out
  <2>n. p \in Nat /\ p = n + 1
    OBVIOUS
  <2> HIDE DEF p
  <2>4. /\ DOMAIN out.rows = DOMAIN acc.rows \cup {c}
        /\ \A d \in DOMAIN acc.rows : d # c => out.rows[d] = acc.rows[d]
        /\ out.rows[c] \in Contact /\ out.rows[c].key = p
        /\ out.rows[c].content = job.posts[p].stamp
        /\ DOMAIN out.emailOwner \subseteq Emails
        /\ out.ok => acc.ok /\ Unique(out.rows)
        /\ out.rows[c].dropped => job.posts[p].email \in Emails
    BY <2>3 DEF Wrote
  <2>5. \/ c \in DOMAIN acc.rows /\ acc.rows[c].key = p /\ out.made = acc.made
           /\ out.rows[c].owner = acc.rows[c].owner
        \/ c = acc.made + 1 /\ c \notin DOMAIN acc.rows /\ out.made = c
    <3>1. c = acc.made + 1 => c \notin DOMAIN acc.rows
      BY <2>2 DEF RowsOK
    <3> QED BY <2>3, <3>1 DEF Wrote
  <2>6. out.made \in Nat /\ created <= out.made /\ acc.made <= out.made /\ c \in 1 .. out.made
    <3>1. CASE out.made = acc.made /\ c \in DOMAIN acc.rows
      BY <2>2, <3>1 DEF RowsOK
    <3>2. CASE c = acc.made + 1 /\ out.made = c
      BY <2>2, <3>2
    <3> QED BY <2>5, <3>1, <3>2
  <2>7. RowsOK(out.rows, out.made)
    <3>1. DOMAIN acc.rows \subseteq 1 .. out.made
      BY <2>2, <2>6 DEF RowsOK
    <3>2. \A d \in DOMAIN acc.rows : acc.rows[d] \in Contact
      BY <2>2 DEF RowsOK
    <3> QED BY <2>4, <2>6, <3>1, <3>2 DEF RowsOK
  <2>8. DOMAIN contacts \subseteq DOMAIN out.rows
    BY <2>4 DEF ImportAcc
  <2>9. ASSUME NEW d \in DOMAIN contacts
        PROVE  /\ out.rows[d].key = contacts[d].key /\ out.rows[d].owner = contacts[d].owner
               /\ out.rows[d] = contacts[d] \/ out.rows[d].key \in Delta(job)
    <3>1. /\ d \in DOMAIN acc.rows
          /\ acc.rows[d].key = contacts[d].key /\ acc.rows[d].owner = contacts[d].owner
          /\ acc.rows[d] = contacts[d] \/ acc.rows[d].key \in Delta(job)
      BY <2>9 DEF ImportAcc
    <3>2. CASE d # c
      BY <3>1, <3>2, <2>4
    <3>3. CASE d = c
      BY <3>1, <3>3, <2>4, <2>5, <1>2
    <3> QED BY <3>2, <3>3
  <2>10. ASSUME NEW d \in DOMAIN out.rows \ DOMAIN contacts
         PROVE  d > created /\ out.rows[d].key \in Delta(job) /\ out.rows[d].key \notin job.tombs
    <3>1. CASE d \in DOMAIN acc.rows
      <4>1. d > created /\ acc.rows[d].key \in Delta(job) /\ acc.rows[d].key \notin job.tombs
        BY <2>10, <3>1 DEF ImportAcc
      <4> QED BY <4>1, <3>1, <2>4, <2>2, <1>2
    <3>2. CASE d \notin DOMAIN acc.rows
      <4>1. d = c /\ d = acc.made + 1
        BY <2>4, <2>5, <2>10, <3>2
      <4>2. d > created
        BY <4>1, <2>2
      <4> QED BY <4>1, <4>2, <2>4, <2>2, <1>2
    <3> QED BY <3>1, <3>2
  <2>11. /\ acc.conflicts \subseteq out.conflicts /\ out.conflicts \subseteq Conflict
         /\ \A x \in out.conflicts \ acc.conflicts : x.post = p
         /\ out.rows[c].dropped => Listed(out.conflicts, p)
    <3>1. acc.conflicts \subseteq Conflict
      BY DEF ImportAcc
    <3>2. CASE out.rows[c].dropped
      <4>1. out.conflicts = Recorded(acc.conflicts, DuplicateConflict(p, job.posts[p].email))
        BY <2>3, <3>2 DEF Wrote
      <4> QED BY <4>1, <3>1, <3>2, <2>2, <2>4, RecordedIs
    <3>3. CASE ~out.rows[c].dropped
      <4>1. out.conflicts = acc.conflicts
        BY <2>3, <3>3 DEF Wrote
      <4> QED BY <4>1, <3>1, <3>3
    <3> QED BY <3>2, <3>3
  <2>12. /\ conflicts \subseteq out.conflicts
         /\ \A x \in out.conflicts \ conflicts : x.post \notin job.tombs
    BY <2>11, <2>2 DEF ImportAcc
  <2>13. ASSUME NEW d \in DOMAIN out.rows, out.rows[d].dropped
         PROVE  \/ d \in DOMAIN contacts /\ contacts[d].dropped
                \/ Listed(out.conflicts, out.rows[d].key)
    <3>1. CASE d = c
      BY <3>1, <2>4, <2>11, <2>13
    <3>2. CASE d # c
      <4>1. d \in DOMAIN acc.rows /\ out.rows[d] = acc.rows[d]
        BY <3>2, <2>4, <2>13
      <4>2. \/ d \in DOMAIN contacts /\ contacts[d].dropped
            \/ Listed(acc.conflicts, acc.rows[d].key)
        BY <4>1, <2>13 DEF ImportAcc
      <4> QED BY <4>1, <4>2, <2>11 DEF Listed
    <3> QED BY <3>1, <3>2
  <2>14. ASSUME NEW q \in Delta(job), q <= p, ~Skips(job, q)
         PROVE  \E d \in DOMAIN out.rows :
                  out.rows[d].key = q /\ out.rows[d].content = job.posts[q].stamp
    <3>1. CASE q = p
      BY <3>1, <2>4
    <3>2. CASE q # p
      <4>1. q <= n
        BY <1>0, <2>14, <3>2, <2>n
      <4>2. PICK d \in DOMAIN acc.rows : acc.rows[d].key = q /\ acc.rows[d].content = job.posts[q].stamp
        BY <4>1, <2>14 DEF ImportAcc
      <4>3. d # c
        BY <4>2, <3>2, <2>5
      <4> QED BY <4>2, <4>3, <2>4
    <3> QED BY <3>1, <3>2
  <2>15. ImportAcc(job, out, p)
    BY <2>4, <2>6, <2>7, <2>8, <2>9, <2>10, <2>11, <2>12, <2>13, <2>14 DEF ImportAcc
  <2> QED BY <2>1, <2>15 DEF p
<1> QED BY <1>1, <1>2

LEMMA ImportMakes ==
  ASSUME NEW job, created \in Nat, RowsOK(contacts, created), Unique(contacts),
         conflicts \subseteq Conflict, DOMAIN job.emailOwner \subseteq Emails,
         DOMAIN job.posts \subseteq Posts, \A p \in DOMAIN job.posts : job.posts[p] \in Post
  PROVE  ImportAcc(job, ImportedContacts(job), LastPost)
<1>1. PICK f : /\ f[0] = Loaded(job)
               /\ \A p \in 1 .. LastPost : f[p] = AfterPost(job, f[p - 1], p)
               /\ ImportedContacts(job) = f[LastPost]
  BY ImportIsStepwise
<1> DEFINE Good == {n \in Nat : n <= LastPost => ImportAcc(job, f[n], n)}
<1>2. 0 \in Good
  <2> DEFINE acc == Loaded(job)
  <2>1. /\ acc.rows = contacts /\ acc.made = created /\ acc.emailOwner = job.emailOwner
        /\ acc.conflicts = conflicts
    BY DEF Loaded
  <2>2. \A q \in Delta(job) : ~(q <= 0)
    <3>1. \A q \in Delta(job) : q \in Posts
      BY DEF Delta
    <3>2. \A q \in Posts : q \in Nat /\ q # 0
      BY ImportAssumption
    <3> HIDE DEF acc, Good
    <3> QED BY <3>1, <3>2
  <2> HIDE DEF acc
  <2>3. ImportAcc(job, acc, 0)
    BY <2>1, <2>2 DEF ImportAcc
  <2> QED BY <1>1, <2>3 DEF acc
<1>3. ASSUME NEW n \in Nat, n \in Good PROVE n + 1 \in Good
  <2>1. n + 1 \in Nat
    OBVIOUS
  <2> SUFFICES ASSUME n + 1 <= LastPost PROVE ImportAcc(job, f[n + 1], n + 1)
    <3> HIDE DEF Good
    <3> QED BY <2>1 DEF Good
  <2>2. n <= LastPost /\ n + 1 \in 1 .. LastPost /\ (n + 1) - 1 = n
    BY LastPostIsLast
  <2>3. f[n + 1] = AfterPost(job, f[n], n + 1)
    BY <1>1, <2>2
  <2>4. ImportAcc(job, f[n], n)
    BY <1>3, <2>2
  <2> QED BY <2>3, <2>4, NextPost
<1>4. LastPost \in Good
  <2> HIDE DEF Good
  <2> QED BY <1>2, <1>3, AllNumbers, LastPostIsLast
<1> QED BY <1>1, <1>4, LastPostIsLast

-----------------------------------------------------------------------------
(* One plan of a merge *)

Applied(acc, out, pl) ==
  /\ pl.target \in DOMAIN acc.rows
  /\ Unique(out.rows)
  /\ DOMAIN out.rows = (DOMAIN acc.rows \ {pl.loser}) \cup {pl.target}
  /\ \A d \in DOMAIN out.rows : d # pl.target => out.rows[d] = acc.rows[d]
  /\ out.rows[pl.target] \in Contact /\ out.rows[pl.target].key = pl.post
  /\ acc.rows[pl.target].owner = "staff" => out.rows[pl.target].owner = "staff"
  /\ DOMAIN out.children \subseteq DOMAIN acc.children \cup Interests
  /\ \A x \in DOMAIN out.children : out.children[x] \in DOMAIN out.rows
  /\ \A x \in DOMAIN acc.children \cap Comments :
       acc.children[x] \in DOMAIN acc.rows => x \in DOMAIN out.children
  /\ out.conflicts \subseteq acc.conflicts
  /\ \A x \in acc.conflicts \ out.conflicts : x.post = pl.post
  /\ out.merged = acc.merged \cup ({pl.post, acc.rows[pl.target].key} \ {None})

(* A comment of the loser moves to the target, any other stays. *)
LEMMA MovedIs ==
  ASSUME NEW kids, NEW pl
  PROVE  LET out == Moved(kids, pl) IN
         /\ DOMAIN kids \subseteq DOMAIN out /\ DOMAIN out \subseteq DOMAIN kids \cup Interests
         /\ \A x \in DOMAIN kids \cap Comments :
              out[x] = IF kids[x] = pl.loser THEN pl.target ELSE kids[x]
<1> DEFINE has == Fpgs(kids, pl.target)
           moves(x) == kids[x] = pl.loser /\ (x \in Interests => FpgOf[x] \notin has)
           repointed == [x \in DOMAIN kids |-> IF moves(x) THEN pl.target ELSE kids[x]]
           added == {i \in Interests \ DOMAIN kids :
                       PostOf[i] = pl.post /\ FpgOf[i] \notin Fpgs(repointed, pl.target)}
           out == [x \in DOMAIN kids \cup added |-> IF x \in added THEN pl.target ELSE repointed[x]]
<1>1. Moved(kids, pl) = out
  BY DEF Moved
<1>2. added \subseteq Interests /\ added \cap DOMAIN kids = {}
  OBVIOUS
<1> HIDE DEF added
<1>3. DOMAIN kids \subseteq DOMAIN out /\ DOMAIN out \subseteq DOMAIN kids \cup Interests
  BY <1>2
<1>4. ASSUME NEW x \in DOMAIN kids \cap Comments
      PROVE  out[x] = IF kids[x] = pl.loser THEN pl.target ELSE kids[x]
  <2>1. x \notin Interests
    BY ImportAssumption
  <2>2. out[x] = repointed[x]
    BY <1>2
  <2>3. repointed[x] = IF moves(x) THEN pl.target ELSE kids[x]
    OBVIOUS
  <2> QED BY <2>1, <2>2, <2>3
<1> QED BY <1>1, <1>3, <1>4

LEMMA PlanIsApplied ==
  ASSUME NEW acc, NEW pl, NEW n, PlanOK(pl, n), \A c \in DOMAIN acc.rows : acc.rows[c] \in Contact
  PROVE  ApplyPlan(acc, pl) = acc \/ Applied(acc, ApplyPlan(acc, pl), pl)
<1> DEFINE mine == acc.rows[pl.target]
           row == [key |-> pl.post, email |-> mine.email, content |-> pl.content,
                   owner |-> MergedOwner(acc.rows, pl), dropped |-> mine.dropped]
           rows == With(DropLoser(acc.rows, pl), pl.target, row)
           kids == Moved(acc.children, pl)
           out == [rows |-> rows,
                   children |-> Without(kids, {x \in DOMAIN kids : kids[x] \notin DOMAIN rows}),
                   conflicts |-> {x \in acc.conflicts :
                                    ~(x.type = "duplicate_email" /\ x.post = pl.post)},
                   merged |-> acc.merged \cup ({pl.post, mine.key} \ {None})]
           other == With(Without(acc.rows, {pl.loser}), pl.target, row)
<1>1. ApplyPlan(acc, pl) = IF pl.target \notin DOMAIN acc.rows \/ ~Unique(other) THEN acc ELSE out
  BY DEF ApplyPlan
<1> SUFFICES ASSUME pl.target \in DOMAIN acc.rows, Unique(other)
             PROVE  Applied(acc, out, pl)
  <2> HIDE DEF other, out
  <2> QED BY <1>1
<1>2. mine \in Contact
  OBVIOUS
<1>3. row.key = pl.post /\ row.owner = MergedOwner(acc.rows, pl)
  OBVIOUS
<1>4. /\ MergedOwner(acc.rows, pl) \in {"none", "dt_import", "staff"}
      /\ mine.owner = "staff" => MergedOwner(acc.rows, pl) = "staff"
  <2>1. mine.owner \in {"none", "dt_import", "staff"}
    BY <1>2 DEF Contact
  <2> QED BY <2>1 DEF MergedOwner
<1>5. row \in Contact
  <2> DEFINE ow == MergedOwner(acc.rows, pl)
             em == mine.email
             dr == mine.dropped
  <2>1. ow \in {"none", "dt_import", "staff"} /\ em \in Emails \cup {None} /\ dr \in BOOLEAN
    BY <1>2, <1>4 DEF Contact
  <2> HIDE DEF ow, em, dr
  <2>2. [key |-> pl.post, email |-> em, content |-> pl.content, owner |-> ow, dropped |-> dr] \in Contact
    BY <2>1 DEF Contact, PlanOK
  <2> QED BY <2>2 DEF ow, em, dr
<1> HIDE DEF row
<1>6. /\ DOMAIN rows = (DOMAIN acc.rows \ {pl.loser}) \cup {pl.target}
      /\ rows[pl.target] = row
      /\ \A d \in DOMAIN rows : d # pl.target => rows[d] = acc.rows[d]
  <2>1. DOMAIN DropLoser(acc.rows, pl) = DOMAIN acc.rows \ ({pl.loser} \ {pl.target})
    BY DEF DropLoser, Without
  <2>2. \A d \in DOMAIN DropLoser(acc.rows, pl) : DropLoser(acc.rows, pl)[d] = acc.rows[d]
    BY DEF DropLoser, Without
  <2>3. DOMAIN rows = DOMAIN DropLoser(acc.rows, pl) \cup {pl.target}
    BY DEF With
  <2>4. rows[pl.target] = row
    BY DEF With
  <2>5. \A d \in DOMAIN rows : d # pl.target => rows[d] = DropLoser(acc.rows, pl)[d]
    BY DEF With
  <2> HIDE DEF rows
  <2> QED BY <2>1, <2>2, <2>3, <2>4, <2>5
<1>7. Unique(rows)
  <2>1. DOMAIN other = (DOMAIN acc.rows \ {pl.loser}) \cup {pl.target}
    BY DEF With, Without
  <2>2. other[pl.target] = row
    BY DEF With
  <2>3. \A d \in DOMAIN other : d # pl.target => other[d] = acc.rows[d]
    BY DEF With, Without
  <2> HIDE DEF rows, other
  <2>4. DOMAIN rows = DOMAIN other /\ \A d \in DOMAIN rows : rows[d] = other[d]
    BY <1>6, <2>1, <2>2, <2>3
  <2>5. \A p : WithKey(rows, p) = WithKey(other, p)
    BY <2>4 DEF WithKey
  <2>6. \A e : WithEmail(rows, e) = WithEmail(other, e)
    BY <2>4 DEF WithEmail
  <2> QED BY <2>5, <2>6 DEF Unique
<1> HIDE DEF rows, other
<1>8. /\ DOMAIN acc.children \subseteq DOMAIN kids /\ DOMAIN kids \subseteq DOMAIN acc.children \cup Interests
      /\ \A x \in DOMAIN acc.children \cap Comments :
           kids[x] = IF acc.children[x] = pl.loser THEN pl.target ELSE acc.children[x]
  BY MovedIs
<1> HIDE DEF kids
<1>9. /\ DOMAIN out.children = {x \in DOMAIN kids : kids[x] \in DOMAIN rows}
      /\ \A x \in DOMAIN out.children : out.children[x] = kids[x]
  <2> DEFINE gone == {x \in DOMAIN kids : kids[x] \notin DOMAIN rows}
  <2>1. out.children = Without(kids, gone)
    OBVIOUS
  <2>2. DOMAIN kids \ gone = {x \in DOMAIN kids : kids[x] \in DOMAIN rows}
    OBVIOUS
  <2> HIDE DEF gone, out
  <2> QED BY <2>1, <2>2 DEF Without
<1>10. ASSUME NEW x \in DOMAIN acc.children \cap Comments, acc.children[x] \in DOMAIN acc.rows
       PROVE  x \in DOMAIN out.children
  <2>1. x \in DOMAIN kids
    BY <1>8
  <2>2. kids[x] \in DOMAIN rows
    BY <1>6, <1>8, <1>10
  <2> QED BY <1>9, <2>1, <2>2
<1>11. /\ out.rows = rows
       /\ out.merged = acc.merged \cup ({pl.post, mine.key} \ {None})
       /\ out.conflicts = {x \in acc.conflicts : ~(x.type = "duplicate_email" /\ x.post = pl.post)}
  OBVIOUS
<1> HIDE DEF out
<1>12. out.conflicts \subseteq acc.conflicts /\ \A x \in acc.conflicts \ out.conflicts : x.post = pl.post
  BY <1>11
<1> QED BY <1>3, <1>4, <1>5, <1>6, <1>7, <1>8, <1>9, <1>10, <1>11, <1>12 DEF Applied

ChildrenOK(kids, rows) ==
  /\ DOMAIN kids \subseteq Comments \cup Interests
  /\ \A x \in DOMAIN kids : kids[x] \in DOMAIN rows

(* The contact a plan deletes has the plan's key, or one that took part in a merge. *)
LoserOK(pl, rows, done) == pl.loser \in DOMAIN rows => rows[pl.loser].key \in {pl.post} \cup done

(* What the merge has made, some plans on, of the rows it began with. *)
MergeAcc(plans, acc) ==
  /\ RowsOK(acc.rows, created) /\ Unique(acc.rows) /\ DOMAIN acc.rows \subseteq DOMAIN contacts
  /\ ChildrenOK(acc.children, acc.rows)
  /\ DOMAIN children \cap Comments \subseteq DOMAIN acc.children
  /\ acc.conflicts \subseteq conflicts
  /\ \A x \in conflicts \ acc.conflicts : x.post \in acc.merged
  /\ merged \subseteq acc.merged /\ acc.merged \subseteq Posts
  /\ \A c \in DOMAIN acc.rows :
       /\ contacts[c].owner = "staff" => acc.rows[c].owner = "staff"
       /\ \/ acc.rows[c] = contacts[c]
          \/ /\ acc.rows[c].key \in acc.merged
             /\ \E pl \in plans : acc.rows[c].key = pl.post
  /\ (\A pl \in plans : LoserOK(pl, contacts, merged)) =>
       \A c \in DOMAIN contacts :
         /\ \/ c \in DOMAIN acc.rows /\ acc.rows[c] = contacts[c]
            \/ contacts[c].key \in acc.merged \cup {None}
         /\ c \notin DOMAIN acc.rows => contacts[c].key \in acc.merged

LEMMA NextPlan ==
  ASSUME NEW plans, NEW acc, NEW pl \in plans, PlanOK(pl, created), MergeAcc(plans, acc)
  PROVE  MergeAcc(plans, ApplyPlan(acc, pl))
<1> DEFINE out == ApplyPlan(acc, pl)
<1>1. \A c \in DOMAIN acc.rows : acc.rows[c] \in Contact
  BY DEF MergeAcc, RowsOK
<1>2. out = acc \/ Applied(acc, out, pl)
  BY <1>1, PlanIsApplied
<1> HIDE DEF out
<1> SUFFICES ASSUME Applied(acc, out, pl) PROVE MergeAcc(plans, out)
  BY <1>2 DEF out
<1>3. /\ pl.target \in DOMAIN acc.rows
      /\ Unique(out.rows)
      /\ DOMAIN out.rows = (DOMAIN acc.rows \ {pl.loser}) \cup {pl.target}
      /\ \A d \in DOMAIN out.rows : d # pl.target => out.rows[d] = acc.rows[d]
      /\ out.rows[pl.target] \in Contact /\ out.rows[pl.target].key = pl.post
      /\ acc.rows[pl.target].owner = "staff" => out.rows[pl.target].owner = "staff"
      /\ out.merged = acc.merged \cup ({pl.post, acc.rows[pl.target].key} \ {None})
  BY DEF Applied
<1>4. pl.post \in Posts /\ pl.post # None
  BY ImportAssumption DEF PlanOK, None
<1>5. DOMAIN out.rows \subseteq DOMAIN acc.rows /\ DOMAIN acc.rows \subseteq DOMAIN contacts
  BY <1>3 DEF MergeAcc
<1>6. RowsOK(out.rows, created)
  <2>1. \A d \in DOMAIN out.rows : out.rows[d] \in Contact
    BY <1>1, <1>3
  <2>2. DOMAIN acc.rows \subseteq 1 .. created
    BY DEF MergeAcc, RowsOK
  <2> QED BY <1>5, <2>1, <2>2 DEF RowsOK
<1>7. ChildrenOK(out.children, out.rows)
  BY DEF Applied, MergeAcc, ChildrenOK
<1>8. DOMAIN children \cap Comments \subseteq DOMAIN out.children
  BY DEF Applied, MergeAcc, ChildrenOK
<1>9. acc.merged \subseteq out.merged /\ pl.post \in out.merged
  BY <1>3, <1>4
<1>10. /\ out.conflicts \subseteq conflicts
       /\ \A x \in conflicts \ out.conflicts : x.post \in out.merged
  <2>1. out.conflicts \subseteq acc.conflicts /\ \A x \in acc.conflicts \ out.conflicts : x.post = pl.post
    BY DEF Applied
  <2>2. acc.conflicts \subseteq conflicts /\ \A x \in conflicts \ acc.conflicts : x.post \in acc.merged
    BY DEF MergeAcc
  <2> QED BY <1>9, <2>1, <2>2
<1>11. merged \subseteq out.merged /\ out.merged \subseteq Posts
  <2>1. acc.rows[pl.target].key \in Posts \cup {None}
    BY <1>1, <1>3 DEF Contact
  <2>2. merged \subseteq acc.merged /\ acc.merged \subseteq Posts
    BY DEF MergeAcc
  <2> QED BY <1>3, <1>4, <2>1, <2>2
<1>12. ASSUME NEW c \in DOMAIN out.rows
       PROVE  /\ contacts[c].owner = "staff" => out.rows[c].owner = "staff"
              /\ \/ out.rows[c] = contacts[c]
                 \/ /\ out.rows[c].key \in out.merged
                    /\ \E x \in plans : out.rows[c].key = x.post
  <2>1. /\ contacts[c].owner = "staff" => acc.rows[c].owner = "staff"
        /\ \/ acc.rows[c] = contacts[c]
           \/ /\ acc.rows[c].key \in acc.merged
              /\ \E x \in plans : acc.rows[c].key = x.post
    BY <1>5 DEF MergeAcc
  <2>2. CASE c = pl.target
    BY <1>3, <1>9, <2>1, <2>2
  <2>3. CASE c # pl.target
    BY <1>3, <1>9, <2>1, <2>3
  <2> QED BY <2>2, <2>3
<1>13. ASSUME \A x \in plans : LoserOK(x, contacts, merged), NEW c \in DOMAIN contacts
       PROVE  \/ c \in DOMAIN out.rows /\ out.rows[c] = contacts[c]
              \/ contacts[c].key \in out.merged \cup {None}
  <2>1. \/ c \in DOMAIN acc.rows /\ acc.rows[c] = contacts[c]
        \/ contacts[c].key \in acc.merged \cup {None}
    BY <1>13 DEF MergeAcc
  <2>2. CASE contacts[c].key \in acc.merged \cup {None}
    BY <1>9, <2>2
  <2>3. CASE c \in DOMAIN acc.rows /\ acc.rows[c] = contacts[c]
    <3>1. CASE c = pl.target
      BY <1>3, <2>3, <3>1
    <3>2. CASE c # pl.target /\ c = pl.loser
      <4>1. contacts[c].key \in {pl.post} \cup merged
        BY <1>13, <3>2 DEF LoserOK
      <4> QED BY <1>9, <1>11, <4>1
    <3>3. CASE c # pl.target /\ c # pl.loser
      BY <1>3, <2>3, <3>3
    <3> QED BY <3>1, <3>2, <3>3
  <2> QED BY <2>1, <2>2, <2>3
<1>14. ASSUME \A x \in plans : LoserOK(x, contacts, merged),
              NEW c \in DOMAIN contacts, c \notin DOMAIN out.rows
       PROVE  contacts[c].key \in out.merged
  <2>1. CASE c \in DOMAIN acc.rows
    <3>1. c = pl.loser
      BY <1>3, <1>14, <2>1
    <3>2. contacts[c].key \in {pl.post} \cup merged
      BY <1>14, <3>1 DEF LoserOK
    <3> QED BY <1>9, <1>11, <3>2
  <2>2. CASE c \notin DOMAIN acc.rows
    <3>1. contacts[c].key \in acc.merged
      BY <1>14, <2>2 DEF MergeAcc
    <3> QED BY <1>9, <3>1
  <2> QED BY <2>1, <2>2
<1> QED BY <1>3, <1>5, <1>6, <1>7, <1>8, <1>10, <1>11, <1>12, <1>13, <1>14 DEF MergeAcc

LEMMA MergeMakes ==
  ASSUME NEW plans, RowsOK(contacts, created), Unique(contacts), ChildrenOK(children, contacts),
         merged \subseteq Posts, \A pl \in plans : PlanOK(pl, created)
  PROVE  MergeAcc(plans, Merged(plans))
<1>1. PICK f : /\ f[0] = NotMerged
               /\ \A p \in 1 .. LastPost : f[p] = AfterPlan(plans, f[p - 1], p)
               /\ Merged(plans) = f[LastPost]
  BY MergeIsStepwise
<1> DEFINE Good == {n \in Nat : n <= LastPost => MergeAcc(plans, f[n])}
<1>2. 0 \in Good
  <2> DEFINE acc == NotMerged
  <2>1. /\ acc.rows = contacts /\ acc.children = children /\ acc.conflicts = conflicts
        /\ acc.merged = merged
    BY DEF NotMerged
  <2> HIDE DEF acc
  <2>2. MergeAcc(plans, acc)
    BY <2>1 DEF MergeAcc, ChildrenOK
  <2> QED BY <1>1, <2>2 DEF acc
<1>3. ASSUME NEW n \in Nat, n \in Good PROVE n + 1 \in Good
  <2>1. n + 1 \in Nat
    OBVIOUS
  <2> SUFFICES ASSUME n + 1 <= LastPost PROVE MergeAcc(plans, f[n + 1])
    <3> HIDE DEF Good
    <3> QED BY <2>1 DEF Good
  <2>2. n <= LastPost /\ n + 1 \in 1 .. LastPost /\ (n + 1) - 1 = n
    BY LastPostIsLast
  <2>3. f[n + 1] = AfterPlan(plans, f[n], n + 1)
    BY <1>1, <2>2
  <2>4. MergeAcc(plans, f[n])
    BY <1>3, <2>2
  <2>5. CASE {x \in plans : x.post = n + 1} = {}
    BY <2>3, <2>4, <2>5 DEF AfterPlan
  <2>6. CASE {x \in plans : x.post = n + 1} # {}
    <3>1. PlanFor(plans, n + 1) \in plans
      BY <2>6 DEF PlanFor
    <3>2. AfterPlan(plans, f[n], n + 1) = ApplyPlan(f[n], PlanFor(plans, n + 1))
      BY <2>6 DEF AfterPlan
    <3> QED BY <2>3, <2>4, <3>1, <3>2, NextPlan
  <2> QED BY <2>5, <2>6
<1>4. LastPost \in Good
  <2> HIDE DEF Good
  <2> QED BY <1>2, <1>3, AllNumbers, LastPostIsLast
<1> QED BY <1>1, <1>4, LastPostIsLast

-----------------------------------------------------------------------------
(* Types *)

StateOK ==
  /\ clock \in 0 .. MaxClock /\ PostsOK(posts, clock) /\ CommentsOK(comments, clock)
  /\ created \in 0 .. MaxContacts /\ RowsOK(contacts, created) /\ Unique(contacts)
  /\ ChildrenOK(children, contacts)
  /\ conflicts \subseteq Conflict /\ keeper \in [Emails -> Posts \cup {None}]
  /\ tombs \subseteq Posts /\ tombEmails \subseteq Emails /\ swept \subseteq Posts
  /\ DOMAIN high = {"contacts", "activity_log"} /\ \A t \in DOMAIN high : high[t] \in 0 .. clock
  /\ requests \in 0 .. MaxRequests /\ runs \in 0 .. MaxRuns
  /\ overlapped \subseteq Posts /\ merged \subseteq Posts

JobsOK ==
  DOMAIN jobs = Jobs /\ \A j \in Jobs : JobOK(jobs[j], clock, created, tombs, tombEmails)

TypeInv == StateOK /\ JobsOK

LEMMA TypeInvIsTypeOK == TypeInv => TypeOK
<1> SUFFICES ASSUME TypeInv PROVE TypeOK
  OBVIOUS
<1>1. MaxClock \in Nat /\ MaxContacts \in Nat
  BY ImportAssumption
<1>2. \A t \in DOMAIN high : high[t] \in Stamps \cup {None}
  BY <1>1 DEF TypeInv, StateOK, Stamps, None
<1> QED BY <1>1, <1>2 DEF TypeInv, StateOK, TypeOK, PostsOK, CommentsOK, RowsOK, ChildrenOK

LEMMA JobOKLater ==
  ASSUME NEW job, NEW t \in Nat, NEW made \in Nat, NEW tb, NEW te, JobOK(job, t, made, tb, te),
         NEW t2 \in Nat, NEW made2 \in Nat, NEW tb2, NEW te2,
         t <= t2, made <= made2, tb \subseteq tb2, te \subseteq te2
  PROVE  JobOK(job, t2, made2, tb2, te2)
<1>1. 0 .. t \subseteq 0 .. t2 /\ 0 .. made \subseteq 0 .. made2
  OBVIOUS
<1>2. \A x \in Nat : x <= t => x <= t2
  OBVIOUS
<1>3. InImport(job) => PostsOK(job.posts, t2) /\ CommentsOK(job.comments, t2)
  <2>1. Stamps \subseteq Nat
    BY ImportAssumption DEF Stamps
  <2>2. ASSUME NEW ps, PostsOK(ps, t) PROVE PostsOK(ps, t2)
    <3>1. \A p \in DOMAIN ps : ps[p].stamp \in Nat
      BY <2>1, <2>2 DEF PostsOK, Post
    <3> QED BY <1>2, <2>2, <3>1 DEF PostsOK
  <2>3. ASSUME NEW cs, CommentsOK(cs, t) PROVE CommentsOK(cs, t2)
    BY <1>2, <2>1, <2>3 DEF CommentsOK
  <2> QED BY <2>2, <2>3 DEF JobOK
<1>4. job.pc = "merge" => \A pl \in job.plans : PlanOK(pl, made2)
  BY <1>1 DEF JobOK, PlanOK
<1> QED BY <1>1, <1>3, <1>4 DEF JobOK

(* The jobs after a step that changes at most job j. *)
LEMMA JobsOKLater ==
  ASSUME TypeInv, StateOK', DOMAIN jobs' = Jobs,
         clock <= clock', created <= created', tombs \subseteq tombs', tombEmails \subseteq tombEmails',
         \A i \in Jobs : jobs'[i] = jobs[i] \/ JobOK(jobs'[i], clock', created', tombs', tombEmails')
  PROVE  TypeInv'
<1>1. clock \in Nat /\ clock' \in Nat /\ created \in Nat /\ created' \in Nat
  BY ImportAssumption DEF TypeInv, StateOK
<1>2. PICK t2, m2, tb2, te2 : t2 = clock' /\ m2 = created' /\ tb2 = tombs' /\ te2 = tombEmails'
  OBVIOUS
<1>3. ASSUME NEW i \in Jobs PROVE JobOK(jobs'[i], t2, m2, tb2, te2)
  <2>1. PICK job : job = jobs'[i]
    OBVIOUS
  <2>2. job = jobs[i] \/ JobOK(job, t2, m2, tb2, te2)
    BY <1>2, <2>1
  <2>3. JobOK(jobs[i], clock, created, tombs, tombEmails)
    BY DEF TypeInv, JobsOK
  <2>4. CASE job = jobs[i]
    <3>1. JobOK(job, clock, created, tombs, tombEmails)
      BY <2>3, <2>4
    <3> QED BY <1>1, <1>2, <2>1, <3>1, JobOKLater
  <2> QED BY <2>1, <2>2, <2>4
<1> QED BY <1>2, <1>3 DEF TypeInv, JobsOK

LEMMA SameKeys ==
  ASSUME NEW new, NEW old, DOMAIN new = DOMAIN old, Unique(old),
         \A c \in DOMAIN old : new[c].key = old[c].key /\ new[c].email = old[c].email
  PROVE  Unique(new)
<1>1. \A p : WithKey(new, p) = WithKey(old, p)
  BY DEF WithKey
<1>2. \A e : WithEmail(new, e) = WithEmail(old, e)
  BY DEF WithEmail
<1> QED BY <1>1, <1>2 DEF Unique

LEMMA ContentChange ==
  ASSUME NEW r \in Contact, NEW v \in {Edited, DoNotEngage}
  PROVE  /\ [r EXCEPT !.content = v] \in Contact /\ [r EXCEPT !.content = v].content = v
         /\ [r EXCEPT !.content = v].key = r.key /\ [r EXCEPT !.content = v].email = r.email
         /\ [r EXCEPT !.content = v].dropped = r.dropped /\ [r EXCEPT !.content = v].owner = r.owner
BY DEF Contact

LEMMA OwnerChange ==
  ASSUME NEW r \in Contact, NEW o \in {"none", "dt_import", "staff"}
  PROVE  /\ [r EXCEPT !.owner = o] \in Contact /\ [r EXCEPT !.owner = o].content = r.content
         /\ [r EXCEPT !.owner = o].key = r.key /\ [r EXCEPT !.owner = o].email = r.email
         /\ [r EXCEPT !.owner = o].owner = o /\ [r EXCEPT !.owner = o].dropped = r.dropped
BY DEF Contact

(* The rows of old with other owners, or other content left by staff. *)
SameRows(new, old) ==
  /\ DOMAIN new = DOMAIN old
  /\ \A c \in DOMAIN old :
       /\ new[c] \in Contact /\ new[c].key = old[c].key /\ new[c].email = old[c].email
       /\ new[c].dropped = old[c].dropped
       /\ new[c].content = old[c].content \/ new[c].content \in {Edited, DoNotEngage}

LEMMA EditIsSame ==
  ASSUME StateOK, NEW c \in DOMAIN contacts, EditContact(c)
  PROVE  SameRows(contacts', contacts)
<1>1. PICK v \in {Edited, DoNotEngage} : contacts' = [contacts EXCEPT ![c].content = v]
  BY DEF EditContact
<1>2. \A d \in DOMAIN contacts : contacts[d] \in Contact
  BY DEF StateOK, RowsOK
<1>3. \A d \in DOMAIN contacts : contacts'[d] = IF d = c THEN [contacts[d] EXCEPT !.content = v] ELSE contacts[d]
  BY <1>1
<1>4. DOMAIN contacts' = DOMAIN contacts
  BY <1>1
<1>5. ASSUME NEW d \in DOMAIN contacts
      PROVE  /\ contacts'[d] \in Contact /\ contacts'[d].key = contacts[d].key
             /\ contacts'[d].email = contacts[d].email /\ contacts'[d].dropped = contacts[d].dropped
             /\ contacts'[d].content = contacts[d].content \/ contacts'[d].content \in {Edited, DoNotEngage}
  <2>1. CASE d = c
    <3>1. contacts'[d] = [contacts[d] EXCEPT !.content = v] /\ contacts[d] \in Contact
      BY <1>2, <1>3, <2>1
    <3>2. /\ contacts'[d] \in Contact /\ contacts'[d].key = contacts[d].key
          /\ contacts'[d].email = contacts[d].email /\ contacts'[d].dropped = contacts[d].dropped
          /\ contacts'[d].content = v
      <4>1. PICK r \in Contact : r = contacts[d]
        BY <3>1
      <4>2. contacts'[d] = [r EXCEPT !.content = v]
        BY <3>1, <4>1
      <4>3. LET x == [r EXCEPT !.content = v] IN
              x \in Contact /\ x.content = v /\ x.key = r.key /\ x.email = r.email /\ x.dropped = r.dropped
        BY ContentChange
      <4> QED BY <4>1, <4>2, <4>3
    <3> QED BY <3>2
  <2>2. CASE d # c
    BY <1>2, <1>3, <2>2
  <2> QED BY <2>1, <2>2
<1> QED BY <1>4, <1>5 DEF SameRows

LEMMA OwnersAreSame ==
  ASSUME StateOK, NEW S, NEW o \in {"none", "dt_import", "staff"},
         contacts' = [c \in DOMAIN contacts |->
                        IF c \in S THEN [contacts[c] EXCEPT !.owner = o] ELSE contacts[c]]
  PROVE  SameRows(contacts', contacts)
<1>2. \A d \in DOMAIN contacts : contacts[d] \in Contact
  BY DEF StateOK, RowsOK
<1>3. \A d \in DOMAIN contacts : contacts'[d] = IF d \in S THEN [contacts[d] EXCEPT !.owner = o] ELSE contacts[d]
  OBVIOUS
<1>4. DOMAIN contacts' = DOMAIN contacts
  OBVIOUS
<1>5. ASSUME NEW r \in Contact
      PROVE  LET x == [r EXCEPT !.owner = o] IN
             x \in Contact /\ x.content = r.content /\ x.key = r.key /\ x.email = r.email /\ x.dropped = r.dropped
  BY OwnerChange
<1> QED BY <1>2, <1>3, <1>4, <1>5 DEF SameRows

LEMMA AssignIsSame ==
  ASSUME StateOK, NEW c \in DOMAIN contacts, AssignContact(c)
  PROVE  SameRows(contacts', contacts)
<1>1. PICK o \in {"staff", "none"} : contacts' = [contacts EXCEPT ![c].owner = o]
  BY DEF AssignContact
<1>2. contacts' = [d \in DOMAIN contacts |->
                     IF d \in {c} THEN [contacts[d] EXCEPT !.owner = o] ELSE contacts[d]]
  BY <1>1
<1> QED BY <1>2, OwnersAreSame

LEMMA AssignmentsAreSame ==
  ASSUME StateOK, NEW j \in Jobs, WriteAssignments(j)
  PROVE  SameRows(contacts', contacts)
<1>1. PICK S : contacts' = [c \in DOMAIN contacts |->
                 IF \E p \in S : jobs[j].contactOf[p] = c
                 THEN [contacts[c] EXCEPT !.owner = "dt_import"] ELSE contacts[c]]
  BY DEF WriteAssignments
<1> DEFINE T == {c \in DOMAIN contacts : \E p \in S : jobs[j].contactOf[p] = c}
<1>2. contacts' = [c \in DOMAIN contacts |->
                 IF c \in T THEN [contacts[c] EXCEPT !.owner = "dt_import"] ELSE contacts[c]]
  BY <1>1
<1> HIDE DEF T
<1> QED BY <1>2, OwnersAreSame

LEMMA SameRowsAreOK ==
  ASSUME NEW new, NEW old, NEW n, RowsOK(old, n), Unique(old), SameRows(new, old)
  PROVE  RowsOK(new, n) /\ Unique(new)
BY SameKeys DEF SameRows, RowsOK

LEMMA InitTypes == Init => TypeInv
<1> SUFFICES ASSUME Init PROVE TypeInv
  OBVIOUS
<1>1. IsFiniteSet(Posts) /\ Posts \subseteq Nat \ {0} /\ Cardinality(Posts) \in Nat /\ Cardinality(Posts) <= MaxClock
  BY ImportAssumption, FS_CardinalityType
<1>2. MaxClock \in Nat /\ MaxContacts \in Nat /\ MaxRequests \in Nat /\ MaxRuns \in Nat
  BY ImportAssumption
<1>3. ASSUME NEW p \in Posts
      PROVE  /\ posts[p] \in Post /\ posts[p].stamp <= clock
  <2> DEFINE S == {q \in Posts : q <= p}
             n == Cardinality(S)
             em == EmailAtStart[p]
  <2>1. IsFiniteSet(S) /\ n <= Cardinality(Posts)
    BY <1>1, FS_Subset
  <2>2. p \in S
    BY <1>1
  <2>3. n \in Nat /\ n # 0
    BY <2>1, <2>2, FS_CardinalityType, FS_EmptySet
  <2>4. n \in Stamps
    BY <1>1, <1>2, <2>1, <2>3 DEF Stamps
  <2>5. posts[p] = [stamp |-> n, email |-> em, mapped |-> TRUE]
    BY DEF Init
  <2>6. em \in Emails \cup {None}
    BY ImportAssumption
  <2> HIDE DEF n, em
  <2>7. posts[p] \in Post /\ posts[p].stamp = n
    BY <2>4, <2>5, <2>6 DEF Post
  <2> QED BY <2>1, <2>7 DEF Init
<1>4. PostsOK(posts, clock)
  BY <1>3 DEF PostsOK, Init
<1>5. DOMAIN contacts = {} /\ DOMAIN comments = {} /\ DOMAIN children = {}
  BY DEF Init
<1>6. Unique(contacts)
  <2>1. \A p : WithKey(contacts, p) = {}
    BY <1>5 DEF WithKey
  <2>2. \A e : WithEmail(contacts, e) = {}
    BY <1>5 DEF WithEmail
  <2> QED BY <2>1, <2>2, FS_EmptySet DEF Unique
<1>7. StateOK
  <2>1. clock \in 0 .. MaxClock /\ created \in 0 .. MaxContacts /\ requests \in 0 .. MaxRequests /\ runs \in 0 .. MaxRuns
    BY <1>1, <1>2 DEF Init
  <2>2. keeper \in [Emails -> Posts \cup {None}]
    BY DEF Init
  <2>3. DOMAIN high = {"contacts", "activity_log"} /\ \A t \in DOMAIN high : high[t] \in 0 .. clock
    BY <1>1 DEF Init, None
  <2>4. RowsOK(contacts, created) /\ CommentsOK(comments, clock) /\ ChildrenOK(children, contacts)
    BY <1>5 DEF RowsOK, CommentsOK, ChildrenOK
  <2>5. conflicts = {} /\ tombs = {} /\ tombEmails = {} /\ swept = {} /\ overlapped = {} /\ merged = {}
    BY DEF Init
  <2> QED BY <1>4, <1>6, <2>1, <2>2, <2>3, <2>4, <2>5 DEF StateOK
<1>8. JobsOK
  <2>1. DOMAIN jobs = Jobs /\ \A j \in Jobs : jobs[j].pc = "idle"
    BY DEF Init, Idle
  <2> QED BY <2>1 DEF JobsOK, JobOK, Marked, InImport, ImportPcs
<1> QED BY <1>7, <1>8 DEF TypeInv

LEMMA PostsLater ==
  ASSUME NEW ps, NEW t \in Nat, NEW u \in Nat, t <= u, PostsOK(ps, t)
  PROVE  PostsOK(ps, u)
<1>1. \A p \in DOMAIN ps : ps[p].stamp \in Nat
  BY ImportAssumption DEF PostsOK, Post, Stamps
<1> QED BY <1>1 DEF PostsOK

LEMMA CommentsLater ==
  ASSUME NEW cs, NEW t \in Nat, NEW u \in Nat, t <= u, CommentsOK(cs, t)
  PROVE  CommentsOK(cs, u)
<1>1. \A m \in DOMAIN cs : cs[m] \in Nat
  BY ImportAssumption DEF CommentsOK, Stamps
<1> QED BY <1>1 DEF CommentsOK

LEMMA SourceTypes ==
  ASSUME TypeInv, DT
  PROVE  TypeInv'
<1>1. /\ clock' = clock + 1 /\ clock < MaxClock
      /\ UNCHANGED <<contacts, created, children, conflicts, keeper, tombs, tombEmails, swept, high,
                     requests, runs, jobs, overlapped, merged>>
  BY DEF DT, EditPost, RemovePost, AddComment, core
<1>2. clock \in Nat /\ clock' \in Nat /\ clock' \in 0 .. MaxClock /\ clock <= clock' /\ clock' \in Stamps
  BY <1>1, ImportAssumption DEF TypeInv, StateOK, Stamps
<1>3. PostsOK(posts, clock) /\ CommentsOK(comments, clock)
  BY DEF TypeInv, StateOK
<1>4. PICK t \in Nat : t = clock'
  BY <1>2
<1>5. PostsOK(posts, t) /\ CommentsOK(comments, t)
  BY <1>2, <1>3, <1>4, PostsLater, CommentsLater
<1>6. PostsOK(posts', t) /\ CommentsOK(comments', t)
  <2>1. ASSUME NEW p \in Posts, EditPost(p) PROVE PostsOK(posts', t) /\ CommentsOK(comments', t)
    <3>1. PICK v \in Post : posts' = With(posts, p, v) /\ v.stamp = t
      <4>1. PICK e \in Emails \cup {None}, ok \in BOOLEAN :
              posts' = With(posts, p, [stamp |-> clock', email |-> e, mapped |-> ok])
        BY <2>1 DEF EditPost
      <4>2. [stamp |-> t, email |-> e, mapped |-> ok] \in Post
        BY <1>2, <1>4 DEF Post
      <4> QED BY <1>4, <4>1, <4>2
    <3>2. DOMAIN posts' = DOMAIN posts \cup {p} /\ posts'[p] = v
          /\ \A q \in DOMAIN posts : q # p => posts'[q] = posts[q]
      BY <3>1 DEF With
    <3>3. comments' = comments
      BY <2>1 DEF EditPost
    <3> QED BY <1>5, <3>1, <3>2, <3>3 DEF PostsOK, CommentsOK
  <2>2. ASSUME NEW p \in Posts, RemovePost(p) PROVE PostsOK(posts', t) /\ CommentsOK(comments', t)
    <3>1. DOMAIN posts' \subseteq DOMAIN posts /\ \A q \in DOMAIN posts' : posts'[q] = posts[q]
      BY <2>2 DEF RemovePost, Without
    <3>2. comments' = comments
      BY <2>2 DEF RemovePost
    <3> QED BY <1>5, <3>1, <3>2 DEF PostsOK, CommentsOK
  <2>3. ASSUME NEW m \in Comments, AddComment(m) PROVE PostsOK(posts', t) /\ CommentsOK(comments', t)
    <3>1. DOMAIN comments' = DOMAIN comments \cup {m} /\ comments'[m] = t
          /\ \A q \in DOMAIN comments : q # m => comments'[q] = comments[q]
      BY <1>4, <2>3 DEF AddComment, With
    <3>2. posts' = posts
      BY <2>3 DEF AddComment
    <3> QED BY <1>2, <1>4, <1>5, <3>1, <3>2 DEF PostsOK, CommentsOK
  <2> QED BY <2>1, <2>2, <2>3 DEF DT
<1>7. \A x \in DOMAIN high : high'[x] \in 0 .. clock'
  BY <1>1, <1>2 DEF TypeInv, StateOK
<1>8. StateOK'
  BY <1>1, <1>2, <1>4, <1>6, <1>7 DEF TypeInv, StateOK
<1> QED BY <1>1, <1>2, <1>8, JobsOKLater DEF TypeInv, JobsOK, StateOK

LEMMA RequestLeaves ==
  ASSUME TypeInv, Request
  PROVE  /\ UNCHANGED <<clock, posts, comments, swept, high, runs, jobs, merged>>
         /\ requests' \in 0 .. MaxRequests
BY ImportAssumption DEF Request, source, TypeInv, StateOK

LEMMA SameRowsTypes ==
  ASSUME TypeInv, Request, SameRows(contacts', contacts),
         UNCHANGED <<created, children, conflicts, tombs, tombEmails, overlapped, keeper>>
  PROVE  TypeInv'
<1>1. RowsOK(contacts', created) /\ Unique(contacts')
  <2>1. PICK new, old, n : new = contacts' /\ old = contacts /\ n = created
    OBVIOUS
  <2>2. RowsOK(old, n) /\ Unique(old) /\ SameRows(new, old)
    BY <2>1 DEF TypeInv, StateOK
  <2> QED BY <2>1, <2>2, SameRowsAreOK
<1>2. ChildrenOK(children, contacts')
  BY DEF TypeInv, StateOK, ChildrenOK, SameRows
<1>3. StateOK'
  BY <1>1, <1>2, RequestLeaves DEF TypeInv, StateOK
<1> QED BY <1>3, RequestLeaves, JobsOKLater DEF TypeInv, JobsOK, StateOK

LEMMA CreateTypes ==
  ASSUME TypeInv, NEW e \in Emails, CreateContact(e)
  PROVE  TypeInv'
<1>1. created \in Nat /\ created' = created + 1 /\ created' \in 0 .. MaxContacts
  BY ImportAssumption DEF TypeInv, StateOK, CreateContact
<1>2. UNCHANGED <<children, conflicts, tombs, tombEmails, overlapped, keeper>> /\ Request
  BY DEF CreateContact
<1>3. PICK n \in Nat : n = created'
  BY <1>1
<1> DEFINE row == [key |-> None, email |-> e, content |-> Edited, owner |-> "none", dropped |-> FALSE]
<1>4. row \in Contact /\ row.key = None /\ row.email = e
  BY DEF Contact
<1>5. contacts' = With(contacts, n, row)
  BY <1>3 DEF CreateContact
<1> HIDE DEF row
<1>6. DOMAIN contacts' = DOMAIN contacts \cup {n} /\ contacts'[n] = row
      /\ \A d \in DOMAIN contacts : d # n => contacts'[d] = contacts[d]
  BY <1>5 DEF With
<1>7. DOMAIN contacts \subseteq 1 .. created /\ n \notin DOMAIN contacts
  BY <1>1, <1>3 DEF TypeInv, StateOK, RowsOK
<1>8. RowsOK(contacts', n)
  BY <1>1, <1>3, <1>4, <1>6, <1>7 DEF RowsOK, TypeInv, StateOK
<1>9. Distinct(contacts)
  BY <1>1, <1>7, UniqueIsDistinct DEF TypeInv, StateOK
<1>10. Distinct(contacts')
  <2>1. \A d \in DOMAIN contacts : contacts[d].email # e
    BY DEF CreateContact, WithEmail
  <2>2. None \notin Posts
    BY ImportAssumption DEF None
  <2> QED BY <1>4, <1>6, <1>7, <1>9, <2>1, <2>2 DEF Distinct
<1>11. Unique(contacts')
  <2>1. PICK new : new = contacts'
    OBVIOUS
  <2>2. DOMAIN new \subseteq 1 .. n /\ Distinct(new)
    BY <1>8, <1>10, <2>1 DEF RowsOK
  <2> QED BY <2>1, <2>2, UniqueIsDistinct
<1>12. ChildrenOK(children, contacts')
  BY <1>6 DEF TypeInv, StateOK, ChildrenOK
<1>13. StateOK'
  BY <1>1, <1>2, <1>3, <1>8, <1>11, <1>12, RequestLeaves DEF TypeInv, StateOK
<1> QED BY <1>1, <1>2, <1>13, RequestLeaves, JobsOKLater DEF TypeInv, JobsOK, StateOK

(* What delete_contact leaves of the rows. *)
LEMMA DeleteLeaves ==
  ASSUME TypeInv, NEW c \in DOMAIN contacts, DeleteContact(c)
  PROVE  /\ DOMAIN contacts' = DOMAIN contacts \ {c}
         /\ \A d \in DOMAIN contacts' : contacts'[d] = contacts[d]
         /\ UNCHANGED <<created, keeper>> /\ Request
         /\ conflicts' = {x \in conflicts : x.post # contacts[c].key}
         /\ \/ /\ contacts[c].key \in Posts /\ tombs' = tombs \cup {contacts[c].key}
               /\ UNCHANGED tombEmails
               /\ overlapped' = IF \E j \in Jobs : Overlaps(j) THEN overlapped \cup {contacts[c].key}
                                                               ELSE overlapped \ {contacts[c].key}
            \/ /\ contacts[c].key = None /\ UNCHANGED <<tombs, overlapped>>
               /\ tombEmails' = tombEmails \cup ({contacts[c].email} \ {None})
<1>1. contacts' = Without(contacts, {c})
  BY DEF DeleteContact
<1>2. contacts[c].key \in Posts \cup {None}
  BY DEF TypeInv, StateOK, RowsOK, Contact
<1> QED BY <1>1, <1>2 DEF DeleteContact, Without

LEMMA DeleteTypes ==
  ASSUME TypeInv, NEW c \in DOMAIN contacts, DeleteContact(c)
  PROVE  TypeInv'
<1>1. /\ DOMAIN contacts' = DOMAIN contacts \ {c}
      /\ \A d \in DOMAIN contacts' : contacts'[d] = contacts[d]
      /\ UNCHANGED <<created, keeper>> /\ Request
  BY DeleteLeaves
<1>2. created \in Nat /\ RowsOK(contacts, created)
  BY ImportAssumption DEF TypeInv, StateOK
<1>3. RowsOK(contacts', created)
  BY <1>1, <1>2 DEF RowsOK
<1>4. Unique(contacts')
  <2>1. Distinct(contacts)
    BY <1>2, UniqueIsDistinct DEF TypeInv, StateOK, RowsOK
  <2>2. Distinct(contacts')
    BY <1>1, <2>1 DEF Distinct
  <2>3. PICK n \in Nat : n = created
    BY <1>2
  <2>4. PICK new : new = contacts'
    OBVIOUS
  <2>5. DOMAIN new \subseteq 1 .. n /\ Distinct(new)
    BY <1>3, <2>2, <2>3, <2>4 DEF RowsOK
  <2> QED BY <2>4, <2>5, UniqueIsDistinct
<1>5. ChildrenOK(children', contacts')
  <2>1. children' = Without(children, {x \in DOMAIN children : children[x] = c})
    BY DEF DeleteContact
  <2> QED BY <1>1, <2>1 DEF TypeInv, StateOK, ChildrenOK, Without
<1>6. conflicts' \subseteq Conflict
  BY DeleteLeaves DEF TypeInv, StateOK
<1>7. /\ tombs \subseteq tombs' /\ tombs' \subseteq Posts /\ overlapped' \subseteq Posts
      /\ tombEmails \subseteq tombEmails' /\ tombEmails' \subseteq Emails
  <2>1. contacts[c].email \in Emails \cup {None}
    BY <1>2 DEF RowsOK, Contact
  <2>2. tombs \subseteq Posts /\ overlapped \subseteq Posts /\ tombEmails \subseteq Emails
    BY DEF TypeInv, StateOK
  <2>3. CASE /\ contacts[c].key \in Posts /\ tombs' = tombs \cup {contacts[c].key}
             /\ UNCHANGED tombEmails
             /\ \/ overlapped' = overlapped \cup {contacts[c].key}
                \/ overlapped' = overlapped \ {contacts[c].key}
    BY <2>2, <2>3
  <2>4. CASE /\ UNCHANGED <<tombs, overlapped>>
             /\ tombEmails' = tombEmails \cup ({contacts[c].email} \ {None})
    BY <2>1, <2>2, <2>4
  <2> QED BY <2>3, <2>4, DeleteLeaves
<1>8. StateOK'
  BY <1>1, <1>3, <1>4, <1>5, <1>6, <1>7, RequestLeaves DEF TypeInv, StateOK
<1> QED BY <1>1, <1>2, <1>7, <1>8, RequestLeaves, JobsOKLater DEF TypeInv, JobsOK, StateOK

LEMMA StaffTypes ==
  ASSUME TypeInv, Staff
  PROVE  TypeInv'
<1>1. ASSUME NEW c \in DOMAIN contacts, EditContact(c) PROVE TypeInv'
  BY <1>1, EditIsSame, SameRowsTypes DEF EditContact, TypeInv
<1>2. ASSUME NEW c \in DOMAIN contacts, AssignContact(c) PROVE TypeInv'
  BY <1>2, AssignIsSame, SameRowsTypes DEF AssignContact, TypeInv
<1>3. ASSUME NEW c \in DOMAIN contacts, DeleteContact(c) PROVE TypeInv'
  BY <1>3, DeleteTypes
<1>4. ASSUME NEW e \in Emails, CreateContact(e) PROVE TypeInv'
  BY <1>4, CreateTypes
<1>5. ASSUME NEW e \in Emails, Decide(e) PROVE TypeInv'
  <2>1. UNCHANGED <<contacts, created, children, conflicts, tombs, tombEmails, overlapped>> /\ Request
    BY <1>5 DEF Decide
  <2>2. keeper' \in [Emails -> Posts \cup {None}]
    <3>1. PICK p : /\ p \in {x.post : x \in {y \in conflicts : y.type = "duplicate_email" /\ y.email = e}} \cup {None}
                   /\ keeper' = [keeper EXCEPT ![e] = p]
      BY <1>5 DEF Decide
    <3>2. \A x \in conflicts : x.post \in Posts
      BY DEF TypeInv, StateOK, Conflict
    <3> QED BY <3>1, <3>2 DEF TypeInv, StateOK
  <2>3. StateOK'
    BY <2>1, <2>2, RequestLeaves DEF TypeInv, StateOK
  <2>4. created \in Nat /\ clock \in Nat
    BY ImportAssumption DEF TypeInv, StateOK
  <2> QED BY <2>1, <2>3, <2>4, RequestLeaves, JobsOKLater DEF TypeInv, JobsOK
<1>6. ASSUME NEW i \in Interests, RemoveInterest(i) PROVE TypeInv'
  <2>1. UNCHANGED <<contacts, created, keeper, conflicts, tombs, tombEmails, overlapped>> /\ Request
    BY <1>6 DEF RemoveInterest
  <2>2. ChildrenOK(children', contacts)
    BY <1>6 DEF RemoveInterest, Without, TypeInv, StateOK, ChildrenOK
  <2>3. StateOK'
    BY <2>1, <2>2, RequestLeaves DEF TypeInv, StateOK
  <2>4. created \in Nat /\ clock \in Nat
    BY ImportAssumption DEF TypeInv, StateOK
  <2> QED BY <2>1, <2>3, <2>4, RequestLeaves, JobsOKLater DEF TypeInv, JobsOK
<1> QED BY <1>1, <1>2, <1>3, <1>4, <1>5, <1>6 DEF Staff

LEMMA WatermarkIsHigh ==
  ASSUME StateOK
  PROVE  AutoWatermark = None \/ (\E t \in DOMAIN high : AutoWatermark = high[t])
<1> DEFINE seen == {high[t] : t \in DOMAIN high} \ {None}
<1>1. seen \in SUBSET Nat
  BY ImportAssumption DEF StateOK
<1>2. seen # {} => Min(seen) \in seen
  <2> HIDE DEF seen
  <2> QED BY <1>1, MinIsLeast
<1>3. AutoWatermark = IF seen = {} THEN None ELSE Min(seen)
  BY DEF AutoWatermark
<1>4. seen = {} \/ \E t \in DOMAIN high : Min(seen) = high[t]
  BY <1>2
<1> HIDE DEF seen
<1> QED BY <1>3, <1>4

LEMMA JobBecomes ==
  ASSUME TypeInv, StateOK', NEW j \in Jobs, NEW v, jobs' = [jobs EXCEPT ![j] = v],
         JobOK(v, clock', created', tombs', tombEmails'),
         clock <= clock', created <= created', tombs \subseteq tombs', tombEmails \subseteq tombEmails'
  PROVE  TypeInv'
<1>1. DOMAIN jobs' = Jobs /\ jobs'[j] = v /\ \A i \in Jobs : i # j => jobs'[i] = jobs[i]
  BY DEF TypeInv, JobsOK
<1>2. \A i \in Jobs : jobs'[i] = jobs[i] \/ JobOK(jobs'[i], clock', created', tombs', tombEmails')
  BY <1>1
<1> QED BY <1>1, <1>2, JobsOKLater

(* A step that changes job j and no row. *)
LEMMA JobBecomesQuietly ==
  ASSUME TypeInv, JobsOnly, NEW j \in Jobs, NEW v, jobs' = [jobs EXCEPT ![j] = v],
         JobOK(v, clock, created, tombs, tombEmails)
  PROVE  TypeInv'
<1>1. UNCHANGED <<clock, posts, comments, contacts, created, children, conflicts, keeper, tombs,
                  tombEmails, swept, high, requests, runs, overlapped, merged>>
  BY DEF JobsOnly, source, core
<1>2. StateOK'
  BY <1>1 DEF TypeInv, StateOK
<1>3. clock <= clock' /\ created <= created'
  BY <1>1, ImportAssumption DEF TypeInv, StateOK
<1> QED BY <1>1, <1>2, <1>3, JobBecomes

LEMMA StartTypes ==
  ASSUME TypeInv, NEW j \in Jobs, StartJob(j)
  PROVE  TypeInv'
<1>1. PICK w \in {AutoWatermark, None} : jobs' = [jobs EXCEPT ![j] = [pc |-> "lock", watermark |-> w]]
  BY DEF StartJob
<1>2. w \in 0 .. clock
  <2>1. AutoWatermark = None \/ (\E t \in DOMAIN high : AutoWatermark = high[t])
    BY WatermarkIsHigh DEF TypeInv
  <2> QED BY <2>1, ImportAssumption DEF TypeInv, StateOK, None
<1>3. UNCHANGED <<clock, posts, comments, contacts, created, children, conflicts, keeper, tombs,
                  tombEmails, swept, high, requests, overlapped, merged>>
  BY DEF StartJob, source, core
<1>4. runs' \in 0 .. MaxRuns
  BY ImportAssumption DEF StartJob, TypeInv, StateOK
<1>5. StateOK'
  BY <1>3, <1>4 DEF TypeInv, StateOK
<1>6. PICK v : v = [pc |-> "lock", watermark |-> w]
  OBVIOUS
<1>7. JobOK(v, clock', created', tombs', tombEmails')
  BY <1>2, <1>3, <1>6 DEF JobOK, Marked, InImport, ImportPcs
<1>8. clock <= clock' /\ created <= created'
  BY <1>3, ImportAssumption DEF TypeInv, StateOK
<1> QED BY <1>1, <1>3, <1>5, <1>6, <1>7, <1>8, JobBecomes

LEMMA LockTypes ==
  ASSUME TypeInv, NEW j \in Jobs, TakeLock(j)
  PROVE  TypeInv'
<1>1. PICK v : v = [pc |-> "load", table |-> 1, watermark |-> jobs[j].watermark,
                    posts |-> posts, comments |-> comments]
  OBVIOUS
<1>2. v.pc = "load" /\ v.table = 1 /\ v.watermark = jobs[j].watermark /\ v.posts = posts /\ v.comments = comments
  BY <1>1
<1>3. jobs[j].watermark \in 0 .. clock
  BY DEF TakeLock, TypeInv, JobsOK, JobOK, Marked
<1>4. JobOK(v, clock, created, tombs, tombEmails)
  BY <1>2, <1>3 DEF JobOK, Marked, InImport, ImportPcs, TypeInv, StateOK
<1>5. jobs' = [jobs EXCEPT ![j] = v] /\ JobsOnly
  BY <1>1 DEF TakeLock
<1> QED BY <1>4, <1>5, JobBecomesQuietly

LEMMA IdleTypes ==
  ASSUME TypeInv, NEW j \in Jobs, SkipImport(j) \/ Fail(j)
  PROVE  TypeInv'
<1>1. PICK v \in {[pc |-> "plan"], Idle} : jobs' = [jobs EXCEPT ![j] = v]
  BY DEF SkipImport, Fail
<1>2. v.pc \in {"idle", "plan"}
  BY DEF Idle
<1>3. JobOK(v, clock, created, tombs, tombEmails)
  BY <1>2 DEF JobOK, Marked, InImport, ImportPcs
<1> QED BY <1>1, <1>3, JobBecomesQuietly DEF SkipImport, Fail

LEMMA LoadTypes ==
  ASSUME TypeInv, NEW j \in Jobs, Load(j)
  PROVE  TypeInv'
<1> DEFINE job == jobs[j]
           t == Tables[job.table]
<1>1. /\ job.watermark \in 0 .. clock /\ job.table \in 1 .. 4
      /\ PostsOK(job.posts, clock) /\ CommentsOK(job.comments, clock)
  BY DEF Load, TypeInv, JobsOK, JobOK, Marked, InImport, ImportPcs
<1>2. t \in ImportPcs \ {"load"}
  BY <1>1 DEF Tables, ImportPcs
<1>3. CASE t = "contacts"
  <2>1. PICK v : v = [pc |-> t, table |-> job.table, watermark |-> job.watermark, posts |-> job.posts,
                      comments |-> job.comments, emailOwner |-> EmailOwners, tombs |-> DeletedKeys,
                      tombEmails |-> tombEmails]
    OBVIOUS
  <2>2. /\ v.pc = t /\ v.table = job.table /\ v.watermark = job.watermark /\ v.posts = job.posts
        /\ v.comments = job.comments /\ v.emailOwner = EmailOwners /\ v.tombs = tombs
        /\ v.tombEmails = tombEmails
    BY <2>1 DEF DeletedKeys
  <2>3. DOMAIN EmailOwners \subseteq Emails
    <3>1. \A c \in DOMAIN contacts : contacts[c].email \in Emails \cup {None}
      BY DEF TypeInv, StateOK, RowsOK, Contact
    <3>2. DOMAIN EmailOwners = {contacts[c].email : c \in DOMAIN contacts} \ {None}
      BY DEF EmailOwners
    <3> QED BY <3>1, <3>2
  <2>4. v.pc \in {"load", Tables[v.table]} /\ v.pc = "contacts"
    BY <2>2, <1>3
  <2>5. JobOK(v, clock, created, tombs, tombEmails)
    BY <1>1, <2>2, <2>3, <2>4 DEF JobOK, Marked, InImport, ImportPcs
  <2>6. jobs' = [jobs EXCEPT ![j] = v] /\ JobsOnly
    BY <1>3, <2>1 DEF Load
  <2> QED BY <2>5, <2>6, JobBecomesQuietly
<1>4. CASE t # "contacts"
  <2>1. PICK v : v = [pc |-> t, table |-> job.table, watermark |-> job.watermark, posts |-> job.posts,
                      comments |-> job.comments, contactOf |-> PostToContact]
    OBVIOUS
  <2>2. /\ v.pc = t /\ v.table = job.table /\ v.watermark = job.watermark /\ v.posts = job.posts
        /\ v.comments = job.comments
    BY <2>1
  <2>3. v.pc \in {"load", Tables[v.table]} /\ v.pc \in ImportPcs /\ v.pc \notin {"contacts", "lock", "merge"}
    BY <2>2, <1>2, <1>4 DEF ImportPcs
  <2>5. JobOK(v, clock, created, tombs, tombEmails)
    <3> HIDE DEF t
    <3> QED BY <1>1, <2>2, <2>3 DEF JobOK, Marked, InImport
  <2>6. jobs' = [jobs EXCEPT ![j] = v] /\ JobsOnly
    BY <1>4, <2>1 DEF Load
  <2> QED BY <2>5, <2>6, JobBecomesQuietly
<1> QED BY <1>3, <1>4

LEMMA NextTableOK ==
  ASSUME TypeInv, NEW j \in Jobs, InImport(jobs[j]), NEW t, NEW made, NEW tb, NEW te,
         t = clock, made = created, tb = tombs, te = tombEmails
  PROVE  JobOK(NextTable(jobs[j]), t, made, tb, te)
<1> DEFINE job == jobs[j]
<1>1. /\ job.watermark \in 0 .. clock /\ job.table \in 1 .. 4
      /\ PostsOK(job.posts, clock) /\ CommentsOK(job.comments, clock)
  BY DEF TypeInv, JobsOK, JobOK, Marked
<1>2. Len(Tables) = 4
  BY DEF Tables
<1>3. CASE job.table = 4
  <2>1. NextTable(job).pc = "plan"
    BY <1>2, <1>3 DEF NextTable
  <2> QED BY <2>1 DEF JobOK, Marked, InImport, ImportPcs
<1>4. CASE job.table # 4
  <2>1. PICK v : v = [pc |-> "load", table |-> job.table + 1, watermark |-> job.watermark,
                      posts |-> job.posts, comments |-> job.comments]
    OBVIOUS
  <2>2. NextTable(job) = v
    BY <1>2, <1>4, <2>1 DEF NextTable
  <2>3. /\ v.pc = "load" /\ v.table = job.table + 1 /\ v.watermark = job.watermark
        /\ v.posts = job.posts /\ v.comments = job.comments
    BY <2>1
  <2>4. v.table \in 1 .. 4
    BY <1>1, <1>4, <2>3
  <2>5. JobOK(v, t, made, tb, te)
    BY <1>1, <2>3, <2>4 DEF JobOK, Marked, InImport, ImportPcs
  <2> QED BY <2>2, <2>5
<1> QED BY <1>3, <1>4

LEMMA NewestIsOfSnapshot ==
  ASSUME NEW job, NEW t \in Nat, PostsOK(job.posts, t), CommentsOK(job.comments, t)
  PROVE  /\ NewestPost(job) \in 0 .. t
         /\ \A p \in DOMAIN job.posts : job.posts[p].stamp <= NewestPost(job)
         /\ NewestPost(job) # None => \E p \in DOMAIN job.posts : NewestPost(job) = job.posts[p].stamp
<1> DEFINE S == {job.posts[p].stamp : p \in DOMAIN job.posts} \cup {None}
<1>1. S \in SUBSET Nat /\ \A x \in S : x <= t
  <2>1. \A p \in DOMAIN job.posts : job.posts[p].stamp \in Nat /\ job.posts[p].stamp <= t
    BY ImportAssumption DEF PostsOK, Post, Stamps
  <2> QED BY <2>1 DEF None
<1>2. S # {} /\ \A p \in DOMAIN job.posts : job.posts[p].stamp \in S
  OBVIOUS
<1>3. \A x \in S : x # None => \E p \in DOMAIN job.posts : x = job.posts[p].stamp
  OBVIOUS
<1>4. NewestPost(job) = Max(S)
  BY DEF NewestPost
<1> HIDE DEF S
<1>5. Max(S) \in S /\ \A y \in S : y <= Max(S)
  BY <1>1, <1>2, MaxIsGreatest
<1>6. Max(S) \in 0 .. t
  <2>1. \A x \in S : x \in 0 .. t
    BY <1>1
  <2> QED BY <1>5, <2>1
<1>7. \A p \in DOMAIN job.posts : job.posts[p].stamp <= Max(S)
  BY <1>2, <1>5
<1>8. Max(S) # None => \E p \in DOMAIN job.posts : Max(S) = job.posts[p].stamp
  BY <1>3, <1>5
<1> QED BY <1>4, <1>6, <1>7, <1>8

LEMMA NewestCommentIsOfSnapshot ==
  ASSUME NEW job, NEW t \in Nat, CommentsOK(job.comments, t)
  PROVE  LET newest == Max({job.comments[m] : m \in DOMAIN job.comments} \cup {None}) IN
         /\ newest \in 0 .. t
         /\ newest # None => \E m \in DOMAIN job.comments : newest = job.comments[m]
<1> DEFINE S == {job.comments[m] : m \in DOMAIN job.comments} \cup {None}
<1>1. S \in SUBSET Nat /\ \A x \in S : x <= t
  BY ImportAssumption DEF CommentsOK, Stamps, None
<1>2. \A x \in S : x # None => \E m \in DOMAIN job.comments : x = job.comments[m]
  OBVIOUS
<1>3. S # {}
  OBVIOUS
<1> HIDE DEF S
<1>4. Max(S) \in S
  BY <1>1, <1>3, MaxIsGreatest
<1>5. Max(S) \in 0 .. t
  <2>1. \A x \in S : x \in 0 .. t
    BY <1>1
  <2> QED BY <1>4, <2>1
<1>6. Max(S) # None => \E m \in DOMAIN job.comments : Max(S) = job.comments[m]
  BY <1>2, <1>4
<1> QED BY <1>5, <1>6 DEF S

LEMMA ContactsAreMade ==
  ASSUME TypeInv, NEW j \in Jobs, WriteContacts(j)
  PROVE  \E out : /\ ImportAcc(jobs[j], out, LastPost) /\ out.ok
                  /\ contacts' = out.rows /\ created' = out.made /\ conflicts' = out.conflicts
                  /\ created' <= MaxContacts
<1> DEFINE job == jobs[j]
<1>1. job.pc = "contacts"
  BY DEF WriteContacts
<1>2. DOMAIN job.emailOwner \subseteq Emails /\ PostsOK(job.posts, clock)
  BY <1>1 DEF TypeInv, JobsOK, JobOK, InImport, ImportPcs
<1>3. created \in Nat
  BY ImportAssumption DEF TypeInv, StateOK
<1>4. ImportAcc(job, ImportedContacts(job), LastPost)
  BY <1>2, <1>3, ImportMakes DEF TypeInv, StateOK, PostsOK
<1> QED BY <1>4 DEF WriteContacts

LEMMA WriteContactsTypes ==
  ASSUME TypeInv, NEW j \in Jobs, WriteContacts(j)
  PROVE  TypeInv'
<1> DEFINE job == jobs[j]
<1>0. job.pc = "contacts" /\ InImport(job)
  BY DEF WriteContacts, InImport, ImportPcs
<1>1. PICK out : /\ ImportAcc(job, out, LastPost) /\ out.ok
                 /\ contacts' = out.rows /\ created' = out.made /\ conflicts' = out.conflicts
                 /\ created' <= MaxContacts
  BY ContactsAreMade
<1>2. /\ created \in Nat /\ created' \in Nat /\ created <= created' /\ clock \in Nat
      /\ RowsOK(contacts', created') /\ Unique(contacts')
      /\ DOMAIN contacts \subseteq DOMAIN contacts' /\ conflicts' \subseteq Conflict
  BY <1>1, ImportAssumption DEF ImportAcc, TypeInv, StateOK
<1>3. UNCHANGED <<clock, posts, comments, children, keeper, tombs, tombEmails, requests, runs,
                  overlapped, merged>>
  BY DEF WriteContacts, source
<1>4. PostsOK(job.posts, clock) /\ CommentsOK(job.comments, clock)
  BY <1>0 DEF TypeInv, JobsOK, JobOK, InImport, ImportPcs
<1>5. NewestPost(job) \in 0 .. clock
  BY <1>2, <1>4, NewestIsOfSnapshot
<1>6. DOMAIN high' = {"contacts", "activity_log"} /\ \A t \in DOMAIN high' : high'[t] \in 0 .. clock
  <2>1. PICK a, b : a = high["contacts"] /\ b = NewestPost(job)
    OBVIOUS
  <2>2. a \in 0 .. clock /\ b \in 0 .. clock
    BY <1>5, <2>1 DEF TypeInv, StateOK
  <2>3. Later(a, b) \in 0 .. clock
    BY <2>2 DEF Later
  <2>4. high' = [high EXCEPT !["contacts"] = Later(a, b)]
    BY <2>1 DEF WriteContacts
  <2> QED BY <2>3, <2>4 DEF TypeInv, StateOK
<1>7. swept' \subseteq Posts
  <2>1. swept \subseteq Posts
    BY DEF TypeInv, StateOK
  <2>2. \A c \in DOMAIN out.rows : out.rows[c].key \in Posts \cup {None}
    BY <1>1 DEF ImportAcc, RowsOK, Contact
  <2>3. swept' \subseteq swept \cup ({out.rows[c].key : c \in DOMAIN out.rows} \ {None})
    <3>1. contacts' = ImportedContacts(job).rows
      BY DEF WriteContacts
    <3>2. swept' \subseteq swept \cup ({contacts'[c].key : c \in DOMAIN contacts'} \ {None})
      BY <3>1 DEF WriteContacts
    <3> QED BY <1>1, <3>2
  <2> QED BY <2>1, <2>2, <2>3
<1>8. ChildrenOK(children', contacts')
  BY <1>2, <1>3 DEF TypeInv, StateOK, ChildrenOK
<1>9. created' \in 0 .. MaxContacts
  BY <1>1, <1>2, ImportAssumption
<1>10. StateOK'
  BY <1>2, <1>3, <1>6, <1>7, <1>8, <1>9 DEF TypeInv, StateOK
<1>11. JobOK(NextTable(job), clock', created', tombs', tombEmails')
  <2>1. JobOK(NextTable(job), clock, created, tombs, tombEmails)
    BY <1>0, NextTableOK
  <2>2. PICK v, m : v = NextTable(job) /\ m = created'
    OBVIOUS
  <2>3. JobOK(v, clock, m, tombs, tombEmails)
    BY <1>2, <2>1, <2>2, JobOKLater
  <2> QED BY <1>3, <2>2, <2>3
<1>12. jobs' = [jobs EXCEPT ![j] = NextTable(job)]
  BY DEF WriteContacts
<1>13. PICK v : v = NextTable(job)
  OBVIOUS
<1>14. jobs' = [jobs EXCEPT ![j] = v] /\ JobOK(v, clock', created', tombs', tombEmails')
  BY <1>11, <1>12, <1>13
<1>15. clock <= clock' /\ created <= created' /\ tombs \subseteq tombs' /\ tombEmails \subseteq tombEmails'
  BY <1>2, <1>3
<1> QED BY <1>10, <1>14, <1>15, JobBecomes

LEMMA WriteAssignmentsTypes ==
  ASSUME TypeInv, NEW j \in Jobs, WriteAssignments(j)
  PROVE  TypeInv'
<1> DEFINE job == jobs[j]
<1>0. InImport(job)
  BY DEF WriteAssignments, InImport, ImportPcs
<1>1. SameRows(contacts', contacts)
  BY AssignmentsAreSame DEF TypeInv
<1>2. UNCHANGED <<clock, posts, comments, created, children, keeper, tombs, tombEmails, swept, high,
                  requests, runs, overlapped, merged>>
  BY DEF WriteAssignments, source
<1>3. RowsOK(contacts', created) /\ Unique(contacts')
  <2>1. PICK new, old, n : new = contacts' /\ old = contacts /\ n = created
    OBVIOUS
  <2>2. RowsOK(old, n) /\ Unique(old) /\ SameRows(new, old)
    BY <1>1, <2>1 DEF TypeInv, StateOK
  <2> QED BY <2>1, <2>2, SameRowsAreOK
<1>4. ChildrenOK(children, contacts')
  BY <1>1 DEF TypeInv, StateOK, ChildrenOK, SameRows
<1>5. conflicts' \subseteq Conflict
  <2>1. PICK S \in SUBSET Posts, T \in SUBSET Posts :
          conflicts' = conflicts \cup ({[type |-> "assignee_no_subject", post |-> p] : p \in S}
                                       \cup {[type |-> "local_assignment_override", post |-> p] : p \in T})
    <3> DEFINE assigned == Delta(job) \cap DOMAIN job.contactOf \cap Assigned
               written == assigned \cap SignedIn
               taken == {p \in written : ~MayReassign(contacts[job.contactOf[p]].owner)}
    <3>1. assigned \ SignedIn \in SUBSET Posts /\ taken \in SUBSET Posts
      BY ImportAssumption
    <3>2. conflicts' = conflicts \cup ({[type |-> "assignee_no_subject", post |-> p] : p \in assigned \ SignedIn}
                                       \cup {[type |-> "local_assignment_override", post |-> p] : p \in taken})
      BY DEF WriteAssignments
    <3> HIDE DEF assigned, taken
    <3> QED BY <3>1, <3>2
  <2> QED BY <2>1 DEF TypeInv, StateOK, Conflict
<1>6. StateOK'
  BY <1>2, <1>3, <1>4, <1>5 DEF TypeInv, StateOK
<1>7. PICK v : v = NextTable(job)
  OBVIOUS
<1>8. JobOK(v, clock', created', tombs', tombEmails')
  BY <1>0, <1>2, <1>7, NextTableOK
<1>9. jobs' = [jobs EXCEPT ![j] = v]
  BY <1>7 DEF WriteAssignments
<1>10. clock <= clock' /\ created <= created'
  BY <1>2, ImportAssumption DEF TypeInv, StateOK
<1> QED BY <1>2, <1>6, <1>8, <1>9, <1>10, JobBecomes

(* Rows of activity_log and adopter_interest that are added to contacts that exist. *)
LEMMA ChildrenAdded ==
  ASSUME TypeInv, NEW new, new \subseteq Comments \cup Interests, NEW job,
         AllExist(job, {PostOf[x] : x \in new}),
         children' = [x \in DOMAIN children \cup new |->
                        IF x \in new THEN job.contactOf[PostOf[x]] ELSE children[x]]
  PROVE  ChildrenOK(children', contacts)
<1>1. \A x \in new : job.contactOf[PostOf[x]] \in DOMAIN contacts
  BY DEF AllExist
<1>2. \A x \in DOMAIN children : children[x] \in DOMAIN contacts
  BY DEF TypeInv, StateOK, ChildrenOK
<1>3. DOMAIN children' \subseteq Comments \cup Interests
  BY DEF TypeInv, StateOK, ChildrenOK
<1> QED BY <1>1, <1>2, <1>3 DEF ChildrenOK

LEMMA WriteActivityTypes ==
  ASSUME TypeInv, NEW j \in Jobs, WriteActivity(j)
  PROVE  TypeInv'
<1> DEFINE job == jobs[j]
           newest == Max({job.comments[m] : m \in DOMAIN job.comments} \cup {None})
<1>0. InImport(job)
  BY DEF WriteActivity, InImport, ImportPcs
<1>1. UNCHANGED <<clock, posts, comments, contacts, created, conflicts, keeper, tombs, tombEmails, swept,
                  requests, runs, overlapped, merged>>
  BY DEF WriteActivity, source
<1>2. CommentsOK(job.comments, clock) /\ clock \in Nat /\ created \in Nat
  BY <1>0, ImportAssumption DEF TypeInv, StateOK, JobsOK, JobOK
<1>3. ChildrenOK(children', contacts)
  <2>1. PICK new : /\ new \subseteq Comments /\ AllExist(job, {PostOf[x] : x \in new})
                   /\ children' = [x \in DOMAIN children \cup new |->
                                     IF x \in new THEN job.contactOf[PostOf[x]] ELSE children[x]]
    <3> DEFINE read == {m \in DOMAIN job.comments : /\ job.comments[m] > job.watermark
                                                    /\ PostOf[m] \in DOMAIN job.contactOf}
               new == read \ DOMAIN children
    <3>1. new \subseteq Comments
      BY <1>2 DEF CommentsOK
    <3>2. /\ AllExist(job, {PostOf[x] : x \in new})
          /\ children' = [x \in DOMAIN children \cup new |->
                            IF x \in new THEN job.contactOf[PostOf[x]] ELSE children[x]]
      BY DEF WriteActivity
    <3> HIDE DEF new
    <3> QED BY <3>1, <3>2
  <2> QED BY <2>1, ChildrenAdded
<1>4. DOMAIN high' = {"contacts", "activity_log"} /\ \A t \in DOMAIN high' : high'[t] \in 0 .. clock
  <2>1. PICK a, b : a = high["activity_log"] /\ b = newest
    OBVIOUS
  <2>2. a \in 0 .. clock /\ b \in 0 .. clock
    BY <1>2, <2>1, NewestCommentIsOfSnapshot DEF TypeInv, StateOK
  <2>3. Later(a, b) \in 0 .. clock
    BY <2>2 DEF Later
  <2>4. high' = [high EXCEPT !["activity_log"] = Later(a, b)]
    BY <2>1 DEF WriteActivity
  <2> QED BY <2>3, <2>4 DEF TypeInv, StateOK
<1>5. StateOK'
  BY <1>1, <1>3, <1>4 DEF TypeInv, StateOK
<1>7. PICK v : v = NextTable(job)
  OBVIOUS
<1>8. JobOK(v, clock', created', tombs', tombEmails')
  BY <1>0, <1>1, <1>7, NextTableOK
<1>9. jobs' = [jobs EXCEPT ![j] = v]
  BY <1>7 DEF WriteActivity
<1>10. clock <= clock' /\ created <= created'
  BY <1>1, <1>2
<1> QED BY <1>1, <1>5, <1>8, <1>9, <1>10, JobBecomes

LEMMA WriteInterestsTypes ==
  ASSUME TypeInv, NEW j \in Jobs, WriteInterests(j)
  PROVE  TypeInv'
<1> DEFINE job == jobs[j]
<1>0. InImport(job)
  BY DEF WriteInterests, InImport, ImportPcs
<1>1. UNCHANGED <<clock, posts, comments, contacts, created, conflicts, keeper, tombs, tombEmails, swept,
                  high, requests, runs, overlapped, merged>>
  BY DEF WriteInterests, source
<1>2. clock \in Nat /\ created \in Nat
  BY ImportAssumption DEF TypeInv, StateOK
<1>3. ChildrenOK(children', contacts)
  <2>1. PICK new : /\ new \subseteq Interests /\ AllExist(job, {PostOf[x] : x \in new})
                   /\ children' = [x \in DOMAIN children \cup new |->
                                     IF x \in new THEN job.contactOf[PostOf[x]] ELSE children[x]]
    <3> DEFINE new == {i \in Interests : PostOf[i] \in Delta(job) \cap DOMAIN job.contactOf} \ DOMAIN children
    <3>1. new \subseteq Interests
      OBVIOUS
    <3>2. /\ AllExist(job, {PostOf[x] : x \in new})
          /\ children' = [x \in DOMAIN children \cup new |->
                            IF x \in new THEN job.contactOf[PostOf[x]] ELSE children[x]]
      BY DEF WriteInterests
    <3> HIDE DEF new
    <3> QED BY <3>1, <3>2
  <2> QED BY <2>1, ChildrenAdded
<1>5. StateOK'
  BY <1>1, <1>3 DEF TypeInv, StateOK
<1>7. PICK v : v = NextTable(job)
  OBVIOUS
<1>8. JobOK(v, clock', created', tombs', tombEmails')
  BY <1>0, <1>1, <1>7, NextTableOK
<1>9. jobs' = [jobs EXCEPT ![j] = v]
  BY <1>7 DEF WriteInterests
<1>10. clock <= clock' /\ created <= created'
  BY <1>1, <1>2
<1> QED BY <1>1, <1>5, <1>8, <1>9, <1>10, JobBecomes

(* What a plan says. *)
LEMMA PlanSays ==
  ASSUME TypeInv, NEW x \in Duplicates, Mergeable(x)
  PROVE  LET pl == PlanOf(x) IN
         /\ PlanOK(pl, created) /\ pl.post = x.post
         /\ pl.loser \in DOMAIN contacts => contacts[pl.loser].key = x.post
<1> DEFINE T == WithEmail(contacts, x.email)
           L == WithKey(contacts, x.post)
<1>1. T \subseteq DOMAIN contacts /\ L \subseteq DOMAIN contacts /\ \A c \in L : contacts[c].key = x.post
  BY DEF WithEmail, WithKey
<1>2. created \in Nat /\ DOMAIN contacts \subseteq 1 .. created
  BY ImportAssumption DEF TypeInv, StateOK, RowsOK
<1>3. ASSUME NEW S PROVE Sole(S) \in S \/ (Sole(S) = None /\ S = {})
  BY DEF Sole
<1>4. x.post \in Posts /\ posts[x.post].stamp \in Stamps
  <2>1. x \in Conflict
    BY DEF Duplicates, TypeInv, StateOK
  <2>2. x.post \in DOMAIN posts
    BY DEF Mergeable
  <2> QED BY <2>1, <2>2 DEF Conflict, TypeInv, StateOK, PostsOK, Post
<1>5. Sole(T) \in 0 .. created /\ Sole(L) \in 0 .. created
  <2>1. Sole(T) \in DOMAIN contacts \/ Sole(T) = 0
    BY <1>1, <1>3 DEF None
  <2>2. Sole(L) \in DOMAIN contacts \/ Sole(L) = 0
    BY <1>1, <1>3 DEF None
  <2> QED BY <1>2, <2>1, <2>2
<1>6. Sole(L) \in DOMAIN contacts => contacts[Sole(L)].key = x.post
  <2>1. None \notin DOMAIN contacts
    BY <1>2 DEF None
  <2> QED BY <1>1, <1>3, <2>1
<1> DEFINE pl == PlanOf(x)
<1>7. /\ pl.post = x.post /\ pl.target = Sole(T) /\ pl.loser = Sole(L)
      /\ pl.content = posts[x.post].stamp
  BY DEF PlanOf
<1> HIDE DEF pl, T, L
<1>8. PlanOK(pl, created)
  BY <1>4, <1>5, <1>7 DEF PlanOK
<1> QED BY <1>6, <1>7, <1>8 DEF pl

LEMMA PlansAre ==
  ASSUME NEW j \in Jobs, PlanMerges(j)
  PROVE  \E S \in SUBSET Duplicates :
           /\ \A x \in S : Mergeable(x)
           /\ jobs' = [jobs EXCEPT ![j] = [pc |-> "merge", plans |-> {PlanOf(x) : x \in S}]]
<1>1. PICK S \in SUBSET {x \in Duplicates : Mergeable(x)} :
        jobs' = [jobs EXCEPT ![j] = [pc |-> "merge", plans |-> {PlanOf(x) : x \in S}]]
  BY DEF PlanMerges
<1>2. S \in SUBSET Duplicates /\ \A x \in S : Mergeable(x)
  OBVIOUS
<1> QED BY <1>1, <1>2

LEMMA PlanTypes ==
  ASSUME TypeInv, NEW j \in Jobs, PlanMerges(j)
  PROVE  TypeInv'
<1>1. PICK S \in SUBSET Duplicates :
           /\ \A x \in S : Mergeable(x)
           /\ jobs' = [jobs EXCEPT ![j] = [pc |-> "merge", plans |-> {PlanOf(x) : x \in S}]]
  BY PlansAre
<1>2. PICK v : v = [pc |-> "merge", plans |-> {PlanOf(x) : x \in S}]
  OBVIOUS
<1>3. v.pc = "merge" /\ v.plans = {PlanOf(x) : x \in S}
  BY <1>2
<1>4. \A pl \in v.plans : PlanOK(pl, created)
  BY <1>1, <1>3, PlanSays
<1>5. JobOK(v, clock, created, tombs, tombEmails)
  BY <1>3, <1>4 DEF JobOK, Marked, InImport, ImportPcs
<1> QED BY <1>1, <1>2, <1>5, JobBecomesQuietly DEF PlanMerges

LEMMA MergesAreMade ==
  ASSUME TypeInv, NEW j \in Jobs, ApplyMerges(j)
  PROVE  \E out : /\ MergeAcc(jobs[j].plans, out)
                  /\ contacts' = out.rows /\ children' = out.children
                  /\ conflicts' = out.conflicts /\ merged' = out.merged
<1>1. \A pl \in jobs[j].plans : PlanOK(pl, created)
  BY DEF ApplyMerges, TypeInv, JobsOK, JobOK
<1>2. MergeAcc(jobs[j].plans, Merged(jobs[j].plans))
  BY <1>1, MergeMakes DEF TypeInv, StateOK
<1> QED BY <1>2 DEF ApplyMerges

LEMMA ApplyTypes ==
  ASSUME TypeInv, NEW j \in Jobs, ApplyMerges(j)
  PROVE  TypeInv'
<1>1. PICK out : /\ MergeAcc(jobs[j].plans, out)
                 /\ contacts' = out.rows /\ children' = out.children
                 /\ conflicts' = out.conflicts /\ merged' = out.merged
  BY MergesAreMade
<1>2. UNCHANGED <<clock, posts, comments, created, keeper, tombs, tombEmails, swept, high, requests,
                  runs, overlapped>>
  BY DEF ApplyMerges, source
<1>3. /\ RowsOK(contacts', created) /\ Unique(contacts') /\ ChildrenOK(children', contacts')
      /\ conflicts' \subseteq Conflict /\ merged' \subseteq Posts
  BY <1>1 DEF MergeAcc, TypeInv, StateOK
<1>4. StateOK'
  BY <1>2, <1>3 DEF TypeInv, StateOK
<1>5. JobOK(Idle, clock', created', tombs', tombEmails')
  BY DEF JobOK, Marked, InImport, ImportPcs, Idle
<1>6. jobs' = [jobs EXCEPT ![j] = Idle]
  BY DEF ApplyMerges
<1>7. clock <= clock' /\ created <= created'
  BY <1>2, ImportAssumption DEF TypeInv, StateOK
<1> QED BY <1>2, <1>4, <1>5, <1>6, <1>7, JobBecomes

LEMMA TypesKept == TypeInv /\ [Next]_vars => TypeInv'
<1> SUFFICES ASSUME TypeInv, [Next]_vars PROVE TypeInv'
  OBVIOUS
<1>1. CASE DT
  BY <1>1, SourceTypes
<1>2. CASE Staff
  BY <1>2, StaffTypes
<1>3. ASSUME NEW j \in Jobs, Job(j) PROVE TypeInv'
  <2>1. CASE StartJob(j)
    BY <2>1, StartTypes
  <2>2. CASE TakeLock(j)
    BY <2>2, LockTypes
  <2>3. CASE SkipImport(j) \/ Fail(j)
    BY <2>3, IdleTypes
  <2>4. CASE Load(j)
    BY <2>4, LoadTypes
  <2>5. CASE WriteContacts(j)
    BY <2>5, WriteContactsTypes
  <2>6. CASE WriteAssignments(j)
    BY <2>6, WriteAssignmentsTypes
  <2>7. CASE WriteActivity(j)
    BY <2>7, WriteActivityTypes
  <2>8. CASE WriteInterests(j)
    BY <2>8, WriteInterestsTypes
  <2>9. CASE PlanMerges(j)
    BY <2>9, PlanTypes
  <2>10. CASE ApplyMerges(j)
    BY <2>10, ApplyTypes
  <2> QED BY <1>3, <2>1, <2>2, <2>3, <2>4, <2>5, <2>6, <2>7, <2>8, <2>9, <2>10 DEF Job
<1>4. CASE UNCHANGED vars
  BY <1>4 DEF vars, source, core, TypeInv, StateOK, JobsOK
<1> QED BY <1>1, <1>2, <1>3, <1>4 DEF Next

(* Rows and the locals of jobs keep their types, among them the two unique  *)
(* indexes of contacts, whatever jobs and staff do at once.                 *)
THEOREM TypeCorrect == Spec => []TypeOK
<1>1. Spec => []TypeInv
  BY InitTypes, TypesKept, PTL DEF Spec
<1> QED BY <1>1, TypeInvIsTypeOK, PTL

-----------------------------------------------------------------------------
(* What a step does to the rows *)

LEMMA RowSteps ==
  ASSUME TypeInv, [Next]_vars
  PROVE  \/ UNCHANGED <<contacts, conflicts, tombs, tombEmails, overlapped, merged>>
         \/ /\ SameRows(contacts', contacts) /\ conflicts \subseteq conflicts'
            /\ \A x \in conflicts' \ conflicts : x.type # "duplicate_email"
            /\ UNCHANGED <<tombs, tombEmails, overlapped, merged>>
         \/ \E e \in Emails : CreateContact(e)
         \/ \E c \in DOMAIN contacts : DeleteContact(c)
         \/ \E j \in Jobs : WriteContacts(j) \/ ApplyMerges(j)
<1> DEFINE Quiet == UNCHANGED <<contacts, conflicts, tombs, tombEmails, overlapped, merged>>
           Same == /\ SameRows(contacts', contacts) /\ conflicts \subseteq conflicts'
                   /\ \A x \in conflicts' \ conflicts : x.type # "duplicate_email"
                   /\ UNCHANGED <<tombs, tombEmails, overlapped, merged>>
<1>1. CASE DT
  <2>1. Quiet
    BY <1>1 DEF DT, EditPost, RemovePost, AddComment, core
  <2> QED BY <2>1
<1>2. ASSUME NEW c \in DOMAIN contacts, EditContact(c) \/ AssignContact(c) PROVE Same
  <2>1. SameRows(contacts', contacts)
    BY <1>2, EditIsSame, AssignIsSame DEF TypeInv
  <2>2. UNCHANGED <<conflicts, tombs, tombEmails, overlapped>> /\ Request
    BY <1>2 DEF EditContact, AssignContact
  <2> QED BY <2>1, <2>2 DEF Request
<1>3. ASSUME NEW e \in Emails, Decide(e) PROVE Quiet
  BY <1>3 DEF Decide, Request
<1>4. ASSUME NEW i \in Interests, RemoveInterest(i) PROVE Quiet
  BY <1>4 DEF RemoveInterest, Request
<1>5. ASSUME NEW j \in Jobs, WriteAssignments(j) PROVE Same
  <2>1. SameRows(contacts', contacts)
    BY <1>5, AssignmentsAreSame DEF TypeInv
  <2>2. PICK found : /\ conflicts' = conflicts \cup found
                     /\ \A x \in found : x.type \in {"assignee_no_subject", "local_assignment_override"}
    <3> DEFINE job == jobs[j]
               assigned == Delta(job) \cap DOMAIN job.contactOf \cap Assigned
               written == assigned \cap SignedIn
               taken == {p \in written : ~MayReassign(contacts[job.contactOf[p]].owner)}
               found == {[type |-> "assignee_no_subject", post |-> p] : p \in assigned \ SignedIn}
                        \cup {[type |-> "local_assignment_override", post |-> p] : p \in taken}
    <3>1. conflicts' = conflicts \cup found
      BY <1>5 DEF WriteAssignments
    <3> HIDE DEF taken, assigned
    <3>2. \A x \in found : x.type \in {"assignee_no_subject", "local_assignment_override"}
      OBVIOUS
    <3> HIDE DEF found
    <3> QED BY <3>1, <3>2
  <2>3. UNCHANGED <<tombs, tombEmails, overlapped, merged>>
    BY <1>5 DEF WriteAssignments
  <2> QED BY <2>1, <2>2, <2>3
<1>6. ASSUME NEW j \in Jobs, \/ StartJob(j) \/ TakeLock(j) \/ SkipImport(j) \/ Load(j)
                             \/ WriteActivity(j) \/ WriteInterests(j) \/ PlanMerges(j) \/ Fail(j)
      PROVE  Quiet
  BY <1>6 DEF StartJob, TakeLock, SkipImport, Load, WriteActivity, WriteInterests, PlanMerges, Fail,
              JobsOnly, core
<1>7. CASE UNCHANGED vars
  <2>1. Quiet
    BY <1>7 DEF vars, core
  <2> QED BY <2>1
<1> HIDE DEF Quiet, Same
<1>8. Quiet \/ Same \/ (\E e \in Emails : CreateContact(e)) \/ (\E c \in DOMAIN contacts : DeleteContact(c))
      \/ (\E j \in Jobs : WriteContacts(j) \/ ApplyMerges(j)) \/ DT \/ UNCHANGED vars
  BY <1>2, <1>3, <1>4, <1>5, <1>6 DEF Next, Staff, Job
<1> QED BY <1>1, <1>7, <1>8 DEF Quiet, Same

(* A key identifies a contact. *)
LEMMA KeysIdentify ==
  ASSUME TypeInv, NEW c \in DOMAIN contacts, NEW d \in DOMAIN contacts,
         contacts[c].key \in Posts, contacts[d].key = contacts[c].key
  PROVE  c = d
<1>1. created \in Nat /\ DOMAIN contacts \subseteq 1 .. created /\ Unique(contacts)
  BY ImportAssumption DEF TypeInv, StateOK, RowsOK
<1>2. Distinct(contacts)
  BY <1>1, UniqueIsDistinct
<1> QED BY <1>2 DEF Distinct

LEMMA CreateAddsRow ==
  ASSUME TypeInv, NEW e \in Emails, CreateContact(e)
  PROVE  \E n \in Nat :
           /\ n \notin DOMAIN contacts /\ n = created + 1 /\ DOMAIN contacts' = DOMAIN contacts \cup {n}
           /\ \A d \in DOMAIN contacts : contacts'[d] = contacts[d]
           /\ contacts'[n].key = None /\ contacts'[n].dropped = FALSE
           /\ UNCHANGED <<conflicts, tombs, tombEmails, overlapped, merged, jobs, posts, high>>
<1>1. created \in Nat /\ DOMAIN contacts \subseteq 1 .. created
  BY ImportAssumption DEF TypeInv, StateOK, RowsOK
<1>2. PICK n \in Nat : n = created + 1
  BY <1>1
<1>3. n \notin DOMAIN contacts
  BY <1>1, <1>2
<1> DEFINE row == [key |-> None, email |-> e, content |-> Edited, owner |-> "none", dropped |-> FALSE]
<1>4. row.key = None /\ row.dropped = FALSE
  OBVIOUS
<1>5. contacts' = With(contacts, n, row)
  BY <1>2 DEF CreateContact
<1> HIDE DEF row
<1>6. DOMAIN contacts' = DOMAIN contacts \cup {n} /\ contacts'[n] = row
      /\ \A d \in DOMAIN contacts : d # n => contacts'[d] = contacts[d]
  BY <1>5 DEF With
<1>7. UNCHANGED <<conflicts, tombs, tombEmails, overlapped, merged, jobs, posts, high>>
  BY DEF CreateContact, Request, source
<1> QED BY <1>2, <1>3, <1>4, <1>6, <1>7

-----------------------------------------------------------------------------
(* Dropped e-mails *)

LEMMA DroppedKept ==
  ASSUME TypeInv, DroppedEmailsAreListed, [Next]_vars
  PROVE  DroppedEmailsAreListed'
<1>0. \A c \in DOMAIN contacts : contacts[c].dropped /\ contacts[c].key \notin merged =>
        Listed(conflicts, contacts[c].key)
  BY DEF DroppedEmailsAreListed, Listed, Duplicates
<1> SUFFICES ASSUME NEW c \in DOMAIN contacts', contacts'[c].dropped, contacts'[c].key \notin merged'
             PROVE  Listed(conflicts', contacts'[c].key)
  BY DEF DroppedEmailsAreListed, Listed, Duplicates
<1>1. CASE UNCHANGED <<contacts, conflicts, tombs, tombEmails, overlapped, merged>>
  BY <1>0, <1>1
<1>2. CASE /\ SameRows(contacts', contacts) /\ conflicts \subseteq conflicts'
           /\ \A x \in conflicts' \ conflicts : x.type # "duplicate_email"
           /\ UNCHANGED <<tombs, tombEmails, overlapped, merged>>
  BY <1>0, <1>2 DEF SameRows, Listed
<1>3. ASSUME NEW e \in Emails, CreateContact(e) PROVE Listed(conflicts', contacts'[c].key)
  BY <1>0, <1>3, CreateAddsRow
<1>4. ASSUME NEW d \in DOMAIN contacts, DeleteContact(d) PROVE Listed(conflicts', contacts'[c].key)
  <2>1. /\ c \in DOMAIN contacts /\ c # d /\ contacts'[c] = contacts[c] /\ merged' = merged
        /\ conflicts' = {x \in conflicts : x.post # contacts[d].key}
    BY <1>4, DeleteLeaves DEF Request
  <2>2. PICK x \in conflicts : x.type = "duplicate_email" /\ x.post = contacts[c].key
    BY <1>0, <2>1 DEF Listed
  <2>3. x.post \in Posts
    BY DEF TypeInv, StateOK, Conflict
  <2>4. x.post # contacts[d].key
    BY <2>1, <2>2, <2>3, KeysIdentify
  <2> QED BY <2>1, <2>2, <2>4 DEF Listed
<1>5. ASSUME NEW j \in Jobs, WriteContacts(j) PROVE Listed(conflicts', contacts'[c].key)
  <2>1. PICK out : /\ ImportAcc(jobs[j], out, LastPost)
                   /\ contacts' = out.rows /\ conflicts' = out.conflicts
    BY <1>5, ContactsAreMade
  <2>2. merged' = merged
    BY <1>5 DEF WriteContacts
  <2>3. \/ c \in DOMAIN contacts /\ contacts[c].dropped
        \/ Listed(out.conflicts, out.rows[c].key)
    BY <2>1 DEF ImportAcc
  <2>4. CASE c \in DOMAIN contacts /\ contacts[c].dropped
    <3>1. out.rows[c].key = contacts[c].key /\ conflicts \subseteq out.conflicts
      BY <2>1, <2>4 DEF ImportAcc
    <3> QED BY <1>0, <2>1, <2>2, <2>4, <3>1 DEF Listed
  <2> QED BY <2>1, <2>3, <2>4
<1>6. ASSUME NEW j \in Jobs, ApplyMerges(j) PROVE Listed(conflicts', contacts'[c].key)
  <2>1. PICK out : /\ MergeAcc(jobs[j].plans, out)
                   /\ contacts' = out.rows /\ conflicts' = out.conflicts /\ merged' = out.merged
    BY <1>6, MergesAreMade
  <2>2. /\ c \in DOMAIN contacts /\ out.rows[c] = contacts[c] /\ merged \subseteq out.merged
        /\ \A x \in conflicts \ out.conflicts : x.post \in out.merged
    BY <2>1 DEF MergeAcc
  <2>3. PICK x \in conflicts : x.type = "duplicate_email" /\ x.post = contacts[c].key
    BY <1>0, <2>1, <2>2 DEF Listed
  <2>4. x \in out.conflicts
    BY <2>1, <2>2, <2>3
  <2> QED BY <2>1, <2>2, <2>3, <2>4 DEF Listed
<1> QED BY <1>1, <1>2, <1>3, <1>4, <1>5, <1>6, RowSteps

(* A contact that lost its e-mail in the import to the contact that has it   *)
(* stays on the list of duplicates until a merge takes up one of the two.    *)
THEOREM DroppedAreListed == Spec => []DroppedEmailsAreListed
<1>1. Init => DroppedEmailsAreListed
  BY DEF Init, DroppedEmailsAreListed
<1>2. TypeInv /\ DroppedEmailsAreListed /\ [Next]_vars => DroppedEmailsAreListed'
  BY DroppedKept
<1> QED BY InitTypes, TypesKept, <1>1, <1>2, PTL DEF Spec

-----------------------------------------------------------------------------
(* Deletions *)

Gone == tombs \ overlapped

DeletedInv ==
  /\ \A c \in DOMAIN contacts : contacts[c].key \notin Gone
  /\ \A x \in Duplicates : x.post \notin Gone
  /\ \A j \in Jobs :
       /\ jobs[j].pc = "contacts" => Gone \subseteq jobs[j].tombs
       /\ jobs[j].pc = "merge" => \A pl \in jobs[j].plans : pl.post \notin Gone

(* What a step makes of the job i. *)
LEMMA JobSteps ==
  ASSUME TypeInv, [Next]_vars, NEW i \in Jobs
  PROVE  \/ jobs'[i] = jobs[i]
         \/ jobs'[i].pc \notin {"contacts", "merge"}
         \/ Load(i) /\ jobs'[i].tombs = tombs /\ jobs'[i].pc = "contacts" /\ jobs'[i].tombEmails = tombEmails
         \/ PlanMerges(i)
<1>0. DOMAIN jobs = Jobs
  BY DEF TypeInv, JobsOK
<1>1. CASE DT \/ Staff \/ UNCHANGED vars
  BY <1>1 DEF DT, EditPost, RemovePost, AddComment, Staff, EditContact, AssignContact, DeleteContact,
              CreateContact, Decide, RemoveInterest, Request, vars
<1>2. ASSUME NEW j \in Jobs, Job(j), j # i PROVE jobs'[i] = jobs[i]
  BY <1>0, <1>2 DEF Job, StartJob, TakeLock, SkipImport, Load, WriteContacts, WriteAssignments,
              WriteActivity, WriteInterests, PlanMerges, ApplyMerges, Fail
<1>3. CASE StartJob(i) \/ TakeLock(i) \/ SkipImport(i) \/ Fail(i) \/ ApplyMerges(i)
  BY <1>0, <1>3 DEF StartJob, TakeLock, SkipImport, Fail, ApplyMerges, Idle
<1>4. CASE WriteContacts(i) \/ WriteAssignments(i) \/ WriteActivity(i) \/ WriteInterests(i)
  <2>1. jobs'[i] = NextTable(jobs[i])
    BY <1>0, <1>4 DEF WriteContacts, WriteAssignments, WriteActivity, WriteInterests
  <2>2. NextTable(jobs[i]).pc \in {"plan", "load"}
    BY DEF NextTable
  <2> QED BY <2>1, <2>2
<1>5. CASE Load(i)
  <2> DEFINE job == jobs[i]
             t == Tables[job.table]
  <2>1. CASE t = "contacts"
    <3>1. jobs'[i] = [pc |-> t, table |-> job.table, watermark |-> job.watermark, posts |-> job.posts,
                      comments |-> job.comments, emailOwner |-> EmailOwners, tombs |-> DeletedKeys,
                      tombEmails |-> tombEmails]
      BY <1>0, <1>5, <2>1 DEF Load
    <3> QED BY <1>5, <2>1, <3>1 DEF DeletedKeys
  <2>2. CASE t # "contacts"
    <3>1. jobs'[i].pc = t
      BY <1>0, <1>5, <2>2 DEF Load
    <3>2. job.table \in 1 .. 4
      BY <1>5 DEF Load, TypeInv, JobsOK, JobOK, InImport, ImportPcs
    <3>3. t # "merge"
      BY <3>2 DEF Tables
    <3> QED BY <2>2, <3>1, <3>3
  <2> QED BY <2>1, <2>2
<1> QED BY <1>1, <1>2, <1>3, <1>4, <1>5 DEF Next, Job

LEMMA DeletedRows ==
  ASSUME TypeInv, DeletedInv, [Next]_vars,
         Gone' \subseteq Gone \/ \E c \in DOMAIN contacts : DeleteContact(c)
  PROVE  /\ \A c \in DOMAIN contacts' : contacts'[c].key \notin Gone'
         /\ \A x \in Duplicates' : x.post \notin Gone'
<1> DEFINE Goal == /\ \A c \in DOMAIN contacts' : contacts'[c].key \notin Gone'
                   /\ \A x \in Duplicates' : x.post \notin Gone'
<1>0. None \notin Gone
  BY ImportAssumption DEF TypeInv, StateOK, Gone, None
<1>1. CASE UNCHANGED <<contacts, conflicts, tombs, tombEmails, overlapped, merged>>
  BY <1>1 DEF DeletedInv, Gone, Duplicates
<1>2. CASE /\ SameRows(contacts', contacts) /\ conflicts \subseteq conflicts'
           /\ \A x \in conflicts' \ conflicts : x.type # "duplicate_email"
           /\ UNCHANGED <<tombs, tombEmails, overlapped, merged>>
  BY <1>2 DEF DeletedInv, Gone, Duplicates, SameRows
<1>3. ASSUME NEW e \in Emails, CreateContact(e) PROVE Goal
  <2>1. Gone' = Gone /\ Duplicates' = Duplicates
    BY <1>3, CreateAddsRow DEF Gone, Duplicates
  <2>2. \A c \in DOMAIN contacts' : contacts'[c].key = None \/ (c \in DOMAIN contacts /\ contacts'[c] = contacts[c])
    BY <1>3, CreateAddsRow
  <2> QED BY <1>0, <2>1, <2>2 DEF DeletedInv
<1>4. ASSUME NEW d \in DOMAIN contacts, DeleteContact(d) PROVE Goal
  <2>1. /\ DOMAIN contacts' = DOMAIN contacts \ {d}
        /\ \A c \in DOMAIN contacts' : contacts'[c] = contacts[c]
        /\ conflicts' = {x \in conflicts : x.post # contacts[d].key}
    BY <1>4, DeleteLeaves
  <2>2. Gone' \subseteq Gone \cup ({contacts[d].key} \ {None})
    <3> DEFINE k == contacts[d].key
    <3>1. CASE k \in Posts /\ tombs' = tombs \cup {k} /\ overlapped \subseteq overlapped' \cup {k}
      <4>1. k # None
        BY <3>1, ImportAssumption DEF None
      <4> QED BY <3>1, <4>1 DEF Gone
    <3>2. CASE UNCHANGED <<tombs, overlapped>>
      BY <3>2 DEF Gone
    <3> QED BY <1>4, <3>1, <3>2, DeleteLeaves
  <2>3. ASSUME NEW c \in DOMAIN contacts' PROVE contacts'[c].key \notin Gone'
    <3>1. c \in DOMAIN contacts /\ c # d /\ contacts'[c] = contacts[c] /\ contacts[c].key \notin Gone
      BY <2>1 DEF DeletedInv
    <3>2. contacts[d].key \in Posts \cup {None}
      BY DEF TypeInv, StateOK, RowsOK, Contact
    <3>3. contacts[d].key # None => contacts[c].key # contacts[d].key
      BY <3>1, <3>2, KeysIdentify
    <3> QED BY <2>2, <3>1, <3>3
  <2>4. ASSUME NEW x \in Duplicates' PROVE x.post \notin Gone'
    <3>1. x \in Duplicates /\ x.post # contacts[d].key
      BY <2>1 DEF Duplicates
    <3> QED BY <2>2, <3>1 DEF DeletedInv
  <2> QED BY <2>3, <2>4
<1>5. ASSUME NEW j \in Jobs, WriteContacts(j) PROVE Goal
  <2>1. PICK out : /\ ImportAcc(jobs[j], out, LastPost)
                   /\ contacts' = out.rows /\ conflicts' = out.conflicts
    BY <1>5, ContactsAreMade
  <2>2. Gone' = Gone /\ Gone \subseteq jobs[j].tombs
    BY <1>5 DEF WriteContacts, Gone, DeletedInv
  <2>3. ASSUME NEW c \in DOMAIN contacts' PROVE contacts'[c].key \notin Gone'
    <3>1. CASE c \in DOMAIN contacts
      <4>1. contacts'[c].key = contacts[c].key
        BY <2>1, <3>1 DEF ImportAcc
      <4> QED BY <2>2, <3>1, <4>1 DEF DeletedInv
    <3>2. CASE c \notin DOMAIN contacts
      <4>1. contacts'[c].key \notin jobs[j].tombs
        BY <2>1, <3>2 DEF ImportAcc
      <4> QED BY <2>2, <4>1
    <3> QED BY <3>1, <3>2
  <2>4. ASSUME NEW x \in Duplicates' PROVE x.post \notin Gone'
    <3>1. x \in out.conflicts /\ x.type = "duplicate_email"
      BY <2>1 DEF Duplicates
    <3>2. CASE x \in conflicts
      BY <2>2, <3>1, <3>2 DEF DeletedInv, Duplicates
    <3>3. CASE x \notin conflicts
      BY <2>1, <2>2, <3>1, <3>3 DEF ImportAcc
    <3> QED BY <3>2, <3>3
  <2> QED BY <2>3, <2>4
<1>6. ASSUME NEW j \in Jobs, ApplyMerges(j) PROVE Goal
  <2>1. PICK out : /\ MergeAcc(jobs[j].plans, out)
                   /\ contacts' = out.rows /\ conflicts' = out.conflicts
    BY <1>6, MergesAreMade
  <2>2. Gone' = Gone /\ \A pl \in jobs[j].plans : pl.post \notin Gone
    BY <1>6 DEF ApplyMerges, Gone, DeletedInv
  <2>3. ASSUME NEW c \in DOMAIN contacts' PROVE contacts'[c].key \notin Gone'
    <3>1. /\ c \in DOMAIN contacts
          /\ out.rows[c] = contacts[c] \/ \E pl \in jobs[j].plans : out.rows[c].key = pl.post
      BY <2>1 DEF MergeAcc
    <3> QED BY <2>1, <2>2, <3>1 DEF DeletedInv
  <2>4. Duplicates' \subseteq Duplicates
    BY <2>1 DEF MergeAcc, Duplicates
  <2> QED BY <2>2, <2>3, <2>4 DEF DeletedInv
<1> QED BY <1>1, <1>2, <1>3, <1>4, <1>5, <1>6, RowSteps

LEMMA DeletedKept ==
  ASSUME TypeInv, DeletedInv, [Next]_vars
  PROVE  DeletedInv'
<1>1. \/ Gone' \subseteq Gone
      \/ \E c \in DOMAIN contacts : DeleteContact(c) /\ ~ \E j \in Jobs : Overlaps(j)
  <2>1. ASSUME NEW c \in DOMAIN contacts, DeleteContact(c), \E j \in Jobs : Overlaps(j)
        PROVE  Gone' \subseteq Gone
    BY <2>1, DeleteLeaves DEF Gone
  <2>2. ASSUME NEW e \in Emails, CreateContact(e) PROVE Gone' \subseteq Gone
    BY <2>2, CreateAddsRow DEF Gone
  <2>3. ASSUME NEW j \in Jobs, WriteContacts(j) \/ ApplyMerges(j) PROVE Gone' \subseteq Gone
    BY <2>3 DEF WriteContacts, ApplyMerges, Gone
  <2>4. ASSUME UNCHANGED <<tombs, overlapped>> PROVE Gone' \subseteq Gone
    BY <2>4 DEF Gone
  <2> QED BY <2>1, <2>2, <2>3, <2>4, RowSteps
<1>2. /\ \A c \in DOMAIN contacts' : contacts'[c].key \notin Gone'
      /\ \A x \in Duplicates' : x.post \notin Gone'
  BY <1>1, DeletedRows
<1>3. ASSUME NEW i \in Jobs
      PROVE  /\ jobs'[i].pc = "contacts" => Gone' \subseteq jobs'[i].tombs
             /\ jobs'[i].pc = "merge" => \A pl \in jobs'[i].plans : pl.post \notin Gone'
  <2>1. CASE jobs'[i] = jobs[i]
    <3>1. CASE Gone' \subseteq Gone
      BY <2>1, <3>1 DEF DeletedInv
    <3>2. CASE ~ \E j \in Jobs : Overlaps(j)
      BY <2>1, <3>2 DEF Overlaps
    <3> QED BY <1>1, <3>1, <3>2
  <2>2. CASE jobs'[i].pc \notin {"contacts", "merge"}
    BY <2>2
  <2>3. CASE Load(i) /\ jobs'[i].tombs = tombs /\ jobs'[i].pc = "contacts"
    BY <2>3 DEF Load, JobsOnly, core, Gone
  <2>4. CASE PlanMerges(i)
    <3>1. PICK S \in SUBSET Duplicates :
             /\ \A x \in S : Mergeable(x)
             /\ jobs' = [jobs EXCEPT ![i] = [pc |-> "merge", plans |-> {PlanOf(x) : x \in S}]]
      BY <2>4, PlansAre
    <3>2. jobs'[i].pc = "merge" /\ jobs'[i].plans = {PlanOf(x) : x \in S}
      BY <3>1 DEF TypeInv, JobsOK
    <3>3. Gone' = Gone
      BY <2>4 DEF PlanMerges, JobsOnly, core, Gone
    <3>4. \A pl \in jobs'[i].plans : pl.post \notin Gone
      BY <3>1, <3>2, PlanSays DEF DeletedInv
    <3> QED BY <3>2, <3>3, <3>4
  <2> QED BY <2>1, <2>2, <2>3, <2>4, JobSteps
<1> QED BY <1>2, <1>3 DEF DeletedInv

(* A contact deleted in the core does not return, by the import or a merge,  *)
(* unless a job that had read what it would write was under way.            *)
THEOREM DeletedAreGone == Spec => []DeletedStayDeleted
<1>1. Init => DeletedInv
  BY DEF Init, DeletedInv, Gone, Duplicates, Idle
<1>2. DeletedInv => DeletedStayDeleted
  BY DEF DeletedInv, DeletedStayDeleted, WithKey, Gone
<1>3. TypeInv /\ DeletedInv /\ [Next]_vars => DeletedInv'
  BY DeletedKept
<1> QED BY InitTypes, TypesKept, <1>1, <1>2, <1>3, PTL DEF Spec

-----------------------------------------------------------------------------
(* The watermark.  A mark is a time up to which the core is to have all      *)
(* there is in DT: what a table has recorded, or a job has resolved.        *)

Cover(p, post, rows, tb, te, done) ==
  \/ p \in tb \/ p \in done \/ post.email \in te
  \/ \E c \in DOMAIN rows :
       rows[c].key = p /\ rows[c].content \in {post.stamp, Edited, DoNotEngage}

Covered(p) == Cover(p, posts[p], contacts, tombs, tombEmails, merged)

IsMark(w) ==
  \/ \E t \in DOMAIN high : w = high[t]
  \/ \E i \in Jobs : Marked(jobs[i]) /\ w = jobs[i].watermark

(* The times a job's snapshot may give its tables. *)
InSnapshot(job, w) ==
  \/ \E p \in DOMAIN job.posts : w = job.posts[p].stamp
  \/ \E m \in DOMAIN job.comments : w = job.comments[m]

AsRead(job, ps, p) == p \in DOMAIN job.posts /\ job.posts[p] = ps[p]

MarksHold == \A p \in DOMAIN posts : \A w \in Nat : IsMark(w) /\ posts[p].stamp <= w => Covered(p)

SnapshotsHold ==
  \A i \in Jobs : InImport(jobs[i]) => \A p \in DOMAIN posts :
    \/ AsRead(jobs[i], posts, p)
    \/ \A w \in Nat : IsMark(w) \/ InSnapshot(jobs[i], w) => w < posts[p].stamp

ContactsFirst ==
  \A i \in Jobs : InImport(jobs[i]) /\ jobs[i].table # 1 =>
    \A p \in DOMAIN posts : AsRead(jobs[i], posts, p) => Covered(p)

OneImport == \A i, k \in Jobs : InImport(jobs[i]) /\ InImport(jobs[k]) => i = k

LosersHold ==
  \A i \in Jobs : jobs[i].pc = "merge" => \A pl \in jobs[i].plans : LoserOK(pl, contacts, merged)

CaughtInv == MarksHold /\ SnapshotsHold /\ ContactsFirst /\ OneImport /\ LosersHold

LEMMA MarksArePast ==
  ASSUME TypeInv
  PROVE  /\ clock \in Nat
         /\ \A p \in DOMAIN posts : posts[p].stamp \in Nat /\ posts[p].stamp # 0 /\ posts[p].stamp <= clock
         /\ \A w : IsMark(w) => w \in Nat /\ w <= clock
         /\ \A w : \A i \in Jobs : InImport(jobs[i]) /\ InSnapshot(jobs[i], w) => w \in Nat /\ w <= clock
<1>1. clock \in Nat
  BY ImportAssumption DEF TypeInv, StateOK
<1>2. \A x \in Stamps : x \in Nat /\ x # 0
  BY ImportAssumption DEF Stamps
<1>3. \A p \in DOMAIN posts : posts[p].stamp \in Nat /\ posts[p].stamp # 0 /\ posts[p].stamp <= clock
  BY <1>2 DEF TypeInv, StateOK, PostsOK, Post
<1>4. ASSUME NEW w, IsMark(w) PROVE w \in Nat /\ w <= clock
  <2>1. w \in 0 .. clock
    BY <1>4 DEF IsMark, TypeInv, StateOK, JobsOK, JobOK
  <2> QED BY <1>1, <2>1
<1>5. ASSUME NEW i \in Jobs, NEW w, InImport(jobs[i]), InSnapshot(jobs[i], w) PROVE w \in Nat /\ w <= clock
  <2>1. PostsOK(jobs[i].posts, clock) /\ CommentsOK(jobs[i].comments, clock)
    BY <1>5 DEF TypeInv, JobsOK, JobOK
  <2>2. \A p \in DOMAIN jobs[i].posts : jobs[i].posts[p].stamp \in Nat /\ jobs[i].posts[p].stamp <= clock
    BY <1>2, <2>1 DEF PostsOK, Post
  <2>3. \A m \in DOMAIN jobs[i].comments : jobs[i].comments[m] \in Nat /\ jobs[i].comments[m] <= clock
    BY <1>2, <2>1 DEF CommentsOK
  <2> QED BY <1>5, <2>2, <2>3 DEF InSnapshot
<1> QED BY <1>1, <1>3, <1>4, <1>5

Writes(i) == WriteContacts(i) \/ WriteAssignments(i) \/ WriteActivity(i) \/ WriteInterests(i)

LEMMA ImportSteps ==
  ASSUME TypeInv, [Next]_vars, NEW i \in Jobs, Marked(jobs'[i])
  PROVE  \/ /\ jobs'[i].pc = "lock" /\ jobs'[i].watermark \in {AutoWatermark, None}
         \/ /\ TakeLock(i) /\ Marked(jobs[i]) /\ jobs'[i].watermark = jobs[i].watermark
            /\ jobs'[i].posts = posts /\ jobs'[i].table = 1 /\ posts' = posts
         \/ /\ jobs'[i].watermark = jobs[i].watermark /\ Marked(jobs[i])
            /\ InImport(jobs'[i]) =>
                 /\ InImport(jobs[i])
                 /\ jobs'[i].posts = jobs[i].posts /\ jobs'[i].comments = jobs[i].comments
                 /\ jobs'[i].table = jobs[i].table \/ Writes(i)
<1>0. DOMAIN jobs = Jobs
  BY DEF TypeInv, JobsOK
<1>1. CASE DT \/ Staff \/ UNCHANGED vars
  <2>1. jobs' = jobs
    BY <1>1 DEF DT, EditPost, RemovePost, AddComment, Staff, EditContact, AssignContact, DeleteContact,
              CreateContact, Decide, RemoveInterest, Request, vars
  <2> QED BY <2>1
<1>2. ASSUME NEW j \in Jobs, Job(j), j # i PROVE jobs'[i] = jobs[i]
  BY <1>0, <1>2 DEF Job, StartJob, TakeLock, SkipImport, Load, WriteContacts, WriteAssignments,
              WriteActivity, WriteInterests, PlanMerges, ApplyMerges, Fail
<1>3. CASE StartJob(i)
  BY <1>0, <1>3 DEF StartJob
<1>4. CASE TakeLock(i)
  <2>1. jobs'[i] = [pc |-> "load", table |-> 1, watermark |-> jobs[i].watermark,
                    posts |-> posts, comments |-> comments]
    BY <1>0, <1>4 DEF TakeLock
  <2>2. posts' = posts /\ Marked(jobs[i])
    BY <1>4 DEF TakeLock, JobsOnly, source, Marked
  <2> QED BY <1>4, <2>1, <2>2
<1>5. CASE SkipImport(i) \/ Fail(i) \/ ApplyMerges(i) \/ PlanMerges(i)
  <2>1. jobs'[i].pc \in {"plan", "idle", "merge"}
    BY <1>0, <1>5 DEF SkipImport, Fail, ApplyMerges, PlanMerges, Idle
  <2> QED BY <2>1 DEF Marked, InImport, ImportPcs
<1>6. CASE Load(i)
  <2> DEFINE job == jobs[i]
             t == Tables[job.table]
  <2>1. job.pc = "load"
    BY <1>6 DEF Load
  <2>2. /\ jobs'[i].watermark = job.watermark /\ jobs'[i].posts = job.posts
        /\ jobs'[i].comments = job.comments /\ jobs'[i].table = job.table
    <3>1. CASE t = "contacts"
      <4>1. jobs'[i] = [pc |-> t, table |-> job.table, watermark |-> job.watermark, posts |-> job.posts,
                        comments |-> job.comments, emailOwner |-> EmailOwners, tombs |-> DeletedKeys,
                        tombEmails |-> tombEmails]
        BY <1>0, <1>6, <3>1 DEF Load
      <4> QED BY <4>1
    <3>2. CASE t # "contacts"
      <4>1. jobs'[i] = [pc |-> t, table |-> job.table, watermark |-> job.watermark, posts |-> job.posts,
                        comments |-> job.comments, contactOf |-> PostToContact]
        BY <1>0, <1>6, <3>2 DEF Load
      <4> QED BY <4>1
    <3> QED BY <3>1, <3>2
  <2>3. InImport(job) /\ Marked(job)
    BY <2>1 DEF Marked, InImport, ImportPcs
  <2> QED BY <2>2, <2>3
<1>7. CASE Writes(i)
  <2> DEFINE job == jobs[i]
  <2>1. jobs'[i] = NextTable(job)
    BY <1>0, <1>7 DEF Writes, WriteContacts, WriteAssignments, WriteActivity, WriteInterests
  <2>2. InImport(job) /\ Marked(job)
    BY <1>7 DEF Writes, WriteContacts, WriteAssignments, WriteActivity, WriteInterests, Marked, InImport, ImportPcs
  <2>3. CASE job.table = Len(Tables)
    <3>1. NextTable(job).pc = "plan"
      BY <2>3 DEF NextTable
    <3> QED BY <2>1, <3>1 DEF Marked, InImport, ImportPcs
  <2>4. CASE job.table # Len(Tables)
    <3>1. NextTable(job) = [pc |-> "load", table |-> job.table + 1, watermark |-> job.watermark,
                            posts |-> job.posts, comments |-> job.comments]
      BY <2>4 DEF NextTable
    <3> QED BY <1>7, <2>1, <2>2, <3>1
  <2> QED BY <2>3, <2>4
<1>8. (\E j \in Jobs : Job(j)) => (\E j \in Jobs : Job(j) /\ j # i) \/ Job(i)
  OBVIOUS
<1>9. Job(i) => \/ StartJob(i) \/ TakeLock(i) \/ SkipImport(i) \/ Fail(i) \/ ApplyMerges(i) \/ PlanMerges(i)
                \/ Load(i) \/ Writes(i)
  BY DEF Job, Writes
<1>10. CASE jobs'[i] = jobs[i]
  BY <1>10
<1> QED BY <1>1, <1>2, <1>3, <1>4, <1>5, <1>6, <1>7, <1>8, <1>9, <1>10 DEF Next

(* The import covers what is still as its snapshot has it. *)
LEMMA ImportCovers ==
  ASSUME TypeInv, NEW j \in Jobs, WriteContacts(j), NEW p \in DOMAIN posts, AsRead(jobs[j], posts, p),
         posts[p].stamp <= jobs[j].watermark => Covered(p)
  PROVE  Covered(p)'
<1> DEFINE job == jobs[j]
<1>1. PICK out : ImportAcc(job, out, LastPost) /\ contacts' = out.rows
  BY ContactsAreMade
<1>2. UNCHANGED <<posts, tombs, tombEmails, merged>>
  BY DEF WriteContacts, source
<1>3. /\ job.tombs \subseteq tombs /\ job.tombEmails \subseteq tombEmails
      /\ job.watermark \in Nat /\ posts[p].stamp \in Nat /\ p \in Posts
  <2>1. job.pc = "contacts" /\ Marked(job)
    BY DEF WriteContacts, Marked, InImport, ImportPcs
  <2>2. job.tombs \subseteq tombs /\ job.tombEmails \subseteq tombEmails /\ job.watermark \in 0 .. clock
    BY <2>1 DEF TypeInv, JobsOK, JobOK
  <2>3. posts[p].stamp \in Nat
    BY MarksArePast
  <2> QED BY <2>2, <2>3 DEF TypeInv, StateOK, PostsOK
<1>4. CASE p \in tombs \/ p \in merged \/ posts[p].email \in tombEmails
  BY <1>2, <1>4 DEF Covered, Cover
<1>5. CASE ~(p \in tombs \/ p \in merged \/ posts[p].email \in tombEmails)
  <2>1. CASE p \in Delta(job)
    <3>1. ~Skips(job, p)
      BY <1>3, <1>5 DEF Skips, AsRead
    <3>2. p <= LastPost
      BY <1>3, LastPostIsLast
    <3>3. \E c \in DOMAIN out.rows : out.rows[c].key = p /\ out.rows[c].content = job.posts[p].stamp
      BY <1>1, <2>1, <3>1, <3>2 DEF ImportAcc
    <3> QED BY <1>1, <1>2, <3>3 DEF Covered, Cover, AsRead
  <2>2. CASE p \notin Delta(job)
    <3>1. posts[p].stamp <= job.watermark
      BY <1>3, <2>2 DEF Delta, AsRead
    <3>2. PICK c \in DOMAIN contacts :
            contacts[c].key = p /\ contacts[c].content \in {posts[p].stamp, Edited, DoNotEngage}
      BY <1>5, <3>1 DEF Covered, Cover
    <3>3. c \in DOMAIN out.rows /\ out.rows[c] = contacts[c]
      BY <1>1, <2>2, <3>2 DEF ImportAcc
    <3> QED BY <1>1, <1>2, <3>2, <3>3 DEF Covered, Cover
  <2> QED BY <2>1, <2>2
<1> QED BY <1>4, <1>5

LEMMA CoverKept ==
  ASSUME TypeInv, LosersHold, [Next]_vars, NEW p \in DOMAIN posts, p \in DOMAIN posts', posts'[p] = posts[p],
         Covered(p), \A j \in Jobs : WriteContacts(j) => AsRead(jobs[j], posts, p)
  PROVE  Covered(p)'
<1> DEFINE Ok == {posts[p].stamp, Edited, DoNotEngage}
           Row(rows) == \E c \in DOMAIN rows : rows[c].key = p /\ rows[c].content \in Ok
           Known(rows, tb, te, done) == p \in tb \/ p \in done \/ posts[p].email \in te \/ Row(rows)
<1>0. p \in Posts /\ p # None
  BY ImportAssumption DEF TypeInv, StateOK, PostsOK, None
<1>1. Known(contacts, tombs, tombEmails, merged)
  BY DEF Covered, Cover
<1> SUFFICES Known(contacts', tombs', tombEmails', merged')
  BY DEF Covered, Cover
<1>2. CASE UNCHANGED <<contacts, conflicts, tombs, tombEmails, overlapped, merged>>
  BY <1>1, <1>2
<1>3. CASE SameRows(contacts', contacts) /\ UNCHANGED <<tombs, tombEmails, overlapped, merged>>
  <2>1. Row(contacts) => Row(contacts')
    BY <1>3 DEF SameRows
  <2> HIDE DEF Row
  <2> QED BY <1>1, <1>3, <2>1
<1>4. ASSUME NEW e \in Emails, CreateContact(e) PROVE Known(contacts', tombs', tombEmails', merged')
  <2>1. Row(contacts) => Row(contacts')
    BY <1>4, CreateAddsRow
  <2>2. UNCHANGED <<tombs, tombEmails, merged>>
    BY <1>4, CreateAddsRow
  <2> HIDE DEF Row
  <2> QED BY <1>1, <2>1, <2>2
<1>5. ASSUME NEW d \in DOMAIN contacts, DeleteContact(d) PROVE Known(contacts', tombs', tombEmails', merged')
  <2>1. /\ DOMAIN contacts' = DOMAIN contacts \ {d}
        /\ \A c \in DOMAIN contacts' : contacts'[c] = contacts[c]
        /\ merged' = merged
    BY <1>5, DeleteLeaves DEF Request
  <2>2. tombs \subseteq tombs' /\ tombEmails \subseteq tombEmails'
    BY <1>5, DeleteLeaves
  <2>3. contacts[d].key = p => p \in tombs'
    BY <1>0, <1>5, DeleteLeaves
  <2>4. CASE Row(contacts)
    BY <2>1, <2>3, <2>4
  <2>5. CASE ~Row(contacts)
    <3> HIDE DEF Row
    <3> QED BY <1>1, <2>1, <2>2, <2>5
  <2> QED BY <2>4, <2>5
<1>6. ASSUME NEW j \in Jobs, WriteContacts(j) PROVE Known(contacts', tombs', tombEmails', merged')
  <2>1. Covered(p)'
    BY <1>6, ImportCovers
  <2> QED BY <2>1 DEF Covered, Cover
<1>7. ASSUME NEW j \in Jobs, ApplyMerges(j) PROVE Known(contacts', tombs', tombEmails', merged')
  <2>1. PICK out : MergeAcc(jobs[j].plans, out) /\ contacts' = out.rows /\ merged' = out.merged
    BY <1>7, MergesAreMade
  <2>2. UNCHANGED <<tombs, tombEmails>> /\ merged \subseteq merged'
    BY <1>7, <2>1 DEF ApplyMerges, MergeAcc
  <2>3. \A pl \in jobs[j].plans : LoserOK(pl, contacts, merged)
    BY <1>7 DEF ApplyMerges, LosersHold
  <2>4. \A c \in DOMAIN contacts :
          \/ c \in DOMAIN out.rows /\ out.rows[c] = contacts[c]
          \/ contacts[c].key \in out.merged \cup {None}
    BY <2>1, <2>3 DEF MergeAcc
  <2>5. CASE Row(contacts)
    BY <1>0, <2>1, <2>4, <2>5
  <2>6. CASE ~Row(contacts)
    <3> HIDE DEF Row
    <3> QED BY <1>1, <2>2, <2>6
  <2> QED BY <2>5, <2>6
<1> QED BY <1>2, <1>3, <1>4, <1>5, <1>6, <1>7, RowSteps

LEMMA LosersKept ==
  ASSUME TypeInv, LosersHold, [Next]_vars
  PROVE  LosersHold'
<1> SUFFICES ASSUME NEW i \in Jobs, jobs'[i].pc = "merge", NEW pl \in jobs'[i].plans
             PROVE  LoserOK(pl, contacts', merged')
  BY DEF LosersHold
<1>1. CASE PlanMerges(i)
  <2>1. PICK S \in SUBSET Duplicates :
           /\ \A x \in S : Mergeable(x)
           /\ jobs' = [jobs EXCEPT ![i] = [pc |-> "merge", plans |-> {PlanOf(x) : x \in S}]]
    BY <1>1, PlansAre
  <2>2. jobs'[i].plans = {PlanOf(x) : x \in S}
    BY <2>1 DEF TypeInv, JobsOK
  <2>3. contacts' = contacts /\ merged' = merged
    BY <1>1 DEF PlanMerges, JobsOnly, core
  <2>4. PICK x \in S : pl = PlanOf(x)
    BY <2>2
  <2>5. pl.post = x.post /\ (pl.loser \in DOMAIN contacts => contacts[pl.loser].key = x.post)
    BY <2>1, <2>4, PlanSays
  <2> QED BY <2>3, <2>5 DEF LoserOK
<1>2. CASE jobs'[i] = jobs[i]
  <2>1. LoserOK(pl, contacts, merged) /\ pl.loser \in 0 .. created
    BY <1>2 DEF LosersHold, TypeInv, JobsOK, JobOK, PlanOK
  <2>2. created \in Nat
    BY ImportAssumption DEF TypeInv, StateOK
  <2>3. CASE UNCHANGED <<contacts, conflicts, tombs, tombEmails, overlapped, merged>>
    BY <2>1, <2>3 DEF LoserOK
  <2>4. CASE SameRows(contacts', contacts) /\ UNCHANGED <<tombs, tombEmails, overlapped, merged>>
    BY <2>1, <2>4 DEF LoserOK, SameRows
  <2>5. ASSUME NEW e \in Emails, CreateContact(e) PROVE LoserOK(pl, contacts', merged')
    <3>1. PICK n \in Nat :
            /\ n = created + 1 /\ DOMAIN contacts' = DOMAIN contacts \cup {n}
            /\ \A d \in DOMAIN contacts : contacts'[d] = contacts[d]
            /\ merged' = merged
      BY <2>5, CreateAddsRow
    <3>2. pl.loser # n
      BY <2>1, <2>2, <3>1
    <3> QED BY <2>1, <3>1, <3>2 DEF LoserOK
  <2>6. ASSUME NEW d \in DOMAIN contacts, DeleteContact(d) PROVE LoserOK(pl, contacts', merged')
    <3>1. /\ DOMAIN contacts' = DOMAIN contacts \ {d}
          /\ \A c \in DOMAIN contacts' : contacts'[c] = contacts[c]
          /\ merged' = merged
      BY <2>6, DeleteLeaves DEF Request
    <3> QED BY <2>1, <3>1 DEF LoserOK
  <2>7. ASSUME NEW j \in Jobs, WriteContacts(j) PROVE LoserOK(pl, contacts', merged')
    <3>1. PICK out : ImportAcc(jobs[j], out, LastPost) /\ contacts' = out.rows
      BY <2>7, ContactsAreMade
    <3>2. merged' = merged
      BY <2>7 DEF WriteContacts
    <3>3. pl.loser \in DOMAIN out.rows => pl.loser \in DOMAIN contacts
      <4>1. \A c \in DOMAIN out.rows \ DOMAIN contacts : c > created
        BY <3>1 DEF ImportAcc
      <4> QED BY <2>1, <2>2, <4>1
    <3>4. \A c \in DOMAIN contacts : out.rows[c].key = contacts[c].key
      BY <3>1 DEF ImportAcc
    <3> QED BY <2>1, <3>1, <3>2, <3>3, <3>4 DEF LoserOK
  <2>8. ASSUME NEW j \in Jobs, ApplyMerges(j) PROVE LoserOK(pl, contacts', merged')
    <3>1. PICK out : MergeAcc(jobs[j].plans, out) /\ contacts' = out.rows /\ merged' = out.merged
      BY <2>8, MergesAreMade
    <3>2. /\ DOMAIN out.rows \subseteq DOMAIN contacts /\ merged \subseteq out.merged
          /\ \A c \in DOMAIN out.rows : out.rows[c] = contacts[c] \/ out.rows[c].key \in out.merged
      BY <3>1 DEF MergeAcc
    <3> QED BY <2>1, <3>1, <3>2 DEF LoserOK
  <2> QED BY <2>3, <2>4, <2>5, <2>6, <2>7, <2>8, RowSteps
<1> QED BY <1>1, <1>2, JobSteps

(* A new mark is one of the snapshot of the job that writes it. *)
LEMMA MarkSteps ==
  ASSUME TypeInv, [Next]_vars, NEW w, IsMark(w)'
  PROVE  \/ IsMark(w) \/ w = None
         \/ \E j \in Jobs : (WriteContacts(j) \/ WriteActivity(j)) /\ InImport(jobs[j]) /\ InSnapshot(jobs[j], w)
<1>1. CASE \E i \in Jobs : Marked(jobs'[i]) /\ w = jobs'[i].watermark
  <2>1. PICK i \in Jobs : Marked(jobs'[i]) /\ w = jobs'[i].watermark
    BY <1>1
  <2>2. AutoWatermark = None \/ \E t \in DOMAIN high : AutoWatermark = high[t]
    BY WatermarkIsHigh DEF TypeInv
  <2>3. (Marked(jobs[i]) /\ w = jobs[i].watermark) \/ w \in {AutoWatermark, None}
    BY <2>1, ImportSteps
  <2> QED BY <2>2, <2>3 DEF IsMark
<1>2. CASE \E t \in DOMAIN high' : w = high'[t]
  <2>1. CASE high' = high
    BY <1>2, <2>1 DEF IsMark
  <2>2. ASSUME NEW j \in Jobs, WriteContacts(j)
        PROVE  IsMark(w) \/ w = None \/ InSnapshot(jobs[j], w)
    <3>1. InImport(jobs[j])
      BY <2>2 DEF WriteContacts, InImport, ImportPcs
    <3>2. PICK a, b : a = high["contacts"] /\ b = NewestPost(jobs[j])
      OBVIOUS
    <3>3. high' = [high EXCEPT !["contacts"] = Later(a, b)]
      BY <2>2, <3>2 DEF WriteContacts
    <3>4. w = a \/ w = b \/ \E t \in DOMAIN high : w = high[t]
      BY <1>2, <3>3 DEF Later
    <3>5. b # None => \E p \in DOMAIN jobs[j].posts : b = jobs[j].posts[p].stamp
      <4>1. PostsOK(jobs[j].posts, clock) /\ CommentsOK(jobs[j].comments, clock) /\ clock \in Nat
        BY <3>1, MarksArePast DEF TypeInv, JobsOK, JobOK
      <4> QED BY <3>2, <4>1, NewestIsOfSnapshot
    <3> QED BY <3>2, <3>4, <3>5 DEF IsMark, InSnapshot, TypeInv, StateOK
  <2>3. ASSUME NEW j \in Jobs, WriteActivity(j)
        PROVE  IsMark(w) \/ w = None \/ InSnapshot(jobs[j], w)
    <3>1. InImport(jobs[j])
      BY <2>3 DEF WriteActivity, InImport, ImportPcs
    <3>2. PICK a, b : /\ a = high["activity_log"]
                      /\ b = Max({jobs[j].comments[m] : m \in DOMAIN jobs[j].comments} \cup {None})
      OBVIOUS
    <3>3. high' = [high EXCEPT !["activity_log"] = Later(a, b)]
      BY <2>3, <3>2 DEF WriteActivity
    <3>4. w = a \/ w = b \/ \E t \in DOMAIN high : w = high[t]
      BY <1>2, <3>3 DEF Later
    <3>5. b # None => \E m \in DOMAIN jobs[j].comments : b = jobs[j].comments[m]
      <4>1. CommentsOK(jobs[j].comments, clock) /\ clock \in Nat
        BY <3>1, MarksArePast DEF TypeInv, JobsOK, JobOK
      <4> QED BY <3>2, <4>1, NewestCommentIsOfSnapshot
    <3> QED BY <3>2, <3>4, <3>5 DEF IsMark, InSnapshot, TypeInv, StateOK
  <2>4. high' = high \/ \E j \in Jobs : WriteContacts(j) \/ WriteActivity(j)
    BY DEF Next, DT, EditPost, RemovePost, AddComment, Staff, EditContact, AssignContact, DeleteContact,
           CreateContact, Decide, RemoveInterest, Request, Job, StartJob, TakeLock, SkipImport, Load,
           WriteAssignments, WriteInterests, PlanMerges, ApplyMerges, Fail, JobsOnly, core, vars
  <2>5. \A j \in Jobs : WriteContacts(j) \/ WriteActivity(j) => InImport(jobs[j])
    BY DEF WriteContacts, WriteActivity, InImport, ImportPcs
  <2> QED BY <2>1, <2>2, <2>3, <2>4, <2>5
<1> QED BY <1>1, <1>2 DEF IsMark

LEMMA PostSteps ==
  ASSUME TypeInv, [Next]_vars, NEW p \in DOMAIN posts'
  PROVE  \/ p \in DOMAIN posts /\ posts'[p] = posts[p]
         \/ posts'[p].stamp = clock + 1 /\ UNCHANGED <<jobs, high>>
<1>1. CASE posts' = posts
  BY <1>1
<1>2. ASSUME NEW q \in Posts, EditPost(q)
      PROVE  \/ p \in DOMAIN posts /\ posts'[p] = posts[p]
             \/ posts'[p].stamp = clock + 1 /\ UNCHANGED <<jobs, high>>
  <2>1. PICK e \in Emails \cup {None}, ok \in BOOLEAN :
          posts' = With(posts, q, [stamp |-> clock', email |-> e, mapped |-> ok])
    BY <1>2 DEF EditPost
  <2>2. p = q => posts'[p] = [stamp |-> clock', email |-> e, mapped |-> ok]
    BY <2>1 DEF With
  <2>3. p # q => p \in DOMAIN posts /\ posts'[p] = posts[p]
    BY <2>1 DEF With
  <2>4. clock' = clock + 1 /\ UNCHANGED <<jobs, high>>
    BY <1>2 DEF EditPost, core
  <2> QED BY <2>2, <2>3, <2>4
<1>3. ASSUME NEW q \in Posts, RemovePost(q) PROVE p \in DOMAIN posts /\ posts'[p] = posts[p]
  BY <1>3 DEF RemovePost, Without
<1>4. posts' = posts \/ \E q \in Posts : EditPost(q) \/ RemovePost(q)
  BY DEF Next, DT, AddComment, Staff, EditContact, AssignContact, DeleteContact, source,
         CreateContact, Decide, RemoveInterest, Request, Job, StartJob, TakeLock, SkipImport, Load,
         WriteContacts, WriteActivity,
         WriteAssignments, WriteInterests, PlanMerges, ApplyMerges, Fail, JobsOnly, vars
<1> QED BY <1>1, <1>2, <1>3, <1>4

LEMMA MarksKept ==
  ASSUME TypeInv, CaughtInv, [Next]_vars
  PROVE  MarksHold'
<1> SUFFICES ASSUME NEW p \in DOMAIN posts', NEW w \in Nat, IsMark(w)', posts'[p].stamp <= w
             PROVE  Covered(p)'
  BY DEF MarksHold
<1>1. CASE posts'[p].stamp = clock + 1 /\ UNCHANGED <<jobs, high>>
  <2>1. IsMark(w)
    BY <1>1 DEF IsMark, Marked, InImport
  <2>2. clock \in Nat /\ w <= clock
    BY <2>1, MarksArePast
  <2> QED BY <1>1, <2>2
<1>2. CASE p \in DOMAIN posts /\ posts'[p] = posts[p]
  <2>1. posts[p].stamp \in Nat /\ posts[p].stamp # 0 /\ posts[p].stamp <= w
    BY <1>2, MarksArePast
  <2>2. w # None
    BY <2>1 DEF None
  <2>3. CASE IsMark(w)
    <3>1. Covered(p)
      BY <1>2, <2>1, <2>3 DEF CaughtInv, MarksHold
    <3>2. ASSUME NEW j \in Jobs, WriteContacts(j) PROVE AsRead(jobs[j], posts, p)
      <4>1. InImport(jobs[j])
        BY <3>2 DEF WriteContacts, InImport, ImportPcs
      <4>2. ~(w < posts[p].stamp)
        BY <2>1
      <4> QED BY <1>2, <2>3, <4>1, <4>2 DEF CaughtInv, SnapshotsHold
    <3> QED BY <1>2, <3>1, <3>2, CoverKept DEF CaughtInv
  <2>4. ASSUME NEW j \in Jobs, WriteContacts(j) \/ WriteActivity(j), InImport(jobs[j]), InSnapshot(jobs[j], w)
        PROVE  Covered(p)'
    <3>1. ~(w < posts[p].stamp)
      BY <2>1
    <3>2. AsRead(jobs[j], posts, p)
      BY <1>2, <2>4, <3>1 DEF CaughtInv, SnapshotsHold
    <3>3. CASE WriteContacts(j)
      <4>1. jobs[j].watermark \in Nat /\ IsMark(jobs[j].watermark)
        BY <2>4, MarksArePast DEF IsMark, Marked
      <4>2. posts[p].stamp <= jobs[j].watermark => Covered(p)
        BY <1>2, <4>1 DEF CaughtInv, MarksHold
      <4> QED BY <1>2, <3>2, <3>3, <4>2, ImportCovers
    <3>4. CASE WriteActivity(j)
      <4>1. jobs[j].pc = "activity_log" /\ jobs[j].pc \in {"load", Tables[jobs[j].table]}
        BY <2>4, <3>4 DEF WriteActivity, TypeInv, JobsOK, JobOK
      <4>2. jobs[j].table # 1
        BY <4>1 DEF Tables
      <4>3. Covered(p)
        BY <1>2, <2>4, <3>2, <4>2 DEF CaughtInv, ContactsFirst
      <4>4. ASSUME NEW k \in Jobs, WriteContacts(k) PROVE AsRead(jobs[k], posts, p)
        <5>1. InImport(jobs[k])
          BY <4>4 DEF WriteContacts, InImport, ImportPcs
        <5> QED BY <2>4, <3>2, <5>1 DEF CaughtInv, OneImport
      <4> QED BY <1>2, <4>3, <4>4, CoverKept DEF CaughtInv
    <3> QED BY <2>4, <3>3, <3>4
  <2> QED BY <2>2, <2>3, <2>4, MarkSteps
<1> QED BY <1>1, <1>2, PostSteps

LEMMA SnapshotsKept ==
  ASSUME TypeInv, CaughtInv, [Next]_vars
  PROVE  SnapshotsHold'
<1> SUFFICES ASSUME NEW i \in Jobs, InImport(jobs'[i]), NEW p \in DOMAIN posts', ~AsRead(jobs'[i], posts', p),
                    NEW w \in Nat, IsMark(w)' \/ InSnapshot(jobs'[i], w)
             PROVE  w < posts'[p].stamp
  BY DEF SnapshotsHold
<1>1. /\ InImport(jobs[i])
      /\ jobs'[i].posts = jobs[i].posts /\ jobs'[i].comments = jobs[i].comments
  <2>1. Marked(jobs'[i]) /\ jobs'[i].pc # "lock"
    BY DEF Marked, InImport, ImportPcs
  <2>2. ~(jobs'[i].posts = posts /\ posts' = posts)
    BY DEF AsRead
  <2> QED BY <2>1, <2>2, ImportSteps
<1>2. InSnapshot(jobs'[i], w) => InSnapshot(jobs[i], w)
  BY <1>1 DEF InSnapshot
<1>3. clock \in Nat /\ (IsMark(w) \/ InSnapshot(jobs[i], w) => w <= clock)
  BY <1>1, MarksArePast
<1>4. CASE posts'[p].stamp = clock + 1 /\ UNCHANGED <<jobs, high>>
  <2>1. IsMark(w)' => IsMark(w)
    BY <1>4 DEF IsMark, Marked, InImport
  <2>2. w <= clock
    BY <1>2, <1>3, <2>1
  <2> QED BY <1>3, <1>4, <2>2
<1>5. CASE p \in DOMAIN posts /\ posts'[p] = posts[p]
  <2>1. ~AsRead(jobs[i], posts, p)
    BY <1>1, <1>5 DEF AsRead
  <2>2. IsMark(w) \/ InSnapshot(jobs[i], w) => w < posts[p].stamp
    BY <1>1, <1>5, <2>1 DEF CaughtInv, SnapshotsHold
  <2>3. w = None => w < posts[p].stamp
    BY <1>5, MarksArePast DEF None
  <2>4. \A j \in Jobs : InImport(jobs[j]) => j = i
    BY <1>1 DEF CaughtInv, OneImport
  <2>5. IsMark(w)' => IsMark(w) \/ w = None \/ InSnapshot(jobs[i], w)
    BY <2>4, MarkSteps
  <2> QED BY <1>2, <1>5, <2>2, <2>3, <2>5
<1> QED BY <1>4, <1>5, PostSteps

LEMMA FirstKept ==
  ASSUME TypeInv, CaughtInv, [Next]_vars
  PROVE  ContactsFirst'
<1> SUFFICES ASSUME NEW i \in Jobs, InImport(jobs'[i]), jobs'[i].table # 1,
                    NEW p \in DOMAIN posts', AsRead(jobs'[i], posts', p)
             PROVE  Covered(p)'
  BY DEF ContactsFirst
<1>1. /\ InImport(jobs[i]) /\ jobs'[i].posts = jobs[i].posts
      /\ jobs'[i].table = jobs[i].table \/ Writes(i)
  <2>1. Marked(jobs'[i]) /\ jobs'[i].pc # "lock"
    BY DEF Marked, InImport, ImportPcs
  <2> QED BY <2>1, ImportSteps
<1>2. p \in DOMAIN posts /\ posts'[p] = posts[p]
  <2>1. p \in DOMAIN jobs[i].posts /\ posts'[p] = jobs[i].posts[p]
    BY <1>1 DEF AsRead
  <2>2. InSnapshot(jobs[i], jobs[i].posts[p].stamp)
    BY <2>1 DEF InSnapshot
  <2>3. clock \in Nat /\ posts'[p].stamp \in Nat /\ posts'[p].stamp <= clock
    BY <1>1, <2>1, <2>2, MarksArePast
  <2>4. posts'[p].stamp # clock + 1
    BY <2>3
  <2> QED BY <2>4, PostSteps
<1>3. AsRead(jobs[i], posts, p)
  BY <1>1, <1>2 DEF AsRead
<1>4. ASSUME NEW k \in Jobs, WriteContacts(k) PROVE k = i
  <2>1. InImport(jobs[k])
    BY <1>4 DEF WriteContacts, InImport, ImportPcs
  <2> QED BY <1>1, <2>1 DEF CaughtInv, OneImport
<1>5. CASE jobs[i].table # 1
  <2>1. Covered(p)
    BY <1>1, <1>2, <1>3, <1>5 DEF CaughtInv, ContactsFirst
  <2> QED BY <1>2, <1>3, <1>4, <2>1, CoverKept DEF CaughtInv
<1>6. CASE jobs[i].table = 1
  <2>1. Writes(i) /\ jobs[i].pc \in {"load", "contacts"}
    BY <1>1, <1>6 DEF TypeInv, JobsOK, JobOK, Tables
  <2>2. WriteContacts(i)
    BY <2>1 DEF Writes, WriteAssignments, WriteActivity, WriteInterests
  <2>3. jobs[i].watermark \in Nat /\ IsMark(jobs[i].watermark)
    BY <1>1, MarksArePast DEF IsMark, Marked
  <2>4. posts[p].stamp <= jobs[i].watermark => Covered(p)
    BY <1>2, <2>3 DEF CaughtInv, MarksHold
  <2> QED BY <1>2, <1>3, <2>2, <2>4, ImportCovers
<1> QED BY <1>5, <1>6

LEMMA OneImportKept ==
  ASSUME TypeInv, OneImport, [Next]_vars
  PROVE  OneImport'
<1> SUFFICES ASSUME NEW i \in Jobs, NEW k \in Jobs, InImport(jobs'[i]), InImport(jobs'[k]), i # k
             PROVE  FALSE
  BY DEF OneImport
<1>1. ASSUME NEW j \in Jobs, InImport(jobs'[j]) PROVE TakeLock(j) \/ InImport(jobs[j])
  <2>1. Marked(jobs'[j]) /\ jobs'[j].pc # "lock"
    BY <1>1 DEF Marked, InImport, ImportPcs
  <2> QED BY <1>1, <2>1, ImportSteps
<1>2. ASSUME NEW j \in Jobs, TakeLock(j), NEW l \in Jobs, l # j PROVE ~InImport(jobs'[l])
  <2>1. jobs'[l] = jobs[l]
    BY <1>2 DEF TakeLock, TypeInv, JobsOK
  <2>2. ~Importing(l)
    BY <1>2 DEF TakeLock, LockFree
  <2>3. InImport(jobs[l]) => Importing(l)
    BY DEF InImport, ImportPcs, Importing, Tables
  <2> QED BY <2>1, <2>2, <2>3
<1> QED BY <1>1, <1>2 DEF OneImport

LEMMA CaughtKept == TypeInv /\ CaughtInv /\ [Next]_vars => CaughtInv'
<1> SUFFICES ASSUME TypeInv, CaughtInv, [Next]_vars PROVE CaughtInv'
  OBVIOUS
<1>1. OneImport /\ LosersHold
  BY DEF CaughtInv
<1> QED BY <1>1, MarksKept, SnapshotsKept, FirstKept, OneImportKept, LosersKept DEF CaughtInv

LEMMA InitCaught == Init => CaughtInv
<1> SUFFICES ASSUME Init PROVE CaughtInv
  OBVIOUS
<1>1. \A i \in Jobs : jobs[i].pc = "idle"
  BY DEF Init, Idle
<1>2. SnapshotsHold /\ ContactsFirst /\ OneImport /\ LosersHold
  BY <1>1 DEF SnapshotsHold, ContactsFirst, OneImport, LosersHold, InImport, ImportPcs
<1>3. ASSUME NEW w, IsMark(w) PROVE w = 0
  BY <1>1, <1>3 DEF IsMark, Marked, InImport, ImportPcs, Init, None
<1>4. \A p \in DOMAIN posts : posts[p].stamp \in Nat /\ posts[p].stamp # 0
  BY InitTypes, MarksArePast
<1>5. MarksHold
  BY <1>3, <1>4 DEF MarksHold
<1> QED BY <1>2, <1>5 DEF CaughtInv

LEMMA CaughtIsUp == TypeInv /\ CaughtInv => CaughtUp
<1> SUFFICES ASSUME TypeInv, CaughtInv, NEW p \in DOMAIN posts \ (tombs \cup merged),
                    posts[p].stamp <= AutoWatermark, posts[p].email \notin tombEmails
             PROVE  \E c \in WithKey(contacts, p) :
                      contacts[c].content \in {posts[p].stamp, Edited, DoNotEngage}
  BY DEF CaughtUp
<1>1. p \in DOMAIN posts /\ posts[p].stamp \in Nat /\ posts[p].stamp # 0
  BY MarksArePast
<1>2. AutoWatermark # None
  BY <1>1 DEF None
<1>3. IsMark(AutoWatermark)
  BY <1>2, WatermarkIsHigh DEF IsMark, TypeInv
<1>4. AutoWatermark \in Nat
  BY <1>3, MarksArePast
<1>5. Covered(p)
  BY <1>1, <1>3, <1>4 DEF CaughtInv, MarksHold
<1> QED BY <1>1, <1>5 DEF Covered, Cover, WithKey

(* A run may read only what is newer than its watermark: all that is older   *)
(* has reached the core, or was deleted or merged there.                     *)
THEOREM CoreHasCaughtUp == Spec => []CaughtUp
<1>1. Spec => [](TypeInv /\ CaughtInv)
  BY InitTypes, TypesKept, InitCaught, CaughtKept, PTL DEF Spec
<1> QED BY <1>1, CaughtIsUp, PTL

-----------------------------------------------------------------------------
(* What jobs keep *)

KeepsStaffs ==
  jobs' # jobs =>
    /\ DOMAIN children \cap Comments \subseteq DOMAIN children'
    /\ \A c \in DOMAIN contacts :
         IF c \in DOMAIN contacts'
         THEN contacts[c].owner = "staff" => contacts'[c].owner = "staff"
         ELSE contacts[c].key \in merged'

LEMMA AssignmentsKeep ==
  ASSUME TypeInv, NEW j \in Jobs, WriteAssignments(j)
  PROVE  \A c \in DOMAIN contacts : contacts[c].owner = "staff" => contacts'[c].owner = "staff"
<1> SUFFICES ASSUME NEW c \in DOMAIN contacts, contacts[c].owner = "staff"
             PROVE  contacts'[c].owner = "staff"
  OBVIOUS
<1> DEFINE job == jobs[j]
           written == Delta(job) \cap DOMAIN job.contactOf \cap Assigned \cap SignedIn
           taken == {p \in written : ~MayReassign(contacts[job.contactOf[p]].owner)}
<1>1. contacts' = [d \in DOMAIN contacts |->
                     IF \E p \in written \ taken : job.contactOf[p] = d
                     THEN [contacts[d] EXCEPT !.owner = "dt_import"] ELSE contacts[d]]
  BY DEF WriteAssignments
<1>2. \A p \in written \ taken : job.contactOf[p] # c
  <2> HIDE DEF written
  <2> QED BY DEF MayReassign
<1> HIDE DEF written, taken
<1> QED BY <1>1, <1>2

LEMMA MergesKeep ==
  ASSUME TypeInv, LosersHold, NEW j \in Jobs, ApplyMerges(j)
  PROVE  KeepsStaffs
<1>1. PICK out : /\ MergeAcc(jobs[j].plans, out)
                 /\ contacts' = out.rows /\ children' = out.children /\ merged' = out.merged
  BY MergesAreMade
<1>2. \A pl \in jobs[j].plans : LoserOK(pl, contacts, merged)
  BY DEF ApplyMerges, LosersHold
<1>3. DOMAIN children \cap Comments \subseteq DOMAIN out.children
  BY <1>1 DEF MergeAcc
<1>4. ASSUME NEW c \in DOMAIN contacts, c \in DOMAIN out.rows, contacts[c].owner = "staff"
      PROVE  out.rows[c].owner = "staff"
  BY <1>1, <1>4 DEF MergeAcc
<1>5. ASSUME NEW c \in DOMAIN contacts, c \notin DOMAIN out.rows PROVE contacts[c].key \in out.merged
  BY <1>1, <1>2, <1>5 DEF MergeAcc
<1> QED BY <1>1, <1>3, <1>4, <1>5 DEF KeepsStaffs

LEMMA StepKeeps ==
  ASSUME TypeInv, LosersHold, [Next]_vars
  PROVE  [KeepsStaffs]_vars
<1>1. CASE DT \/ Staff \/ UNCHANGED vars
  <2>1. jobs' = jobs
    BY <1>1 DEF DT, EditPost, RemovePost, AddComment, Staff, EditContact, AssignContact, DeleteContact,
                CreateContact, Decide, RemoveInterest, Request, vars
  <2> QED BY <2>1 DEF KeepsStaffs
<1>2. ASSUME NEW j \in Jobs, StartJob(j) \/ TakeLock(j) \/ SkipImport(j) \/ Load(j) \/ PlanMerges(j) \/ Fail(j)
      PROVE  KeepsStaffs
  <2>1. UNCHANGED <<contacts, children>>
    BY <1>2 DEF StartJob, TakeLock, SkipImport, Load, PlanMerges, Fail, JobsOnly, core
  <2> QED BY <2>1 DEF KeepsStaffs
<1>3. ASSUME NEW j \in Jobs, WriteContacts(j) PROVE KeepsStaffs
  <2>1. PICK out : ImportAcc(jobs[j], out, LastPost) /\ contacts' = out.rows
    BY <1>3, ContactsAreMade
  <2>2. \A c \in DOMAIN contacts : c \in DOMAIN contacts' /\ contacts'[c].owner = contacts[c].owner
    BY <2>1 DEF ImportAcc
  <2>3. children' = children
    BY <1>3 DEF WriteContacts
  <2> QED BY <2>2, <2>3 DEF KeepsStaffs
<1>4. ASSUME NEW j \in Jobs, WriteAssignments(j) PROVE KeepsStaffs
  <2>1. children' = children /\ DOMAIN contacts' = DOMAIN contacts
    BY <1>4 DEF WriteAssignments
  <2> QED BY <1>4, <2>1, AssignmentsKeep DEF KeepsStaffs
<1>5. ASSUME NEW j \in Jobs, WriteActivity(j) \/ WriteInterests(j) PROVE KeepsStaffs
  <2>1. contacts' = contacts
    BY <1>5 DEF WriteActivity, WriteInterests
  <2>2. DOMAIN children \subseteq DOMAIN children'
    BY <1>5 DEF WriteActivity, WriteInterests
  <2> QED BY <2>1, <2>2 DEF KeepsStaffs
<1>6. ASSUME NEW j \in Jobs, ApplyMerges(j) PROVE KeepsStaffs
  BY <1>6, MergesKeep
<1> QED BY <1>1, <1>2, <1>3, <1>4, <1>5, <1>6 DEF Next, Job

(* No job takes a contact that remains from the member of staff it was       *)
(* assigned to, no comment that was imported is lost in a merge, and only a  *)
(* contact whose post was merged goes.                                       *)
THEOREM JobsKeep == Spec => JobsKeepWhatStaffHave
<1>1. Init => LosersHold
  BY DEF Init, LosersHold, Idle
<1>2. TypeInv /\ LosersHold /\ [Next]_vars => LosersHold'
  BY LosersKept
<1>3. TypeInv /\ LosersHold /\ [Next]_vars => [KeepsStaffs]_vars
  BY StepKeeps
<1> QED BY InitTypes, TypesKept, <1>1, <1>2, <1>3, PTL DEF Spec, JobsKeepWhatStaffHave, KeepsStaffs
=============================================================================
