------------------------- MODULE DripEngine_proofs -------------------------
(***************************************************************************)
(* Theorems about DripEngine, for any contacts, campaigns and steps, any   *)
(* number of ticks, drains and requests at one time, every batch size and  *)
(* every bound.                                                            *)
(***************************************************************************)
EXTENDS DripEngine, FiniteSetTheorems, SequenceTheorems, WellFoundedInduction, TLAPS

USE DripAssumption

-----------------------------------------------------------------------------
(* Lowest elements *)

LEMMA FirstIsLeast ==
  ASSUME NEW S \in SUBSET Nat, S # {}
  PROVE  First(S) \in S /\ \A y \in S : First(S) <= y
<1>1. PICK x \in S : \A y \in S : ~(<<y, x>> \in OpToRel(<, Nat))
  BY NatLessThanWellFounded, WFMin
<1>2. ASSUME NEW y \in S PROVE x <= y
  <2>1. x \in Nat /\ y \in Nat
    OBVIOUS
  <2>2. OpToRel(<, Nat) = {p \in Nat \X Nat : p[1] < p[2]}
    BY DEF OpToRel
  <2>3. ~(y < x)
    <3>1. <<y, x>> \in Nat \X Nat /\ <<y, x>>[1] = y /\ <<y, x>>[2] = x
      BY <2>1
    <3>2. <<y, x>> \notin OpToRel(<, Nat)
      BY <1>1
    <3> QED BY <2>2, <3>1, <3>2
  <2> QED BY <2>1, <2>3
<1> QED BY <1>2 DEF First

LEMMA LowestAreIn == \A n, S : Lowest(n, S) \subseteq S
BY DEF Lowest

LEMMA LongestDelay == MaxAge \in Delays /\ \A e \in Delays : e <= MaxAge
BY DEF MaxAge

-----------------------------------------------------------------------------
(* Types: what a tick, a drain and a request carry *)

Statuses == {"engaged", "do_not_engage", Null}
StepRows == UNION {[D -> Steps] : D \in SUBSET Positions}
StepRef == [id : Steps, position : Positions]

TickLocals ==
  [pc : {"idle", "working", "sending"}, todo : SUBSET Nat,
   rows : UNION {[D -> Enrollment] : D \in SUBSET Nat},
   step : UNION {[D -> StepRef] : D \in SUBSET Nat}]

DrainLocals ==
  [pc : {"idle", "working"}, todo : SUBSET Nat, claimed : SUBSET Nat,
   seen : UNION {[D -> Statuses] : D \in SUBSET Contacts},
   new : Seq(Enrollment), exits : SUBSET Nat]

RequestLocals ==
  {IdleRequest}
  \cup [op : {"activate", "pause", "archive", "patch_campaign"}, campaign : Campaigns, seen : CampaignRow]
  \cup [op : {"enroll"}, campaign : Campaigns, seen : CampaignRow, contact : Contacts, was : Statuses]
  \cup [op : {"add_step", "patch_step", "delete_step"}, campaign : Campaigns, seen : CampaignRow,
        position : Positions]

Types ==
  /\ status \in [Contacts -> Statuses] /\ suppressed \subseteq Contacts
  /\ campaign \in [Campaigns -> CampaignRow] /\ steps \in [Campaigns -> StepRows]
  /\ delay \in [Steps -> Delays]
  /\ enrollments \in Seq(Enrollment) /\ outbox \in Seq(OutboxRow)
  /\ evening \in BOOLEAN
  /\ tick \in [Ticks -> TickLocals] /\ drain \in [Drains -> DrainLocals]
  /\ request \in [Requests -> RequestLocals]
  /\ late \in Seq(Nat) /\ Len(late) = Len(enrollments)

(* A tick works on rows it has locked, one after the other. *)
TickOK(w) ==
  /\ tick[w].todo \subseteq DOMAIN tick[w].rows
  /\ DOMAIN tick[w].rows \subseteq Enrolled /\ DOMAIN tick[w].step = DOMAIN tick[w].rows
  /\ tick[w].pc = "idle" => DOMAIN tick[w].rows = {}
  /\ tick[w].pc = "sending" => tick[w].todo # {}

DrainOK(d) ==
  /\ drain[d].todo \subseteq DOMAIN outbox
  /\ drain[d].pc = "idle" => drain[d].new = <<>>

TypeInv == Types /\ (\A w \in Ticks : TickOK(w)) /\ (\A d \in Drains : DrainOK(d))

LEMMA EmptyFunctions ==
  ASSUME NEW S, NEW T
  PROVE  <<>> \in UNION {[D -> T] : D \in SUBSET Nat} /\ DOMAIN <<>> = {}
<1>1. <<>> \in Seq(T) /\ Len(<<>>) = 0
  BY EmptySeq
<1>2. <<>> \in [1..0 -> T]
  BY <1>1, LenProperties
<1>3. 1..0 = {}
  OBVIOUS
<1> QED BY <1>2, <1>3

LEMMA IdleTyped ==
  /\ IdleTick \in TickLocals /\ DOMAIN IdleTick.rows = {} /\ DOMAIN IdleTick.step = {}
  /\ IdleDrain \in DrainLocals /\ IdleRequest \in RequestLocals
<1>1. /\ <<>> \in UNION {[D -> Enrollment] : D \in SUBSET Nat}
      /\ <<>> \in UNION {[D -> StepRef] : D \in SUBSET Nat} /\ DOMAIN <<>> = {}
  BY EmptyFunctions
<1>2. <<>> \in UNION {[D -> Statuses] : D \in SUBSET Contacts}
  <2>1. <<>> \in [{} -> Statuses]
    BY EmptySeq, LenProperties
  <2> QED BY <2>1
<1>3. <<>> \in Seq(Enrollment)
  BY EmptySeq
<1> QED BY <1>1, <1>2, <1>3 DEF IdleTick, TickLocals, IdleDrain, DrainLocals, IdleRequest, RequestLocals

LEMMA FunctionIsSeq ==
  ASSUME NEW S, NEW n \in Nat, NEW f \in [1..n -> S]
  PROVE  f \in Seq(S) /\ Len(f) = n
OBVIOUS

LEMMA RowsAreTyped ==
  ASSUME TypeInv
  PROVE  /\ Enrolled = 1..Len(enrollments) /\ Len(enrollments) \in Nat /\ Enrolled \subseteq Nat
         /\ \A e \in Enrolled : enrollments[e] \in Enrollment
         /\ DOMAIN late = Enrolled /\ \A e \in Enrolled : late[e] \in Nat
         /\ DOMAIN outbox = 1..Len(outbox) /\ Len(outbox) \in Nat /\ DOMAIN outbox \subseteq Nat
         /\ \A n \in DOMAIN outbox : outbox[n] \in OutboxRow
         /\ \A k \in Campaigns : Occupied(k) \subseteq Positions /\ steps[k] \in [Occupied(k) -> Steps]
<1>1. \A k \in Campaigns : Occupied(k) \subseteq Positions /\ steps[k] \in [Occupied(k) -> Steps]
  BY DEF TypeInv, Types, StepRows, Occupied
<1> QED BY <1>1 DEF TypeInv, Types, Enrolled

LEMMA RowFields ==
  ASSUME NEW row \in Enrollment
  PROVE  /\ row.campaign \in Campaigns /\ row.contact \in Contacts /\ row.version \in Nat
         /\ row.position \in Nat /\ row.log \in Seq(Positions)
         /\ Len(row.log) \in Nat /\ DOMAIN row.log = 1..Len(row.log)
         /\ \A i \in DOMAIN row.log : row.log[i] \in Nat
<1>1. /\ row.campaign \in Campaigns /\ row.contact \in Contacts /\ row.version \in Nat
      /\ row.position \in Positions \cup {0} /\ row.log \in Seq(Positions)
  BY DEF Enrollment
<1>2. row.position \in Nat
  <2>1. Positions \subseteq Nat /\ 0 \in Nat
    BY DripAssumption
  <2>2. CASE row.position = 0
    BY <2>1, <2>2
  <2>3. CASE row.position \in Positions
    BY <2>1, <2>3
  <2> QED BY <1>1, <2>2, <2>3
<1>3. Len(row.log) \in Nat /\ DOMAIN row.log = 1..Len(row.log) /\ \A i \in DOMAIN row.log : row.log[i] \in Positions
  BY <1>1
<1> QED BY <1>1, <1>2, <1>3

(* What becomes of the copy a tick has of a row *)
LEMMA AdvancedIs ==
  ASSUME TypeInv, NEW row \in Enrollment, NEW p \in Positions
  PROVE  LET new == Advanced(row, p)
             further == PositionsAfter(row.campaign, row.position) IN
         /\ new \in Enrollment
         /\ new.campaign = row.campaign /\ new.contact = row.contact /\ new.version = row.version
         /\ new.log = Append(row.log, p)
         /\ further = {} => new.state = "completed" /\ new.position = row.position
         /\ further # {} => /\ new.state = row.state /\ new.position = First(further)
                            /\ First(further) \in further
<1>6. PICK new, further : new = Advanced(row, p) /\ further = PositionsAfter(row.campaign, row.position)
  OBVIOUS
<1>1. row.campaign \in Campaigns /\ row.log \in Seq(Positions) /\ Append(row.log, p) \in Seq(Positions)
  BY DEF Enrollment
<1>2. further \subseteq Positions
  BY <1>1, <1>6, RowsAreTyped DEF PositionsAfter
<1>3. 0 \in {Never} \cup 0..MaxAge
  <2>1. MaxAge \in Nat
    BY LongestDelay
  <2> QED BY <2>1
<1> DEFINE l == Append(row.log, p)
<1> HIDE DEF l
<1>4. CASE further = {}
  <2>1. new = [row EXCEPT !.age = 0, !.state = "completed", !.log = l]
    BY <1>4, <1>6 DEF Advanced, l
  <2>2. new \in Enrollment
    BY <1>1, <1>3, <2>1 DEF Enrollment, l
  <2>3. /\ new.campaign = row.campaign /\ new.contact = row.contact /\ new.version = row.version
        /\ new.log = l /\ new.state = "completed" /\ new.position = row.position
    BY <2>1 DEF Enrollment
  <2> QED BY <1>4, <1>6, <2>2, <2>3 DEF l
<1>5. CASE further # {}
  <2>1. First(further) \in further /\ First(further) \in Positions
    BY <1>2, <1>5, FirstIsLeast
  <2>2. new = [row EXCEPT !.age = 0, !.position = First(further), !.log = l]
    BY <1>5, <1>6 DEF Advanced, l
  <2>3. new \in Enrollment
    BY <1>1, <1>3, <2>1, <2>2 DEF Enrollment, l
  <2>4. /\ new.campaign = row.campaign /\ new.contact = row.contact /\ new.version = row.version
        /\ new.log = l /\ new.state = row.state /\ new.position = First(further)
    BY <2>2 DEF Enrollment
  <2> QED BY <1>5, <1>6, <2>1, <2>3, <2>4 DEF l
<1> QED BY <1>4, <1>5, <1>6

LEMMA ExitedIs ==
  ASSUME NEW row \in Enrollment
  PROVE  LET x == [row EXCEPT !.state = "exited"] IN
         /\ x \in Enrollment /\ x.state = "exited"
         /\ x.campaign = row.campaign /\ x.contact = row.contact /\ x.version = row.version
         /\ x.position = row.position /\ x.log = row.log
BY DEF Enrollment

LEMMA CopiesAreTyped ==
  ASSUME TypeInv, NEW w \in Ticks
  PROVE  /\ tick[w] \in TickLocals
         /\ \A e \in DOMAIN tick[w].rows : tick[w].rows[e] \in Enrollment
         /\ \A e \in DOMAIN tick[w].step : tick[w].step[e] \in StepRef
<1>1. tick[w] \in TickLocals
  BY DEF TypeInv, Types
<1>2. PICK D \in SUBSET Nat : tick[w].rows \in [D -> Enrollment]
  <2>1. tick[w].rows \in UNION {[D -> Enrollment] : D \in SUBSET Nat}
    BY <1>1 DEF TickLocals
  <2> QED BY <2>1
<1>3. PICK E \in SUBSET Nat : tick[w].step \in [E -> StepRef]
  <2>1. tick[w].step \in UNION {[E -> StepRef] : E \in SUBSET Nat}
    BY <1>1 DEF TickLocals
  <2> QED BY <2>1
<1> QED BY <1>1, <1>2, <1>3

LEMMA CurrentRow ==
  ASSUME TypeInv, NEW w \in Ticks, tick[w].todo # {}
  PROVE  /\ Current(w) \in tick[w].todo /\ Current(w) \in DOMAIN tick[w].rows /\ Current(w) \in Enrolled
         /\ Row(w) \in Enrollment /\ Step(w) \in StepRef
<1>1. tick[w].todo \in SUBSET Nat /\ TickOK(w)
  BY DEF TypeInv, Types, TickLocals
<1>2. Current(w) \in tick[w].todo
  BY <1>1, FirstIsLeast DEF Current
<1>3. Current(w) \in DOMAIN tick[w].rows /\ Current(w) \in Enrolled /\ Current(w) \in DOMAIN tick[w].step
  BY <1>1, <1>2 DEF TickOK
<1> QED BY <1>2, <1>3 DEF TypeInv, Types, TickLocals, Row, Step

(* Steps of one tick that change nothing but its locals *)
TickMoves(w) ==
  /\ tick' \in [Ticks -> TickLocals] /\ \A v \in Ticks \ {w} : tick'[v] = tick[v]
  /\ UNCHANGED <<dbVars, evening, drain, request>>

(* Done with a row: it is taken from the batch, and its copy may change. *)
TickDone(w, e, row) ==
  /\ e \in tick[w].todo /\ e \in DOMAIN tick[w].rows
  /\ tick'[w].pc = "working" /\ tick'[w].todo = tick[w].todo \ {e} /\ tick'[w].step = tick[w].step
  /\ DOMAIN tick'[w].rows = DOMAIN tick[w].rows
  /\ \A x \in DOMAIN tick[w].rows : tick'[w].rows[x] = IF x = e THEN row ELSE tick[w].rows[x]

LEMMA DoneStep ==
  ASSUME TypeInv, NEW w \in Ticks, tick[w].todo # {}, NEW row \in Enrollment, Done(w, row),
         UNCHANGED <<dbVars, evening, drain, request>>
  PROVE  TickMoves(w) /\ TickDone(w, Current(w), row)
<1>1. Current(w) \in tick[w].todo /\ Current(w) \in DOMAIN tick[w].rows
  BY CurrentRow
<1>2. tick[w] \in TickLocals
  BY DEF TypeInv, Types
<1> DEFINE rows == [tick[w].rows EXCEPT ![Current(w)] = row]
           new == [pc |-> "working", todo |-> tick[w].todo \ {Current(w)}, rows |-> rows,
                   step |-> tick[w].step]
<1>3. /\ rows \in UNION {[D -> Enrollment] : D \in SUBSET Nat} /\ DOMAIN rows = DOMAIN tick[w].rows
      /\ \A x \in DOMAIN tick[w].rows : rows[x] = IF x = Current(w) THEN row ELSE tick[w].rows[x]
  BY <1>1, <1>2 DEF TickLocals
<1>4. tick' = [tick EXCEPT ![w] = new]
  BY DEF Done
<1> HIDE DEF rows
<1>5. /\ new \in TickLocals /\ new.pc = "working" /\ new.todo = tick[w].todo \ {Current(w)}
      /\ new.rows = rows /\ new.step = tick[w].step
  BY <1>2, <1>3 DEF TickLocals
<1> HIDE DEF new
<1>6. tick'[w] = new /\ tick' \in [Ticks -> TickLocals] /\ \A v \in Ticks \ {w} : tick'[v] = tick[v]
  BY <1>4, <1>5 DEF TypeInv, Types
<1> QED BY <1>1, <1>3, <1>5, <1>6 DEF TickMoves, TickDone

LEMMA StartTickStep ==
  ASSUME TypeInv, NEW w \in Ticks, StartTick(w)
  PROVE  /\ TickMoves(w) /\ late' = late
         /\ tick[w].pc = "idle" /\ tick'[w].pc = "working"
         /\ tick'[w].todo = DOMAIN tick'[w].rows /\ DOMAIN tick'[w].step = DOMAIN tick'[w].rows
         /\ \A e \in DOMAIN tick'[w].rows :
              /\ e \in Due(w) /\ tick'[w].rows[e] = enrollments[e]
              /\ tick'[w].step[e] = ClaimedStep(enrollments[e])
<1> DEFINE batch == Lowest(TickLimit, Due(w))
           rows == [e \in batch |-> enrollments[e]]
           step == [e \in batch |-> ClaimedStep(enrollments[e])]
           new == [pc |-> "working", todo |-> batch, rows |-> rows, step |-> step]
<1>1. batch \subseteq Due(w) /\ batch \subseteq Enrolled /\ batch \in SUBSET Nat
  BY LowestAreIn, RowsAreTyped DEF Due
<1>2. \A e \in batch : enrollments[e] \in Enrollment /\ ClaimedStep(enrollments[e]) \in StepRef
  <2> SUFFICES ASSUME NEW e \in batch PROVE ClaimedStep(enrollments[e]) \in StepRef
    BY <1>1, RowsAreTyped
  <2> DEFINE row == enrollments[e]
  <2>1. row.campaign \in Campaigns
    BY <1>1, RowsAreTyped DEF Enrollment
  <2>2. PositionsFrom(row.campaign, row.position) # {}
    BY <1>1 DEF Due, IsDue
  <2>3. PositionsFrom(row.campaign, row.position) \subseteq Occupied(row.campaign)
    BY DEF PositionsFrom
  <2>4. NextPosition(row) \in Occupied(row.campaign)
    BY <2>1, <2>2, <2>3, RowsAreTyped, FirstIsLeast DEF NextPosition
  <2> QED BY <2>1, <2>4, RowsAreTyped DEF ClaimedStep, StepRef
<1>3. tick[w].pc = "idle" /\ tick' = [tick EXCEPT ![w] = new] /\ late' = late
      /\ UNCHANGED <<dbVars, evening, drain, request>>
  BY DEF StartTick
<1> HIDE DEF batch
<1>4. rows \in [batch -> Enrollment] /\ step \in [batch -> StepRef]
  BY <1>2
<1>5. new \in TickLocals
  BY <1>1, <1>4 DEF TickLocals
<1>6. tick'[w] = new /\ tick' \in [Ticks -> TickLocals] /\ \A v \in Ticks \ {w} : tick'[v] = tick[v]
  BY <1>3, <1>5 DEF TypeInv, Types
<1> QED BY <1>1, <1>3, <1>6 DEF TickMoves

LEMMA BeginSendStep ==
  ASSUME TypeInv, NEW w \in Ticks, BeginSend(w)
  PROVE  /\ TickMoves(w) /\ late' = late
         /\ tick[w].pc = "working" /\ tick[w].todo # {} /\ Mailable(w) /\ tick'[w].pc = "sending"
         /\ tick'[w].todo = tick[w].todo /\ tick'[w].rows = tick[w].rows /\ tick'[w].step = tick[w].step
BY ZenonT(40) DEF BeginSend, TypeInv, Types, TickLocals, TickMoves

LEMMA ExitCurrentStep ==
  ASSUME TypeInv, NEW w \in Ticks, ExitCurrent(w)
  PROVE  /\ TickMoves(w) /\ late' = late /\ TickDone(w, Current(w), [Row(w) EXCEPT !.state = "exited"])
         /\ [Row(w) EXCEPT !.state = "exited"] \in Enrollment
<1>1. tick[w].todo # {}
  BY DEF ExitCurrent
<1>2. [Row(w) EXCEPT !.state = "exited"] \in Enrollment
  BY <1>1, CurrentRow DEF Enrollment
<1> QED BY <1>1, <1>2, DoneStep DEF ExitCurrent

(* Deferred, refused, or its answer lost: the row stays as it is. *)
LEMMA KeepRowStep ==
  ASSUME TypeInv, NEW w \in Ticks, Defer(w) \/ LoseAnswer(w) \/ RefuseSend(w)
  PROVE  /\ TickMoves(w) /\ TickDone(w, Current(w), Row(w)) /\ tick[w].todo # {}
         /\ late' = late \/ (tick[w].pc = "sending" /\ CountMail(w))
<1>1. tick[w].todo # {}
  BY DEF Defer, LoseAnswer, RefuseSend, TypeInv, TickOK
<1>2. Done(w, Row(w)) /\ UNCHANGED <<dbVars, evening, drain, request>>
      /\ (late' = late \/ (tick[w].pc = "sending" /\ CountMail(w)))
  BY DEF Defer, LoseAnswer, RefuseSend
<1> QED BY <1>1, <1>2, CurrentRow, DoneStep

LEMMA DeliverStep ==
  ASSUME TypeInv, NEW w \in Ticks, Deliver(w)
  PROVE  /\ TickMoves(w) /\ TickDone(w, Current(w), Advanced(Row(w), Step(w).position))
         /\ tick[w].todo # {} /\ tick[w].pc = "sending" /\ CountMail(w)
         /\ Row(w) \in Enrollment /\ Step(w).position \in Positions
<1>1. tick[w].todo # {}
  BY DEF Deliver, TypeInv, TickOK
<1>2. Row(w) \in Enrollment /\ Step(w).position \in Positions
  BY <1>1, CurrentRow DEF StepRef
<1>3. Advanced(Row(w), Step(w).position) \in Enrollment
  BY <1>2, AdvancedIs
<1> QED BY <1>1, <1>2, <1>3, DoneStep DEF Deliver

LEMMA AbortTickStep ==
  ASSUME TypeInv, NEW w \in Ticks, AbortTick(w)
  PROVE  TickMoves(w) /\ late' = late /\ tick'[w] = IdleTick
BY IdleTyped DEF AbortTick, TypeInv, Types, TickMoves

(* The commit writes the tick's copies. *)
LEMMA CommitTickStep ==
  ASSUME TypeInv, NEW w \in Ticks, CommitTick(w)
  PROVE  /\ tick' \in [Ticks -> TickLocals] /\ tick'[w] = IdleTick
         /\ \A v \in Ticks \ {w} : tick'[v] = tick[v]
         /\ enrollments' \in Seq(Enrollment) /\ Len(enrollments') = Len(enrollments)
         /\ Enrolled' = Enrolled
         /\ \A e \in Enrolled :
              enrollments'[e] = IF e \in DOMAIN tick[w].rows THEN tick[w].rows[e] ELSE enrollments[e]
         /\ UNCHANGED <<status, suppressed, campaign, steps, delay, outbox, evening, drain, request, late>>
<1>1. tick' = [tick EXCEPT ![w] = IdleTick]
      /\ UNCHANGED <<status, suppressed, campaign, steps, delay, outbox, evening, drain, request, late>>
      /\ enrollments' = [e \in Enrolled |-> IF e \in DOMAIN tick[w].rows THEN tick[w].rows[e]
                                            ELSE enrollments[e]]
  BY DEF CommitTick
<1>2. \A e \in DOMAIN tick[w].rows : tick[w].rows[e] \in Enrollment
  BY CopiesAreTyped
<1>3. enrollments' \in [1..Len(enrollments) -> Enrollment]
  BY <1>1, <1>2, RowsAreTyped
<1>4. enrollments' \in Seq(Enrollment) /\ Len(enrollments') = Len(enrollments)
  BY <1>3, RowsAreTyped, FunctionIsSeq
<1>5. Enrolled' = Enrolled
  BY <1>1 DEF Enrolled
<1> QED BY <1>1, <1>4, <1>5, IdleTyped DEF TypeInv, Types

-----------------------------------------------------------------------------
(* Drains *)

DrainMoves(d) ==
  /\ drain' \in [Drains -> DrainLocals] /\ \A o \in Drains \ {d} : drain'[o] = drain[o]
  /\ UNCHANGED <<dbVars, evening, tick, request, late>>

LEMMA DrainFields ==
  ASSUME TypeInv, NEW d \in Drains
  PROVE  /\ drain[d] \in DrainLocals /\ drain[d].todo \in SUBSET Nat /\ drain[d].exits \in SUBSET Nat
         /\ drain[d].new \in Seq(Enrollment) /\ Len(drain[d].new) \in Nat
         /\ DOMAIN drain[d].new = 1..Len(drain[d].new)
         /\ \A n \in DOMAIN drain[d].new : drain[d].new[n] \in Enrollment
         /\ \E D \in SUBSET Contacts : drain[d].seen \in [D -> Statuses]
<1>1. drain[d] \in DrainLocals
  BY DEF TypeInv, Types
<1>2. drain[d].new \in Seq(Enrollment) /\ drain[d].todo \in SUBSET Nat /\ drain[d].exits \in SUBSET Nat
  BY <1>1 DEF DrainLocals
<1>3. \E D \in SUBSET Contacts : drain[d].seen \in [D -> Statuses]
  <2>1. drain[d].seen \in UNION {[D -> Statuses] : D \in SUBSET Contacts}
    BY <1>1 DEF DrainLocals
  <2> QED BY <2>1
<1>4. /\ Len(drain[d].new) \in Nat /\ DOMAIN drain[d].new = 1..Len(drain[d].new)
      /\ \A n \in DOMAIN drain[d].new : drain[d].new[n] \in Enrollment
  BY <1>2
<1> QED BY <1>1, <1>2, <1>3, <1>4

(* A record put in the place of one drain's locals *)
LEMMA DrainBecomes ==
  ASSUME TypeInv, NEW d \in Drains, NEW x \in DrainLocals, drain' = [drain EXCEPT ![d] = x],
         UNCHANGED <<dbVars, evening, tick, request, late>>
  PROVE  DrainMoves(d) /\ drain'[d] = x
BY DEF TypeInv, Types, DrainMoves

LEMMA StartDrainStep ==
  ASSUME TypeInv, NEW d \in Drains, StartDrain(d)
  PROVE  /\ DrainMoves(d) /\ drain'[d].pc = "working" /\ drain'[d].todo \subseteq DOMAIN outbox
         /\ drain'[d].new = <<>> /\ drain'[d].exits = {}
<1> DEFINE rows == Lowest(DrainLimit, {n \in DOMAIN outbox : ~outbox[n].processed} \ LockedRows(d))
           x == [IdleDrain EXCEPT !.pc = "working", !.todo = rows, !.claimed = rows]
<1>1. rows \subseteq DOMAIN outbox /\ rows \in SUBSET Nat
  BY LowestAreIn, RowsAreTyped
<1>2. drain' = [drain EXCEPT ![d] = x] /\ UNCHANGED <<dbVars, evening, tick, request, late>>
  BY DEF StartDrain
<1> HIDE DEF rows
<1>3. x \in DrainLocals /\ x.pc = "working" /\ x.todo = rows
  BY <1>1, IdleTyped DEF IdleDrain, DrainLocals
<1>4. x.new = <<>> /\ x.exits = {}
  BY DEF IdleDrain
<1> QED BY <1>1, <1>2, <1>3, <1>4, DrainBecomes

LEMMA AbortDrainStep ==
  ASSUME TypeInv, NEW d \in Drains, AbortDrain(d)
  PROVE  DrainMoves(d) /\ drain'[d] = IdleDrain
BY IdleTyped, DrainBecomes DEF AbortDrain

(* The row at hand of a drain *)
Handled(d) == outbox[First(drain[d].todo)]

LEMMA HandledRow ==
  ASSUME TypeInv, NEW d \in Drains, HandleRow(d)
  PROVE  /\ drain[d].pc = "working" /\ Handled(d) \in OutboxRow /\ Handled(d).contact \in Contacts
         /\ \/ Handled(d).event = DoNotEngage /\ ExitContact(d, Handled(d).contact)
            \/ EnrollContact(d, Handled(d).contact, Handled(d).event)
         /\ UNCHANGED <<dbVars, evening, tick, request, late>>
<1>1. drain[d].todo \subseteq DOMAIN outbox /\ drain[d].todo # {} /\ drain[d].todo \in SUBSET Nat
  BY DrainFields DEF HandleRow, TypeInv, DrainOK
<1>2. First(drain[d].todo) \in DOMAIN outbox
  BY <1>1, FirstIsLeast
<1>3. Handled(d) \in OutboxRow
  BY <1>2, RowsAreTyped DEF Handled
<1> QED BY <1>3 DEF HandleRow, Handled, OutboxRow

LEMMA ExitContactStep ==
  ASSUME TypeInv, NEW d \in Drains, NEW c \in Contacts, ExitContact(d, c), drain[d].pc = "working",
         UNCHANGED <<dbVars, evening, tick, request, late>>
  PROVE  /\ DrainMoves(d) /\ drain'[d].pc = "working" /\ drain'[d].todo \subseteq drain[d].todo
         /\ drain[d].exits \subseteq drain'[d].exits
         /\ DOMAIN drain'[d].new = DOMAIN drain[d].new
         /\ \A n \in DOMAIN drain[d].new :
              \/ drain'[d].new[n] = drain[d].new[n]
              \/ drain'[d].new[n] = [drain[d].new[n] EXCEPT !.state = "exited"]
<1> DEFINE exits == drain[d].exits \cup
                      {e \in Enrolled : enrollments[e].contact = c /\ enrollments[e].state \in Open}
           todo == drain[d].todo \ {First(drain[d].todo)}
           new == [n \in DOMAIN drain[d].new |->
                     IF drain[d].new[n].contact = c THEN [drain[d].new[n] EXCEPT !.state = "exited"]
                     ELSE drain[d].new[n]]
           x == [drain[d] EXCEPT !.todo = todo, !.exits = exits, !.new = new]
<1>1. exits \in SUBSET Nat /\ todo \in SUBSET Nat
  BY DrainFields, RowsAreTyped
<1>2. new \in Seq(Enrollment)
  <2>1. \A n \in DOMAIN drain[d].new : new[n] \in Enrollment
    BY DrainFields, ExitedIs
  <2>2. new \in [1..Len(drain[d].new) -> Enrollment]
    BY <2>1, DrainFields
  <2> QED BY <2>2, DrainFields, FunctionIsSeq
<1>3. drain' = [drain EXCEPT ![d] = x]
  BY DEF ExitContact
<1> HIDE DEF exits, todo, new
<1>4. x \in DrainLocals
  BY <1>1, <1>2, DrainFields DEF DrainLocals
<1>5. x.pc = "working" /\ x.todo = todo /\ x.exits = exits /\ x.new = new
  BY DrainFields DEF DrainLocals
<1>6. DrainMoves(d) /\ drain'[d] = x
  BY <1>3, <1>4, DrainBecomes
<1> QED BY <1>5, <1>6 DEF exits, todo, new

LEMMA NewEnrollmentIs ==
  ASSUME TypeInv, NEW k \in Campaigns, NEW c \in Contacts
  PROVE  LET x == NewEnrollment(k, c) IN
         /\ x \in Enrollment /\ x.campaign = k /\ x.contact = c /\ x.version = campaign[k].version
         /\ x.state = "active" /\ x.log = <<>> /\ x.position = StartingPosition(k)
         /\ Occupied(k) # {} => StartingPosition(k) \in Occupied(k)
<1>1. Occupied(k) # {} => StartingPosition(k) \in Occupied(k)
  BY RowsAreTyped, FirstIsLeast DEF StartingPosition
<1>2. StartingPosition(k) \in Positions \cup {0}
  BY <1>1, RowsAreTyped DEF StartingPosition
<1>3. campaign[k].version \in Nat
  BY DEF TypeInv, Types, CampaignRow
<1>4. <<>> \in Seq(Positions)
  BY EmptySeq
<1>5. NewEnrollment(k, c) \in Enrollment
  BY <1>2, <1>3, <1>4 DEF NewEnrollment, Enrollment
<1> QED BY <1>1, <1>5 DEF NewEnrollment

(* The campaigns an event enrols a contact in are tried once each. *)
LEMMA OrdersAreInjective ==
  ASSUME NEW S, IsFiniteSet(S), NEW f \in [1..Cardinality(S) -> S],
         \A x \in S : \E n \in DOMAIN f : f[n] = x
  PROVE  \A n, m \in DOMAIN f : f[n] = f[m] => n = m
<1>1. Cardinality(S) \in Nat
  BY FS_CardinalityType
<1>2. IsFiniteSet(1..Cardinality(S)) /\ Cardinality(1..Cardinality(S)) = Cardinality(S)
  BY <1>1, FS_Interval
<1>3. f \in Surjection(1..Cardinality(S), S)
  BY DEF Surjection
<1>4. f \in Injection(1..Cardinality(S), S)
  BY <1>2, <1>3, FS_Surjection
<1> QED BY <1>4 DEF Injection, IsInjective

LEMMA EnrollContactStep ==
  ASSUME TypeInv, NEW d \in Drains, NEW c \in Contacts, NEW event, EnrollContact(d, c, event),
         drain[d].pc = "working", UNCHANGED <<dbVars, evening, tick, request, late>>
  PROVE  /\ DrainMoves(d) /\ drain'[d].pc = "working" /\ drain'[d].todo \subseteq drain[d].todo
         /\ drain'[d].exits = drain[d].exits
         /\ Len(drain[d].new) <= Len(drain'[d].new)
         /\ \A n \in DOMAIN drain[d].new : drain'[d].new[n] = drain[d].new[n]
         /\ \A n \in DOMAIN drain'[d].new \ DOMAIN drain[d].new :
              \E k \in Campaigns :
                /\ drain'[d].new[n] = NewEnrollment(k, c) /\ campaign[k].status = "active"
                /\ IndexAccepts(k, c, drain[d].exits) /\ ~Blocked(d, k, c)
                /\ \A m \in DOMAIN drain[d].new : ~IsOpenFor(drain[d].new[m], k, c)
         /\ \A n, m \in DOMAIN drain'[d].new \ DOMAIN drain[d].new :
              drain'[d].new[n].campaign = drain'[d].new[m].campaign => n = m
<1> DEFINE joins == Joins(d, c, event)
           todo == drain[d].todo \ {First(drain[d].todo)}
           seenNow == [x \in DOMAIN drain[d].seen \cup {c} |-> IF x = c THEN Seen(d, c) ELSE drain[d].seen[x]]
<1>1. PICK order \in [1..Cardinality(joins) -> joins] :
        /\ \A k \in joins : \E n \in DOMAIN order : order[n] = k
        /\ drain' = [drain EXCEPT ![d].todo = todo, ![d].seen = seenNow,
                                  ![d].new = @ \o [n \in DOMAIN order |-> NewEnrollment(order[n], c)]]
  BY DEF EnrollContact
<1>2. \A k \in joins :
        /\ k \in Campaigns /\ campaign[k].status = "active"
        /\ IndexAccepts(k, c, drain[d].exits) /\ ~Blocked(d, k, c)
        /\ \A m \in DOMAIN drain[d].new : ~IsOpenFor(drain[d].new[m], k, c)
  BY DEF EnrollContact, Joins, Triggered
<1>3. seenNow \in UNION {[D -> Statuses] : D \in SUBSET Contacts}
  <2>1. PICK D \in SUBSET Contacts : drain[d].seen \in [D -> Statuses]
    BY DrainFields
  <2>2. status[c] \in Statuses
    BY DEF TypeInv, Types
  <2>3. seenNow \in [D \cup {c} -> Statuses]
    BY <2>1, <2>2 DEF Seen
  <2>4. D \cup {c} \in SUBSET Contacts
    OBVIOUS
  <2> HIDE DEF seenNow
  <2> QED BY <2>3, <2>4
<1>4. joins \subseteq Campaigns
  BY <1>2
<1> HIDE DEF joins, seenNow
<1>5. IsFiniteSet(joins) /\ Cardinality(joins) \in Nat
  BY <1>4, FS_Subset, FS_CardinalityType
<1>6. \A n, m \in DOMAIN order : order[n] = order[m] => n = m
  BY <1>1, <1>5, OrdersAreInjective
<1> DEFINE add == [n \in DOMAIN order |-> NewEnrollment(order[n], c)]
           new == drain[d].new \o add
<1>7. add \in Seq(Enrollment) /\ Len(add) = Cardinality(joins)
  <2>1. add \in [1..Cardinality(joins) -> Enrollment]
    BY <1>4, NewEnrollmentIs
  <2> QED BY <1>5, <2>1, FunctionIsSeq
<1>8. \A n \in DOMAIN order : order[n] \in joins /\ add[n] = NewEnrollment(order[n], c)
  OBVIOUS
<1>10. drain' = [drain EXCEPT ![d] = [drain[d] EXCEPT !.todo = todo, !.seen = seenNow, !.new = new]]
  BY <1>1
<1> HIDE DEF add
<1>9. /\ new \in Seq(Enrollment) /\ Len(new) = Len(drain[d].new) + Len(add)
      /\ DOMAIN new = 1..Len(new)
      /\ \A n \in 1..Len(new) : new[n] = IF n <= Len(drain[d].new) THEN drain[d].new[n]
                                         ELSE add[n - Len(drain[d].new)]
  <2>1. /\ new \in Seq(Enrollment) /\ Len(new) = Len(drain[d].new) + Len(add)
        /\ \A n \in 1..Len(new) : new[n] = IF n <= Len(drain[d].new) THEN drain[d].new[n]
                                           ELSE add[n - Len(drain[d].new)]
    BY <1>7, DrainFields, ConcatProperties
  <2> QED BY <2>1, LenProperties
<1>17. DOMAIN drain[d].new \subseteq DOMAIN new /\ Len(drain[d].new) <= Len(new)
  BY <1>7, <1>9, <1>5, DrainFields
<1>18. \A n \in DOMAIN drain[d].new : new[n] = drain[d].new[n]
  BY <1>9, <1>17, DrainFields
<1>19. \A n \in DOMAIN new \ DOMAIN drain[d].new :
           n \in Nat /\ n - Len(drain[d].new) \in DOMAIN order /\ new[n] = add[n - Len(drain[d].new)]
  BY <1>5, <1>7, <1>9, DrainFields, SMTT(20)
<1> HIDE DEF new
<1> DEFINE x == [drain[d] EXCEPT !.todo = todo, !.seen = seenNow, !.new = new]
<1>20. todo \in SUBSET Nat
  BY DrainFields
<1>21. todo \subseteq drain[d].todo
  OBVIOUS
<1> HIDE DEF todo
<1>11. x \in DrainLocals
  <2>1. drain[d] \in DrainLocals
    BY DrainFields
  <2>2. new \in Seq(Enrollment)
    BY <1>9
  <2> QED BY <1>3, <1>20, <2>1, <2>2 DEF DrainLocals
<1>12. x.pc = "working" /\ x.todo = todo /\ x.new = new /\ x.exits = drain[d].exits
  BY DrainFields DEF DrainLocals
<1>13. DrainMoves(d) /\ drain'[d] = x
  BY <1>10, <1>11, DrainBecomes
<1> HIDE DEF x
<1>14. \A n \in DOMAIN new \ DOMAIN drain[d].new :
         /\ order[n - Len(drain[d].new)] \in joins
         /\ new[n] = NewEnrollment(order[n - Len(drain[d].new)], c)
         /\ new[n].campaign = order[n - Len(drain[d].new)]
  BY <1>4, <1>8, <1>19, NewEnrollmentIs
<1>15. \A n, m \in DOMAIN new \ DOMAIN drain[d].new : new[n].campaign = new[m].campaign => n = m
  <2> SUFFICES ASSUME NEW n \in DOMAIN new \ DOMAIN drain[d].new,
                      NEW m \in DOMAIN new \ DOMAIN drain[d].new, new[n].campaign = new[m].campaign
               PROVE  n = m
    OBVIOUS
  <2>1. n - Len(drain[d].new) = m - Len(drain[d].new)
    BY <1>6, <1>14, <1>19
  <2>2. n \in Nat /\ m \in Nat
    BY <1>19
  <2> QED BY <2>1, <2>2, DrainFields, SMTT(20)
<1>16. \A n \in DOMAIN new \ DOMAIN drain[d].new :
         \E k \in Campaigns :
           /\ new[n] = NewEnrollment(k, c) /\ campaign[k].status = "active"
           /\ IndexAccepts(k, c, drain[d].exits) /\ ~Blocked(d, k, c)
           /\ \A m \in DOMAIN drain[d].new : ~IsOpenFor(drain[d].new[m], k, c)
  BY <1>2, <1>4, <1>14
<1>22. /\ drain'[d].new = new /\ drain'[d].pc = "working" /\ drain'[d].todo = todo
       /\ drain'[d].exits = drain[d].exits
  BY <1>12, <1>13
<1> QED BY <1>13, <1>15, <1>16, <1>17, <1>18, <1>21, <1>22

LEMMA ConcatIs ==
  ASSUME NEW S, NEW s \in Seq(S), NEW u \in Seq(S), NEW all, all = s \o u
  PROVE  /\ all \in Seq(S) /\ Len(all) = Len(s) + Len(u) /\ DOMAIN all = 1..(Len(s) + Len(u))
         /\ DOMAIN s \subseteq DOMAIN all
         /\ \A n \in DOMAIN s : all[n] = s[n]
         /\ \A n \in DOMAIN all \ DOMAIN s : n \in Nat /\ n - Len(s) \in DOMAIN u /\ all[n] = u[n - Len(s)]
<1>1. /\ all \in Seq(S) /\ Len(all) = Len(s) + Len(u)
      /\ \A n \in 1..Len(all) : all[n] = IF n <= Len(s) THEN s[n] ELSE u[n - Len(s)]
  BY ConcatProperties
<1>2. /\ DOMAIN all = 1..Len(all) /\ DOMAIN s = 1..Len(s) /\ DOMAIN u = 1..Len(u)
      /\ Len(s) \in Nat /\ Len(u) \in Nat
  BY <1>1, LenProperties
<1>3. \A n \in DOMAIN s : n \in DOMAIN all /\ all[n] = s[n]
  BY <1>1, <1>2
<1>4. \A n \in DOMAIN all \ DOMAIN s : n \in Nat /\ n - Len(s) \in DOMAIN u /\ all[n] = u[n - Len(s)]
  BY <1>1, <1>2
<1>5. DOMAIN all = 1..(Len(s) + Len(u)) /\ DOMAIN s \subseteq DOMAIN all
  BY <1>1, <1>2, <1>3
<1> QED BY <1>1, <1>3, <1>4, <1>5

(* The commit of a drain writes its exits over the rows, and adds the new ones. *)
LEMMA CommitDrainStep ==
  ASSUME TypeInv, NEW d \in Drains, CommitDrain(d)
  PROVE  /\ drain' \in [Drains -> DrainLocals] /\ drain'[d] = IdleDrain
         /\ \A o \in Drains \ {d} : drain'[o] = drain[o]
         /\ \A w \in Ticks : drain[d].exits \cap DOMAIN tick[w].rows = {}
         /\ enrollments' \in Seq(Enrollment) /\ Enrolled \subseteq Enrolled'
         /\ \A e \in Enrolled :
              enrollments'[e] = IF e \in drain[d].exits THEN [enrollments[e] EXCEPT !.state = "exited"]
                                ELSE enrollments[e]
         /\ \A e \in Enrolled' \ Enrolled :
              /\ e \in Nat /\ e - Len(enrollments) \in DOMAIN drain[d].new
              /\ enrollments'[e] = drain[d].new[e - Len(enrollments)]
         /\ late' \in Seq(Nat) /\ Len(late') = Len(enrollments') /\ \A e \in Enrolled : late'[e] = late[e]
         /\ \A e \in Enrolled' \ Enrolled : late'[e] = 0
         /\ outbox' \in Seq(OutboxRow) /\ DOMAIN outbox' = DOMAIN outbox
         /\ UNCHANGED <<status, suppressed, campaign, steps, delay, evening, tick, request>>
<1> DEFINE rows == [e \in Enrolled |-> IF e \in drain[d].exits THEN [enrollments[e] EXCEPT !.state = "exited"]
                                       ELSE enrollments[e]]
           new == drain[d].new
           zeros == [n \in DOMAIN drain[d].new |-> 0]
<1>1. /\ enrollments' = rows \o new /\ late' = late \o zeros
      /\ drain' = [drain EXCEPT ![d] = IdleDrain]
      /\ outbox' = [n \in DOMAIN outbox |-> [outbox[n] EXCEPT !.processed = @ \/ n \in drain[d].claimed]]
      /\ UNCHANGED <<status, suppressed, campaign, steps, delay, evening, tick, request>>
      /\ \A w \in Ticks : drain[d].exits \cap DOMAIN tick[w].rows = {}
  BY DEF CommitDrain
<1>2. rows \in Seq(Enrollment) /\ Len(rows) = Len(enrollments) /\ DOMAIN rows = Enrolled
  <2>1. \A e \in Enrolled : enrollments[e] \in Enrollment /\ [enrollments[e] EXCEPT !.state = "exited"] \in Enrollment
    BY RowsAreTyped, ExitedIs
  <2>2. rows \in [1..Len(enrollments) -> Enrollment]
    BY <2>1, RowsAreTyped
  <2> QED BY <2>2, RowsAreTyped, FunctionIsSeq
<1>3. \A e \in Enrolled :
        rows[e] = IF e \in drain[d].exits THEN [enrollments[e] EXCEPT !.state = "exited"] ELSE enrollments[e]
  OBVIOUS
<1>4. new \in Seq(Enrollment) /\ Len(new) \in Nat /\ DOMAIN new = 1..Len(new)
  BY DrainFields
<1> HIDE DEF rows, new
<1>17. PICK all : all = rows \o new
  OBVIOUS
<1>5. /\ all \in Seq(Enrollment) /\ Len(all) = Len(rows) + Len(new)
      /\ DOMAIN all = 1..(Len(rows) + Len(new)) /\ DOMAIN rows \subseteq DOMAIN all
      /\ \A n \in DOMAIN rows : all[n] = rows[n]
      /\ \A n \in DOMAIN all \ DOMAIN rows :
              n \in Nat /\ n - Len(rows) \in DOMAIN new /\ all[n] = new[n - Len(rows)]
  <2>1. PICK s \in Seq(Enrollment), u \in Seq(Enrollment) : s = rows /\ u = new
    BY <1>2, <1>4
  <2>2. all = s \o u
    BY <1>17, <2>1
  <2>3. /\ all \in Seq(Enrollment) /\ Len(all) = Len(s) + Len(u)
        /\ DOMAIN all = 1..(Len(s) + Len(u)) /\ DOMAIN s \subseteq DOMAIN all
        /\ \A n \in DOMAIN s : all[n] = s[n]
        /\ \A n \in DOMAIN all \ DOMAIN s : n \in Nat /\ n - Len(s) \in DOMAIN u /\ all[n] = u[n - Len(s)]
    BY <2>2, ConcatIs
  <2> QED BY <2>1, <2>3
<1>6. zeros \in Seq(Nat) /\ Len(zeros) = Len(new) /\ DOMAIN zeros = DOMAIN new
      /\ \A n \in DOMAIN zeros : zeros[n] = 0
  <2>1. zeros \in [1..Len(new) -> Nat]
    BY <1>4 DEF new
  <2>2. DOMAIN zeros = DOMAIN new /\ \A n \in DOMAIN zeros : zeros[n] = 0
    BY DEF new
  <2> QED BY <1>4, <2>1, <2>2, FunctionIsSeq
<1> HIDE DEF zeros
<1>7. late \in Seq(Nat) /\ Len(late) = Len(enrollments) /\ DOMAIN late = Enrolled
  BY RowsAreTyped DEF TypeInv, Types
<1>18. PICK lates : lates = late \o zeros
  OBVIOUS
<1>8. /\ lates \in Seq(Nat) /\ Len(lates) = Len(late) + Len(zeros)
      /\ DOMAIN lates = 1..(Len(late) + Len(zeros))
      /\ \A n \in DOMAIN late : lates[n] = late[n]
      /\ \A n \in DOMAIN lates \ DOMAIN late :
              n - Len(late) \in DOMAIN zeros /\ lates[n] = zeros[n - Len(late)]
  <2>1. PICK s \in Seq(Nat), u \in Seq(Nat) : s = late /\ u = zeros
    BY <1>6, <1>7
  <2>2. lates = s \o u
    BY <1>18, <2>1
  <2>3. /\ lates \in Seq(Nat) /\ Len(lates) = Len(s) + Len(u) /\ DOMAIN lates = 1..(Len(s) + Len(u))
        /\ \A n \in DOMAIN s : lates[n] = s[n]
        /\ \A n \in DOMAIN lates \ DOMAIN s : n - Len(s) \in DOMAIN u /\ lates[n] = u[n - Len(s)]
    BY <2>2, ConcatIs
  <2> QED BY <2>1, <2>3
<1>19. enrollments' = all /\ late' = lates
  BY <1>1, <1>17, <1>18
<1>9. Enrolled' = DOMAIN all
  BY <1>19 DEF Enrolled
<1>10. enrollments' \in Seq(Enrollment) /\ Enrolled \subseteq Enrolled'
       /\ Len(enrollments') = Len(enrollments) + Len(new)
  BY <1>19, <1>2, <1>5, <1>9
<1>11. \A e \in Enrolled :
         enrollments'[e] = IF e \in drain[d].exits THEN [enrollments[e] EXCEPT !.state = "exited"]
                           ELSE enrollments[e]
  BY <1>19, <1>2, <1>3, <1>5
<1>12. \A e \in Enrolled' \ Enrolled :
         e \in Nat /\ e - Len(enrollments) \in DOMAIN new /\ enrollments'[e] = new[e - Len(enrollments)]
  BY <1>19, <1>2, <1>5, <1>9
<1>13. late' \in Seq(Nat) /\ Len(late') = Len(enrollments') /\ \A e \in Enrolled : late'[e] = late[e]
  BY <1>19, <1>4, <1>6, <1>7, <1>8, <1>10
<1>14. \A e \in Enrolled' \ Enrolled : late'[e] = 0
  <2>1. Enrolled' = DOMAIN lates
    BY <1>2, <1>5, <1>6, <1>7, <1>8, <1>9
  <2> QED BY <1>19, <1>6, <1>7, <1>8, <2>1
<1>15. outbox' \in Seq(OutboxRow) /\ DOMAIN outbox' = DOMAIN outbox
  <2>1. \A n \in DOMAIN outbox : [outbox[n] EXCEPT !.processed = @ \/ n \in drain[d].claimed] \in OutboxRow
    BY RowsAreTyped DEF OutboxRow
  <2>2. outbox' \in [1..Len(outbox) -> OutboxRow]
    BY <1>1, <2>1, RowsAreTyped
  <2> QED BY <2>2, RowsAreTyped, FunctionIsSeq
<1>16. drain' \in [Drains -> DrainLocals] /\ drain'[d] = IdleDrain /\ \A o \in Drains \ {d} : drain'[o] = drain[o]
  BY <1>1, IdleTyped DEF TypeInv, Types
<1> QED BY <1>1, <1>10, <1>11, <1>12, <1>13, <1>14, <1>15, <1>16 DEF new

-----------------------------------------------------------------------------
(* Requests, contacts and time *)

LEMMA RequestIs ==
  ASSUME TypeInv, NEW r \in Requests
  PROVE  /\ request[r] \in RequestLocals
         /\ request[r].op # "none" => request[r].campaign \in Campaigns /\ request[r].seen \in CampaignRow
         /\ request[r].op = "enroll" => request[r].contact \in Contacts
         /\ request[r].op \in {"add_step", "patch_step", "delete_step"} => request[r].position \in Positions
<1>1. request[r] \in RequestLocals
  BY DEF TypeInv, Types
<1> QED BY <1>1 DEF RequestLocals, IdleRequest

LEMMA LoadStep ==
  ASSUME TypeInv, NEW r \in Requests, LoadForStatus(r) \/ LoadForEnroll(r) \/ LoadForSteps(r) \/ LoadForPatch(r)
  PROVE  /\ request' \in [Requests -> RequestLocals] /\ \A s \in Requests \ {r} : request'[s] = request[s]
         /\ request'[r].op # "none" /\ request'[r].seen = campaign[request'[r].campaign]
         /\ request'[r].op = "enroll" => request'[r].seen.status # "draft"
         /\ request'[r].op \in {"activate", "pause", "archive"} => request'[r].seen.status # "archived"
         /\ UNCHANGED <<dbVars, evening, tick, drain, late>>
<1> SUFFICES \E req \in RequestLocals :
               /\ req.op # "none" /\ req.seen = campaign[req.campaign] /\ Load(r, req)
               /\ req.op = "enroll" => req.seen.status # "draft"
               /\ req.op \in {"activate", "pause", "archive"} => req.seen.status # "archived"
  BY DEF Load, TypeInv, Types
<1>1. \A k \in Campaigns : campaign[k] \in CampaignRow
  BY DEF TypeInv, Types
<1>2. CASE LoadForStatus(r)
  <2>1. PICK k \in Campaigns, op \in {"activate", "pause", "archive"} :
          Load(r, [op |-> op, campaign |-> k, seen |-> campaign[k]]) /\ campaign[k].status # "archived"
    BY <1>2 DEF LoadForStatus
  <2>2. [op |-> op, campaign |-> k, seen |-> campaign[k]] \in RequestLocals
    BY <1>1 DEF RequestLocals
  <2> QED BY <2>1, <2>2
<1>3. CASE LoadForEnroll(r)
  <2>1. PICK k \in Campaigns, c \in Contacts :
          /\ Load(r, [op |-> "enroll", campaign |-> k, seen |-> campaign[k], contact |-> c, was |-> status[c]])
          /\ campaign[k].status = "active"
    BY <1>3 DEF LoadForEnroll
  <2>2. [op |-> "enroll", campaign |-> k, seen |-> campaign[k], contact |-> c, was |-> status[c]] \in RequestLocals
    BY <1>1 DEF RequestLocals, TypeInv, Types
  <2> QED BY <2>1, <2>2
<1>4. CASE LoadForSteps(r)
  <2>1. PICK k \in Campaigns, p \in Positions, op \in {"add_step", "patch_step", "delete_step"} :
          Load(r, [op |-> op, campaign |-> k, seen |-> campaign[k], position |-> p])
    BY <1>4 DEF LoadForSteps
  <2>2. [op |-> op, campaign |-> k, seen |-> campaign[k], position |-> p] \in RequestLocals
    BY <1>1 DEF RequestLocals
  <2> QED BY <2>1, <2>2
<1>5. CASE LoadForPatch(r)
  <2>1. PICK k \in Campaigns : Load(r, [op |-> "patch_campaign", campaign |-> k, seen |-> campaign[k]])
    BY <1>5 DEF LoadForPatch
  <2>2. [op |-> "patch_campaign", campaign |-> k, seen |-> campaign[k]] \in RequestLocals
    BY <1>1 DEF RequestLocals
  <2> QED BY <2>1, <2>2
<1> QED BY <1>2, <1>3, <1>4, <1>5

LEMMA UnloadStep ==
  ASSUME TypeInv, NEW r \in Requests, Unload(r)
  PROVE  /\ request' \in [Requests -> RequestLocals] /\ request'[r] = IdleRequest
         /\ \A s \in Requests \ {r} : request'[s] = request[s]
BY IdleTyped DEF Unload, TypeInv, Types

LEMMA BumpStep ==
  ASSUME TypeInv, NEW k \in Campaigns, NEW seen \in CampaignRow, BumpVersion(k, seen)
  PROVE  /\ campaign' \in [Campaigns -> CampaignRow]
         /\ \A j \in Campaigns : /\ campaign'[j].status = campaign[j].status
                                 /\ j # k => campaign'[j] = campaign[j]
         /\ campaign'[k].version = IF seen.status \in Published THEN seen.version + 1 ELSE campaign[k].version
<1>1. campaign[k] \in CampaignRow /\ seen.version + 1 \in Nat
  BY DEF TypeInv, Types, CampaignRow
<1>2. campaign' = IF seen.status \in Published
                  THEN [campaign EXCEPT ![k] = [campaign[k] EXCEPT !.version = seen.version + 1]] ELSE campaign
  BY DEF BumpVersion
<1> DEFINE x == [campaign[k] EXCEPT !.version = seen.version + 1]
<1>3. x \in CampaignRow /\ x.version = seen.version + 1 /\ x.status = campaign[k].status
  BY <1>1 DEF CampaignRow
<1> HIDE DEF x
<1>4. campaign' = IF seen.status \in Published THEN [campaign EXCEPT ![k] = x] ELSE campaign
  BY <1>2 DEF x
<1> QED BY <1>3, <1>4 DEF TypeInv, Types

LEMMA CommitStatusStep ==
  ASSUME TypeInv, NEW r \in Requests, CommitStatus(r)
  PROVE  /\ campaign' \in [Campaigns -> CampaignRow]
         /\ \A k \in Campaigns :
              /\ campaign'[k].version = campaign[k].version
              /\ \/ campaign'[k].status = campaign[k].status
                 \/ campaign'[k].status \in {"active", "paused", "archived"} /\ k = request[r].campaign
         /\ UNCHANGED <<steps, delay>>
<1> DEFINE k == request[r].campaign
           new == CASE request[r].op = "activate" -> "active" [] request[r].op = "pause" -> "paused"
                    [] OTHER -> "archived"
           x == [campaign[k] EXCEPT !.status = new]
<1>1. request[r].op # "none" /\ k \in Campaigns
  BY RequestIs DEF CommitStatus
<1>2. new \in {"active", "paused", "archived"}
  OBVIOUS
<1>3. /\ campaign' = (IF request[r].seen.status = new THEN campaign ELSE [campaign EXCEPT ![k] = x])
      /\ UNCHANGED <<steps, delay>>
  BY DEF CommitStatus
<1> HIDE DEF new, k
<1>5. campaign[k] \in CampaignRow
  BY <1>1 DEF TypeInv, Types
<1>4. x \in CampaignRow /\ x.version = campaign[k].version /\ x.status \in {"active", "paused", "archived"}
  BY <1>2, <1>5 DEF CampaignRow
<1> HIDE DEF x
<1> QED BY <1>1, <1>3, <1>4 DEF TypeInv, Types, k

LEMMA PatchCampaignStep ==
  ASSUME TypeInv, NEW r \in Requests, CommitPatchCampaign(r)
  PROVE  /\ campaign' \in [Campaigns -> CampaignRow] /\ request[r].campaign \in Campaigns
         /\ \A j \in Campaigns : /\ campaign'[j].status = campaign[j].status
                                 /\ j # request[r].campaign => campaign'[j] = campaign[j]
         /\ campaign'[request[r].campaign].version =
              IF request[r].seen.status \in Published THEN request[r].seen.version + 1
              ELSE campaign[request[r].campaign].version
         /\ UNCHANGED <<steps, delay>>
<1>1. request[r].op = "patch_campaign" /\ UNCHANGED <<steps, delay>>
  BY DEF CommitPatchCampaign
<1>2. PICK k \in Campaigns, seen \in CampaignRow : k = request[r].campaign /\ seen = request[r].seen
  BY <1>1, RequestIs
<1> DEFINE v == IF seen.status \in Published THEN seen.version + 1 ELSE campaign[k].version
<1>3. PICK event \in Events \cup {Null} :
        campaign' = [campaign EXCEPT ![k] = [campaign[k] EXCEPT !.trigger = event, !.version = v]]
  <2>1. PICK event \in Events \cup {Null} :
          campaign' = [campaign EXCEPT
            ![request[r].campaign].trigger = event,
            ![request[r].campaign].version =
              IF request[r].seen.status \in Published THEN request[r].seen.version + 1
              ELSE campaign[request[r].campaign].version]
    BY DEF CommitPatchCampaign
  <2>2. campaign' = [campaign EXCEPT ![k].trigger = event, ![k].version = v]
    BY <1>2, <2>1
  <2> QED BY <2>2
<1>4. v \in Nat
  BY DEF CampaignRow, TypeInv, Types
<1> DEFINE x == [campaign[k] EXCEPT !.trigger = event, !.version = v]
<1>5. campaign[k] \in CampaignRow
  BY DEF TypeInv, Types
<1> HIDE DEF v
<1>6. x \in CampaignRow /\ x.version = v /\ x.status = campaign[k].status
  BY <1>4, <1>5 DEF CampaignRow
<1> HIDE DEF x
<1>7. campaign' = [campaign EXCEPT ![k] = x]
  BY <1>3 DEF x
<1> QED BY <1>1, <1>2, <1>6, <1>7 DEF TypeInv, Types, v

LEMMA StepRowsAre ==
  ASSUME NEW D \in SUBSET Positions, NEW f \in [D -> Steps]
  PROVE  f \in StepRows
BY DEF StepRows

LEMMA AddStepStep ==
  ASSUME TypeInv, NEW r \in Requests, CommitAddStep(r)
  PROVE  /\ request[r].campaign \in Campaigns /\ request[r].seen \in CampaignRow
         /\ steps' \in [Campaigns -> StepRows] /\ BumpVersion(request[r].campaign, request[r].seen)
         /\ \A j \in Campaigns \ {request[r].campaign} : steps'[j] = steps[j]
         /\ UNCHANGED delay
<1>1. /\ request[r].campaign \in Campaigns /\ request[r].seen \in CampaignRow
      /\ request[r].position \in Positions
  BY RequestIs DEF CommitAddStep
<1>2. PICK k \in Campaigns, q \in Positions : k = request[r].campaign /\ q = request[r].position
  BY <1>1
<1>3. PICK s \in Steps : steps' = [steps EXCEPT ![k] = [p \in DOMAIN @ \cup {q} |-> IF p = q THEN s ELSE @[p]]]
  BY <1>2 DEF CommitAddStep
<1> DEFINE f == [p \in Occupied(k) \cup {q} |-> IF p = q THEN s ELSE steps[k][p]]
<1>4. f \in [Occupied(k) \cup {q} -> Steps] /\ Occupied(k) \cup {q} \in SUBSET Positions
  BY RowsAreTyped
<1>5. steps' = [steps EXCEPT ![k] = f]
  BY <1>3 DEF Occupied
<1> HIDE DEF f
<1>6. f \in StepRows
  BY <1>4, StepRowsAre
<1> QED BY <1>1, <1>2, <1>5, <1>6 DEF TypeInv, Types, CommitAddStep

LEMMA DeleteStepStep ==
  ASSUME TypeInv, NEW r \in Requests, CommitDeleteStep(r)
  PROVE  /\ request[r].campaign \in Campaigns /\ request[r].seen \in CampaignRow
         /\ steps' \in [Campaigns -> StepRows] /\ BumpVersion(request[r].campaign, request[r].seen)
         /\ \A j \in Campaigns \ {request[r].campaign} : steps'[j] = steps[j]
         /\ UNCHANGED delay
<1>1. /\ request[r].campaign \in Campaigns /\ request[r].seen \in CampaignRow
      /\ request[r].position \in Positions
  BY RequestIs DEF CommitDeleteStep
<1>2. PICK k \in Campaigns, q \in Positions : k = request[r].campaign /\ q = request[r].position
  BY <1>1
<1>3. steps' = [steps EXCEPT ![k] = [p \in DOMAIN @ \ {q} |-> @[p]]]
  BY <1>2 DEF CommitDeleteStep
<1> DEFINE f == [p \in Occupied(k) \ {q} |-> steps[k][p]]
<1>4. f \in [Occupied(k) \ {q} -> Steps] /\ Occupied(k) \ {q} \in SUBSET Positions
  BY RowsAreTyped
<1>5. steps' = [steps EXCEPT ![k] = f]
  BY <1>3 DEF Occupied
<1> HIDE DEF f
<1>6. f \in StepRows
  BY <1>4, StepRowsAre
<1> QED BY <1>1, <1>2, <1>5, <1>6 DEF TypeInv, Types, CommitDeleteStep

LEMMA PatchStepStep ==
  ASSUME TypeInv, NEW r \in Requests, CommitPatchStep(r)
  PROVE  /\ request[r].campaign \in Campaigns /\ request[r].seen \in CampaignRow
         /\ steps' \in [Campaigns -> StepRows] /\ BumpVersion(request[r].campaign, request[r].seen)
         /\ \A j \in Campaigns \ {request[r].campaign} : steps'[j] = steps[j]
         /\ delay' \in [Steps -> Delays]
<1>1. /\ request[r].campaign \in Campaigns /\ request[r].seen \in CampaignRow
      /\ request[r].position \in Positions
  BY RequestIs DEF CommitPatchStep
<1>2. PICK k \in Campaigns, p \in Positions : k = request[r].campaign /\ p = request[r].position
  BY <1>1
<1>3. p \in Occupied(k) /\ steps[k][p] \in Steps /\ BumpVersion(request[r].campaign, request[r].seen)
  BY <1>2, RowsAreTyped DEF CommitPatchStep
<1>4. CASE \E n \in Delays : delay' = [delay EXCEPT ![steps[k][p]] = n] /\ UNCHANGED steps
  BY <1>1, <1>3, <1>4 DEF TypeInv, Types
<1>5. CASE UNCHANGED delay /\ \E q \in Positions \ {p} : steps' = [steps EXCEPT ![k] = StepMoved(k, p, q)]
  <2>1. PICK q \in Positions \ {p} : steps' = [steps EXCEPT ![k] = StepMoved(k, p, q)]
    BY <1>5
  <2> DEFINE D == (Occupied(k) \ {p}) \cup {q} \cup (IF q \in Occupied(k) THEN {p} ELSE {})
             f == [x \in D |-> IF x = q THEN steps[k][p] ELSE IF x = p THEN steps[k][q] ELSE steps[k][x]]
  <2>2. D \in SUBSET Positions
    BY RowsAreTyped
  <2>3. \A x \in D : (IF x = q THEN steps[k][p] ELSE IF x = p THEN steps[k][q] ELSE steps[k][x]) \in Steps
    BY <1>3, RowsAreTyped
  <2>4. steps' = [steps EXCEPT ![k] = f]
    BY <2>1 DEF StepMoved
  <2> HIDE DEF D
  <2>5. f \in [D -> Steps]
    BY <2>3
  <2> HIDE DEF f
  <2>6. f \in StepRows
    BY <2>2, <2>5, StepRowsAre
  <2> QED BY <1>1, <1>2, <1>3, <1>5, <2>4, <2>6 DEF TypeInv, Types
<1>6. \/ \E n \in Delays : delay' = [delay EXCEPT ![steps[k][p]] = n] /\ UNCHANGED steps
      \/ UNCHANGED delay /\ \E q \in Positions \ {p} : steps' = [steps EXCEPT ![k] = StepMoved(k, p, q)]
  BY <1>2 DEF CommitPatchStep
<1> QED BY <1>4, <1>5, <1>6

(* Staff enrol a contact: its row is added, with the version the request saw. *)
LEMMA CommitEnrollStep ==
  ASSUME TypeInv, NEW r \in Requests, CommitEnroll(r)
  PROVE  /\ request[r].campaign \in Campaigns /\ request[r].contact \in Contacts
         /\ \A d \in Drains : \A n \in DOMAIN drain[d].new :
              ~IsOpenFor(drain[d].new[n], request[r].campaign, request[r].contact)
         /\ UNCHANGED <<status, suppressed, campaign, steps, delay, outbox, evening, tick, drain>>
         /\ Unload(r)
         /\ enrollments' \in Seq(Enrollment) /\ late' \in Seq(Nat) /\ Len(late') = Len(enrollments')
         /\ \/ UNCHANGED <<enrollments, late>>
            \/ /\ IndexAccepts(request[r].campaign, request[r].contact, {})
               /\ Enrolled' = Enrolled \cup {Len(enrollments) + 1}
               /\ \A e \in Enrolled : enrollments'[e] = enrollments[e] /\ late'[e] = late[e]
               /\ LET e == enrollments'[Len(enrollments) + 1] IN
                  /\ e.campaign = request[r].campaign /\ e.contact = request[r].contact
                  /\ e.version = request[r].seen.version /\ e.state = "active" /\ e.log = <<>>
                  /\ e.position = StartingPosition(request[r].campaign)
               /\ late'[Len(enrollments) + 1] = 0
<1>1. request[r].campaign \in Campaigns /\ request[r].contact \in Contacts /\ request[r].seen \in CampaignRow
  BY RequestIs DEF CommitEnroll
<1>2. PICK k \in Campaigns, c \in Contacts, v \in Nat :
        k = request[r].campaign /\ c = request[r].contact /\ v = request[r].seen.version
  BY <1>1 DEF CampaignRow
<1>3. /\ \A d \in Drains : \A n \in DOMAIN drain[d].new : ~IsOpenFor(drain[d].new[n], k, c)
      /\ UNCHANGED <<status, suppressed, campaign, steps, delay, outbox, evening, tick, drain>> /\ Unload(r)
  BY <1>2 DEF CommitEnroll
<1>4. \/ UNCHANGED <<enrollments, late>>
      \/ /\ IndexAccepts(k, c, {})
         /\ enrollments' = Append(enrollments, [NewEnrollment(k, c) EXCEPT !.version = v])
         /\ late' = Append(late, 0)
  BY <1>2 DEF CommitEnroll
<1>5. CASE UNCHANGED <<enrollments, late>>
  BY <1>1, <1>2, <1>3, <1>5 DEF TypeInv, Types
<1>6. CASE /\ IndexAccepts(k, c, {})
           /\ enrollments' = Append(enrollments, [NewEnrollment(k, c) EXCEPT !.version = v])
           /\ late' = Append(late, 0)
  <2>1. NewEnrollment(k, c) \in Enrollment
    BY NewEnrollmentIs
  <2>2. PICK x : x = [NewEnrollment(k, c) EXCEPT !.version = v]
    OBVIOUS
  <2>3. /\ x \in Enrollment /\ x.campaign = k /\ x.contact = c /\ x.version = v
        /\ x.state = "active" /\ x.log = <<>> /\ x.position = StartingPosition(k)
    BY <2>1, <2>2 DEF NewEnrollment, Enrollment
  <2>4. enrollments' = Append(enrollments, x) /\ enrollments \in Seq(Enrollment)
        /\ late' = Append(late, 0) /\ late \in Seq(Nat) /\ Len(late) = Len(enrollments)
    BY <1>6, <2>2 DEF TypeInv, Types
  <2>5. /\ enrollments' \in Seq(Enrollment) /\ Len(enrollments') = Len(enrollments) + 1
        /\ \A e \in 1..Len(enrollments) : enrollments'[e] = enrollments[e]
        /\ enrollments'[Len(enrollments) + 1] = x
    BY <2>3, <2>4, AppendProperties
  <2>6. /\ late' \in Seq(Nat) /\ Len(late') = Len(enrollments) + 1
        /\ \A e \in 1..Len(enrollments) : late'[e] = late[e]
        /\ late'[Len(enrollments) + 1] = 0
    BY <2>4, AppendProperties
  <2>7. Enrolled = 1..Len(enrollments) /\ Enrolled' = 1..Len(enrollments')
    BY <2>4, <2>5 DEF Enrolled
  <2>8. Enrolled' = Enrolled \cup {Len(enrollments) + 1}
    BY <2>5, <2>7, RowsAreTyped
  <2>9. /\ IndexAccepts(k, c, {}) /\ Enrolled' = Enrolled \cup {Len(enrollments) + 1}
        /\ \A e \in Enrolled : enrollments'[e] = enrollments[e] /\ late'[e] = late[e]
        /\ late'[Len(enrollments) + 1] = 0
    BY <1>6, <2>5, <2>6, <2>7, <2>8
  <2>10. LET e == enrollments'[Len(enrollments) + 1] IN
           /\ e.campaign = k /\ e.contact = c /\ e.version = v /\ e.state = "active" /\ e.log = <<>>
           /\ e.position = StartingPosition(k)
    BY <2>3, <2>5
  <2>11. enrollments' \in Seq(Enrollment) /\ late' \in Seq(Nat) /\ Len(late') = Len(enrollments')
    BY <2>5, <2>6
  <2> QED BY <1>1, <1>2, <1>3, <2>9, <2>10, <2>11
<1> QED BY <1>4, <1>5, <1>6

(* The campaign editors' commits *)
Edits(r) == \/ CommitStatus(r) \/ CommitPatchCampaign(r) \/ CommitAddStep(r)
            \/ CommitPatchStep(r) \/ CommitDeleteStep(r)

LEMMA EditStep ==
  ASSUME TypeInv, NEW r \in Requests, Edits(r)
  PROVE  /\ campaign' \in [Campaigns -> CampaignRow] /\ steps' \in [Campaigns -> StepRows]
         /\ delay' \in [Steps -> Delays] /\ Unload(r)
         /\ UNCHANGED <<status, suppressed, enrollments, outbox, evening, tick, drain, late>>
<1>1. Unload(r) /\ UNCHANGED <<status, suppressed, enrollments, outbox, evening, tick, drain, late>>
  BY DEF Edits, CommitStatus, CommitPatchCampaign, CommitAddStep, CommitPatchStep, CommitDeleteStep
<1>2. CASE CommitStatus(r) \/ CommitPatchCampaign(r)
  <2>1. campaign' \in [Campaigns -> CampaignRow] /\ UNCHANGED <<steps, delay>>
    BY <1>2, CommitStatusStep, PatchCampaignStep
  <2> QED BY <1>1, <2>1 DEF TypeInv, Types
<1>3. CASE CommitAddStep(r) \/ CommitPatchStep(r) \/ CommitDeleteStep(r)
  <2>1. PICK k \in Campaigns, seen \in CampaignRow : BumpVersion(k, seen)
    BY <1>3, AddStepStep, PatchStepStep, DeleteStepStep
  <2>2. campaign' \in [Campaigns -> CampaignRow]
    BY <2>1, BumpStep
  <2>3. steps' \in [Campaigns -> StepRows] /\ delay' \in [Steps -> Delays]
    <3>1. delay \in [Steps -> Delays]
      BY DEF TypeInv, Types
    <3> QED BY <1>3, <3>1, AddStepStep, PatchStepStep, DeleteStepStep
  <2> QED BY <1>1, <2>2, <2>3
<1> QED BY <1>2, <1>3 DEF Edits

LEMMA ContactEventStep ==
  ASSUME TypeInv, NEW c \in Contacts, NEW event \in Events \cup {DoNotEngage}, ContactEvent(c, event)
  PROVE  /\ status' \in [Contacts -> Statuses] /\ outbox' \in Seq(OutboxRow) /\ DOMAIN outbox \subseteq DOMAIN outbox'
         /\ \A x \in Contacts : status[x] = "do_not_engage" => status'[x] = "do_not_engage"
         /\ UNCHANGED <<suppressed, campaign, steps, delay, enrollments, evening, tick, drain, request, late>>
<1>1. [contact |-> c, event |-> event, processed |-> FALSE] \in OutboxRow
  BY DEF OutboxRow
<1>2. PICK row \in OutboxRow : outbox' = Append(outbox, row)
  BY <1>1 DEF ContactEvent
<1>3. outbox' \in Seq(OutboxRow) /\ Len(outbox') = Len(outbox) + 1
  BY <1>2, AppendProperties DEF TypeInv, Types
<1>4. DOMAIN outbox \subseteq DOMAIN outbox'
  BY <1>3, RowsAreTyped, LenProperties
<1>5. status' \in [Contacts -> Statuses]
      /\ \A x \in Contacts : status[x] = "do_not_engage" => status'[x] = "do_not_engage"
  BY DEF ContactEvent, TypeInv, Types, Statuses
<1> QED BY <1>3, <1>4, <1>5 DEF ContactEvent

LEMMA HalfDayStep ==
  ASSUME TypeInv, HalfDay
  PROVE  /\ evening' \in BOOLEAN /\ enrollments' \in Seq(Enrollment) /\ Len(enrollments') = Len(enrollments)
         /\ Enrolled' = Enrolled
         /\ \A e \in Enrolled :
              /\ enrollments'[e].campaign = enrollments[e].campaign
              /\ enrollments'[e].contact = enrollments[e].contact
              /\ enrollments'[e].version = enrollments[e].version
              /\ enrollments'[e].position = enrollments[e].position
              /\ enrollments'[e].state = enrollments[e].state /\ enrollments'[e].log = enrollments[e].log
         /\ \A w \in Ticks : DOMAIN tick[w].rows = {}
         /\ UNCHANGED <<status, suppressed, campaign, steps, delay, outbox, tick, drain, request, late>>
<1> DEFINE older(row) == [row EXCEPT !.age = IF @ = Never \/ @ = MaxAge THEN @ ELSE @ + 1]
<1>1. ASSUME NEW row \in Enrollment
      PROVE  /\ older(row) \in Enrollment
             /\ older(row).campaign = row.campaign /\ older(row).contact = row.contact
             /\ older(row).version = row.version /\ older(row).position = row.position
             /\ older(row).state = row.state /\ older(row).log = row.log
  <2> DEFINE a == IF row.age = Never \/ row.age = MaxAge THEN row.age ELSE row.age + 1
  <2>1. row.age \in {Never} \cup 0..MaxAge /\ MaxAge \in Nat
    BY LongestDelay DEF Enrollment
  <2>2. a \in {Never} \cup 0..MaxAge
    BY <2>1
  <2>3. older(row) = [row EXCEPT !.age = a]
    OBVIOUS
  <2> HIDE DEF a, older
  <2> QED BY <2>2, <2>3 DEF Enrollment
<1>2. enrollments' = [e \in Enrolled |-> older(enrollments[e])]
      /\ UNCHANGED <<status, suppressed, campaign, steps, delay, outbox, tick, drain, request, late>>
      /\ evening' = ~evening /\ \A w \in Ticks : tick[w].pc = "idle"
  BY DEF HalfDay
<1> HIDE DEF older
<1>3. Enrolled' = Enrolled
  BY <1>2 DEF Enrolled
<1>4. \A e \in Enrolled : enrollments'[e] = older(enrollments[e]) /\ enrollments[e] \in Enrollment
  BY <1>2, RowsAreTyped
<1>5. enrollments' \in [1..Len(enrollments) -> Enrollment]
  BY <1>1, <1>2, <1>4, RowsAreTyped
<1>6. enrollments' \in Seq(Enrollment) /\ Len(enrollments') = Len(enrollments)
  BY <1>5, RowsAreTyped, FunctionIsSeq
<1>7. \A w \in Ticks : DOMAIN tick[w].rows = {}
  BY <1>2 DEF TypeInv, TickOK
<1>8. evening' \in BOOLEAN
  BY <1>2 DEF TypeInv, Types
<1> QED BY <1>1, <1>2, <1>3, <1>4, <1>6, <1>7, <1>8

LEMMA SuppressionStep ==
  ASSUME TypeInv, NEW c \in Contacts, AddSuppression(c) \/ RemoveSuppression(c)
  PROVE  /\ suppressed' \subseteq Contacts /\ late' \in Seq(Nat) /\ Len(late') = Len(late)
         /\ UNCHANGED <<status, campaign, steps, delay, enrollments, outbox, evening, tick, drain, request>>
<1>1. CASE AddSuppression(c)
  BY <1>1 DEF AddSuppression, TypeInv, Types
<1>2. CASE RemoveSuppression(c)
  <2>1. late' = [e \in Enrolled |-> IF enrollments[e].contact = c THEN 0 ELSE late[e]]
    BY <1>2 DEF RemoveSuppression
  <2>2. late' \in [1..Len(late) -> Nat] /\ Len(late) \in Nat
    BY <2>1, RowsAreTyped DEF TypeInv, Types
  <2>3. late' \in Seq(Nat) /\ Len(late') = Len(late)
    BY <2>2, FunctionIsSeq
  <2> QED BY <1>2, <2>3 DEF RemoveSuppression, TypeInv, Types
<1> QED BY <1>1, <1>2

-----------------------------------------------------------------------------
(* Every step keeps the types *)

LEMMA TypesAtStart == Init => TypeInv
<1> SUFFICES ASSUME Init PROVE TypeInv
  OBVIOUS
<1>1. status \in [Contacts -> Statuses] /\ suppressed \subseteq Contacts /\ evening \in BOOLEAN
      /\ campaign \in [Campaigns -> CampaignRow] /\ steps \in [Campaigns -> StepRows]
      /\ delay \in [Steps -> Delays]
  BY DEF Init, Statuses, CampaignRow, StepRows
<1>2. enrollments = <<>> /\ outbox = <<>> /\ late = <<>>
  BY DEF Init
<1>3. enrollments \in Seq(Enrollment) /\ outbox \in Seq(OutboxRow) /\ late \in Seq(Nat)
      /\ Len(late) = Len(enrollments)
  BY <1>2, EmptySeq
<1>4. /\ tick \in [Ticks -> TickLocals] /\ drain \in [Drains -> DrainLocals]
      /\ request \in [Requests -> RequestLocals]
  BY IdleTyped DEF Init
<1>5. ASSUME NEW w \in Ticks PROVE TickOK(w)
  <2>1. tick[w] = IdleTick
    BY DEF Init
  <2> QED BY <2>1, IdleTyped DEF TickOK, IdleTick
<1>6. ASSUME NEW d \in Drains PROVE DrainOK(d)
  BY DEF DrainOK, Init, IdleDrain
<1> QED BY <1>1, <1>3, <1>4, <1>5, <1>6 DEF TypeInv, Types

(* TickOK of a tick whose locals stay, as rows are only added *)
LEMMA TickStaysOK ==
  ASSUME NEW w, TickOK(w), tick'[w] = tick[w], Enrolled \subseteq Enrolled'
  PROVE  TickOK(w)'
BY DEF TickOK

LEMMA DrainStaysOK ==
  ASSUME NEW d, DrainOK(d), drain'[d] = drain[d], DOMAIN outbox \subseteq DOMAIN outbox'
  PROVE  DrainOK(d)'
BY DEF DrainOK

LEMMA TickKeepsTypes ==
  ASSUME TypeInv, NEW w \in Ticks, Tick(w)
  PROVE  TypeInv'
<1>1. ASSUME TickMoves(w), late' \in Seq(Nat), Len(late') = Len(late), TickOK(w)'
      PROVE  TypeInv'
  <2>1. \A v \in Ticks \ {w} : tick'[v] = tick[v]
    BY <1>1 DEF TickMoves
  <2>2. Enrolled' = Enrolled /\ DOMAIN outbox' = DOMAIN outbox /\ drain' = drain
    BY <1>1 DEF TickMoves, dbVars, Enrolled
  <2>3. \A v \in Ticks : TickOK(v)'
    BY <1>1, <2>1, <2>2, TickStaysOK DEF TypeInv
  <2>4. \A d \in Drains : DrainOK(d)'
    BY <2>2, DrainStaysOK DEF TypeInv
  <2>5. Types'
    BY <1>1 DEF TypeInv, Types, TickMoves, dbVars
  <2> QED BY <2>3, <2>4, <2>5 DEF TypeInv
<1>2. late \in Seq(Nat) /\ TickOK(w)
  BY DEF TypeInv, Types
<1>3. ASSUME TickMoves(w) PROVE Enrolled' = Enrolled
  BY <1>3 DEF TickMoves, dbVars, Enrolled
<1>4. CASE StartTick(w)
  <2>1. DOMAIN tick'[w].rows \subseteq Enrolled'
    BY <1>3, <1>4, StartTickStep DEF Due
  <2>2. TickOK(w)'
    BY <1>4, <2>1, StartTickStep DEF TickOK
  <2> QED BY <1>1, <1>2, <1>4, <2>2, StartTickStep
<1>5. ASSUME NEW e, NEW row, TickMoves(w), TickDone(w, e, row) PROVE TickOK(w)'
  BY <1>2, <1>3, <1>5 DEF TickOK, TickDone
<1>6. ASSUME tick[w].todo # {}, CountMail(w) PROVE late' \in Seq(Nat) /\ Len(late') = Len(late)
  <2>1. Current(w) \in DOMAIN late /\ late[Current(w)] + 1 \in Nat /\ late = late
    BY <1>6, CurrentRow, RowsAreTyped
  <2>2. late' = late \/ late' = [late EXCEPT ![Current(w)] = late[Current(w)] + 1]
    BY <1>6 DEF CountMail
  <2> QED BY <1>2, <2>1, <2>2
<1>7. CASE ExitCurrent(w)
  BY <1>1, <1>2, <1>5, <1>7, ExitCurrentStep
<1>8. CASE Defer(w) \/ LoseAnswer(w) \/ RefuseSend(w)
  BY <1>1, <1>2, <1>5, <1>6, <1>8, KeepRowStep
<1>9. CASE Deliver(w)
  BY <1>1, <1>5, <1>6, <1>9, DeliverStep
<1>10. CASE BeginSend(w)
  <2>1. TickOK(w)'
    BY <1>2, <1>3, <1>10, BeginSendStep DEF TickOK
  <2> QED BY <1>1, <1>2, <1>10, <2>1, BeginSendStep
<1>11. CASE AbortTick(w)
  <2>1. TickOK(w)'
    BY <1>11, AbortTickStep, IdleTyped DEF TickOK, IdleTick
  <2> QED BY <1>1, <1>2, <1>11, <2>1, AbortTickStep
<1>12. CASE CommitTick(w)
  <2>1. Types'
    BY <1>12, CommitTickStep DEF TypeInv, Types
  <2>2. \A v \in Ticks : TickOK(v)'
    <3> SUFFICES ASSUME NEW v \in Ticks PROVE TickOK(v)'
      OBVIOUS
    <3>1. CASE v = w
      BY <1>12, <3>1, CommitTickStep, IdleTyped DEF TickOK, IdleTick
    <3>2. CASE v # w
      BY <1>12, <3>2, CommitTickStep, TickStaysOK DEF TypeInv
    <3> QED BY <3>1, <3>2
  <2>3. \A d \in Drains : DrainOK(d)'
    BY <1>12, CommitTickStep, DrainStaysOK DEF TypeInv
  <2> QED BY <2>1, <2>2, <2>3 DEF TypeInv
<1> QED BY <1>4, <1>7, <1>8, <1>9, <1>10, <1>11, <1>12 DEF Tick

LEMMA DrainKeepsTypes ==
  ASSUME TypeInv, NEW d \in Drains, Drain(d)
  PROVE  TypeInv'
<1>1. ASSUME DrainMoves(d), DrainOK(d)' PROVE TypeInv'
  <2>1. \A o \in Drains \ {d} : drain'[o] = drain[o]
    BY <1>1 DEF DrainMoves
  <2>2. Enrolled' = Enrolled /\ outbox' = outbox /\ tick' = tick
    BY <1>1 DEF DrainMoves, dbVars, Enrolled
  <2>3. \A w \in Ticks : TickOK(w)'
    BY <2>2, TickStaysOK DEF TypeInv
  <2>4. \A o \in Drains : DrainOK(o)'
    BY <1>1, <2>1, <2>2, DrainStaysOK DEF TypeInv
  <2>5. Types'
    BY <1>1 DEF TypeInv, Types, DrainMoves, dbVars
  <2> QED BY <2>3, <2>4, <2>5 DEF TypeInv
<1>2. DrainOK(d)
  BY DEF TypeInv
<1>3. ASSUME DrainMoves(d) PROVE outbox' = outbox
  BY <1>3 DEF DrainMoves, dbVars
<1>4. CASE StartDrain(d)
  <2>1. DrainOK(d)'
    BY <1>3, <1>4, StartDrainStep DEF DrainOK
  <2> QED BY <1>1, <1>4, <2>1, StartDrainStep
<1>5. CASE HandleRow(d)
  <2>1. DrainMoves(d) /\ drain'[d].pc = "working" /\ drain'[d].todo \subseteq drain[d].todo
    BY <1>5, HandledRow, ExitContactStep, EnrollContactStep
  <2>2. DrainOK(d)'
    BY <1>2, <1>3, <2>1 DEF DrainOK
  <2> QED BY <1>1, <2>1, <2>2
<1>6. CASE AbortDrain(d)
  <2>1. DrainOK(d)'
    BY <1>6, AbortDrainStep DEF DrainOK, IdleDrain
  <2> QED BY <1>1, <1>6, <2>1, AbortDrainStep
<1>7. CASE CommitDrain(d)
  <2>1. Types'
    BY <1>7, CommitDrainStep DEF TypeInv, Types
  <2>2. \A w \in Ticks : TickOK(w)'
    BY <1>7, CommitDrainStep, TickStaysOK DEF TypeInv
  <2>3. \A o \in Drains : DrainOK(o)'
    <3> SUFFICES ASSUME NEW o \in Drains PROVE DrainOK(o)'
      OBVIOUS
    <3>1. CASE o = d
      BY <1>7, <3>1, CommitDrainStep DEF DrainOK, IdleDrain
    <3>2. CASE o # d
      BY <1>7, <3>2, CommitDrainStep, DrainStaysOK DEF TypeInv
    <3> QED BY <3>1, <3>2
  <2> QED BY <2>1, <2>2, <2>3 DEF TypeInv
<1> QED BY <1>4, <1>5, <1>6, <1>7 DEF Drain

(* Steps that leave the ticks and the drains alone *)
LEMMA OthersKeepTypes ==
  ASSUME TypeInv, Types', UNCHANGED <<tick, drain>>, Enrolled \subseteq Enrolled', DOMAIN outbox \subseteq DOMAIN outbox'
  PROVE  TypeInv'
<1>1. \A w \in Ticks : TickOK(w)'
  BY TickStaysOK DEF TypeInv
<1>2. \A d \in Drains : DrainOK(d)'
  BY DrainStaysOK DEF TypeInv
<1> QED BY <1>1, <1>2 DEF TypeInv

LEMMA RequestKeepsTypes ==
  ASSUME TypeInv, NEW r \in Requests, Request(r)
  PROVE  TypeInv'
<1>1. CASE LoadForStatus(r) \/ LoadForEnroll(r) \/ LoadForSteps(r) \/ LoadForPatch(r)
  <2>1. request' \in [Requests -> RequestLocals] /\ UNCHANGED <<dbVars, evening, tick, drain, late>>
    BY <1>1, LoadStep
  <2>2. Types' /\ Enrolled' = Enrolled
    BY <2>1 DEF TypeInv, Types, dbVars, Enrolled
  <2> QED BY <2>1, <2>2, OthersKeepTypes DEF dbVars
<1>2. CASE Edits(r)
  <2>1. /\ campaign' \in [Campaigns -> CampaignRow] /\ steps' \in [Campaigns -> StepRows]
        /\ delay' \in [Steps -> Delays] /\ request' \in [Requests -> RequestLocals]
        /\ UNCHANGED <<status, suppressed, enrollments, outbox, evening, tick, drain, late>>
    BY <1>2, EditStep, UnloadStep
  <2>2. Types' /\ Enrolled' = Enrolled
    BY <2>1 DEF TypeInv, Types, Enrolled
  <2> QED BY <2>1, <2>2, OthersKeepTypes
<1>3. CASE CommitEnroll(r)
  <2>1. Unload(r) /\ UNCHANGED <<status, suppressed, campaign, steps, delay, outbox, evening, tick, drain>>
        /\ enrollments' \in Seq(Enrollment) /\ late' \in Seq(Nat) /\ Len(late') = Len(enrollments')
    BY <1>3, CommitEnrollStep
  <2>2. Types'
    BY <2>1, UnloadStep DEF TypeInv, Types
  <2>3. Enrolled \subseteq Enrolled'
    <3>1. CASE UNCHANGED <<enrollments, late>>
      BY <3>1 DEF Enrolled
    <3>2. CASE ~UNCHANGED <<enrollments, late>>
      BY <1>3, <3>2, CommitEnrollStep
    <3> QED BY <3>1, <3>2
  <2> QED BY <2>1, <2>2, <2>3, OthersKeepTypes
<1>4. CASE FailRequest(r)
  <2>1. request' \in [Requests -> RequestLocals] /\ UNCHANGED <<dbVars, evening, tick, drain, late>>
    BY <1>4, UnloadStep DEF FailRequest
  <2>2. Types' /\ Enrolled' = Enrolled
    BY <2>1 DEF TypeInv, Types, dbVars, Enrolled
  <2> QED BY <2>1, <2>2, OthersKeepTypes DEF dbVars
<1> QED BY <1>1, <1>2, <1>3, <1>4 DEF Request, Edits

LEMMA TypesKept == TypeInv /\ [Next]_vars => TypeInv'
<1> SUFFICES ASSUME TypeInv, [Next]_vars PROVE TypeInv'
  OBVIOUS
<1>1. CASE UNCHANGED vars
  <2>1. Types' /\ Enrolled' = Enrolled /\ UNCHANGED <<tick, drain, outbox>>
    BY <1>1 DEF TypeInv, Types, vars, dbVars, Enrolled
  <2> QED BY <2>1, OthersKeepTypes
<1>2. ASSUME NEW c \in Contacts, NEW event \in Events \cup {DoNotEngage}, ContactEvent(c, event) PROVE TypeInv'
  <2>1. Types' /\ Enrolled' = Enrolled
    BY <1>2, ContactEventStep DEF TypeInv, Types, Enrolled
  <2> QED BY <1>2, <2>1, ContactEventStep, OthersKeepTypes
<1>3. ASSUME NEW c \in Contacts, AddSuppression(c) \/ RemoveSuppression(c) PROVE TypeInv'
  <2>1. Types' /\ Enrolled' = Enrolled
    BY <1>3, SuppressionStep DEF TypeInv, Types, Enrolled
  <2> QED BY <1>3, <2>1, SuppressionStep, OthersKeepTypes
<1>4. CASE HalfDay
  <2>1. Types' /\ Enrolled' = Enrolled
    BY <1>4, HalfDayStep DEF TypeInv, Types
  <2> QED BY <1>4, <2>1, HalfDayStep, OthersKeepTypes
<1> QED BY <1>1, <1>2, <1>3, <1>4, TickKeepsTypes, DrainKeepsTypes, RequestKeepsTypes DEF Next

LEMMA TypesInvariant == Safety => []TypeInv
BY TypesAtStart, TypesKept, PTL DEF Safety

LEMMA TypesAreOK == TypeInv => TypeOK
<1> SUFFICES ASSUME TypeInv PROVE TypeOK
  OBVIOUS
<1>1. \A k \in Campaigns : Occupied(k) \subseteq Positions /\ \A p \in Occupied(k) : steps[k][p] \in Steps
  BY RowsAreTyped
<1>2. \A w \in Ticks : /\ tick[w].todo \subseteq DOMAIN tick[w].rows
                       /\ \A e \in DOMAIN tick[w].rows : tick[w].rows[e] \in Enrollment
  BY CopiesAreTyped DEF TypeInv, TickOK
<1> QED BY <1>1, <1>2 DEF TypeOK, TypeInv, Types, Statuses

(* Types: every row is one the tables allow, and a tick carries copies of the
   rows it claimed, among them all it has still to mail.                    *)
THEOREM TypeCorrect == Safety => []TypeOK
BY TypesInvariant, TypesAreOK, PTL

-----------------------------------------------------------------------------
(* Locks: the rows of a tick are active, no other tick has them, and what it
   has not come to yet is as committed.                                     *)
LockInv ==
  \A w \in Ticks : \A e \in DOMAIN tick[w].rows :
    /\ enrollments[e].state = "active"
    /\ tick[w].rows[e].campaign = enrollments[e].campaign
    /\ tick[w].rows[e].contact = enrollments[e].contact
    /\ tick[w].rows[e].version = enrollments[e].version
    /\ e \in tick[w].todo => tick[w].rows[e] = enrollments[e]
    /\ \A v \in Ticks \ {w} : e \notin DOMAIN tick[v].rows

SameSubject(x, y) == x.campaign = y.campaign /\ x.contact = y.contact /\ x.version = y.version

LEMMA AdvancedKeepsSubject ==
  ASSUME TypeInv, NEW row \in Enrollment, NEW p \in Positions
  PROVE  SameSubject(Advanced(row, p), row)
<1>1. PICK l : l = Append(row.log, p)
  OBVIOUS
<1>2. PICK q : q = First(PositionsAfter(row.campaign, row.position))
  OBVIOUS
<1>3. \/ Advanced(row, p) = [row EXCEPT !.age = 0, !.state = "completed", !.log = l]
      \/ Advanced(row, p) = [row EXCEPT !.age = 0, !.position = q, !.log = l]
  BY <1>1, <1>2 DEF Advanced
<1> QED BY <1>3 DEF SameSubject, Enrollment

(* What a tick's step does to its locals, as far as locks are concerned *)
LEMMA TickStepRows ==
  ASSUME TypeInv, NEW w \in Ticks, ExitCurrent(w) \/ Defer(w) \/ BeginSend(w) \/ Deliver(w) \/ LoseAnswer(w) \/ RefuseSend(w)
  PROVE  /\ TickMoves(w) /\ DOMAIN tick'[w].rows = DOMAIN tick[w].rows
         /\ tick'[w].todo \subseteq tick[w].todo
         /\ \A e \in DOMAIN tick[w].rows : SameSubject(tick'[w].rows[e], tick[w].rows[e])
         /\ \A e \in tick'[w].todo : tick'[w].rows[e] = tick[w].rows[e]
<1>1. ASSUME NEW row, tick[w].todo # {}, TickMoves(w), TickDone(w, Current(w), row), SameSubject(row, Row(w))
      PROVE  /\ DOMAIN tick'[w].rows = DOMAIN tick[w].rows
             /\ tick'[w].todo \subseteq tick[w].todo
             /\ \A e \in DOMAIN tick[w].rows : SameSubject(tick'[w].rows[e], tick[w].rows[e])
             /\ \A e \in tick'[w].todo : tick'[w].rows[e] = tick[w].rows[e]
  <2>1. tick[w].todo \subseteq DOMAIN tick[w].rows
    BY DEF TypeInv, TickOK
  <2> QED BY <1>1, <2>1 DEF TickDone, SameSubject, Row
<1>2. CASE ExitCurrent(w)
  <2>1. tick[w].todo # {} /\ Row(w) \in Enrollment
    BY <1>2, CurrentRow DEF ExitCurrent
  <2>2. SameSubject([Row(w) EXCEPT !.state = "exited"], Row(w))
    BY <2>1, ExitedIs DEF SameSubject
  <2> QED BY <1>1, <1>2, <2>1, <2>2, ExitCurrentStep
<1>3. CASE Defer(w) \/ LoseAnswer(w) \/ RefuseSend(w)
  BY <1>1, <1>3, KeepRowStep DEF SameSubject
<1>4. CASE BeginSend(w)
  BY <1>4, BeginSendStep DEF SameSubject
<1>5. CASE Deliver(w)
  <2>1. SameSubject(Advanced(Row(w), Step(w).position), Row(w))
    BY <1>5, DeliverStep, AdvancedKeepsSubject
  <2> QED BY <1>1, <1>5, <2>1, DeliverStep
<1> QED BY <1>2, <1>3, <1>4, <1>5

LEMMA LocksAtStart == Init => LockInv
BY IdleTyped DEF Init, LockInv

(* Locks are kept by a step that leaves the ticks and the rows they hold alone. *)
LEMMA LocksStay ==
  ASSUME TypeInv, LockInv, UNCHANGED tick,
         \A w \in Ticks : \A e \in DOMAIN tick[w].rows : enrollments'[e] = enrollments[e]
  PROVE  LockInv'
BY DEF LockInv

LEMMA TickKeepsLocks ==
  ASSUME TypeInv, LockInv, NEW w \in Ticks, Tick(w)
  PROVE  LockInv'
<1>1. CASE ExitCurrent(w) \/ Defer(w) \/ BeginSend(w) \/ Deliver(w) \/ LoseAnswer(w) \/ RefuseSend(w)
  <2>1. /\ TickMoves(w) /\ DOMAIN tick'[w].rows = DOMAIN tick[w].rows
        /\ tick'[w].todo \subseteq tick[w].todo
        /\ \A e \in DOMAIN tick[w].rows : SameSubject(tick'[w].rows[e], tick[w].rows[e])
        /\ \A e \in tick'[w].todo : tick'[w].rows[e] = tick[w].rows[e]
    BY <1>1, TickStepRows
  <2>2. enrollments' = enrollments /\ \A v \in Ticks \ {w} : tick'[v] = tick[v]
    BY <2>1 DEF TickMoves, dbVars
  <2>3. ASSUME NEW v \in Ticks, NEW e \in DOMAIN tick'[v].rows
        PROVE  /\ e \in DOMAIN tick[v].rows /\ SameSubject(tick'[v].rows[e], tick[v].rows[e])
               /\ e \in tick'[v].todo => e \in tick[v].todo /\ tick'[v].rows[e] = tick[v].rows[e]
    BY <2>1, <2>2 DEF SameSubject
  <2>4. \A v \in Ticks : DOMAIN tick'[v].rows = DOMAIN tick[v].rows
    BY <2>1, <2>2
  <2> QED BY <2>2, <2>3, <2>4 DEF LockInv, SameSubject
<1>2. CASE StartTick(w)
  <2>1. /\ \A e \in DOMAIN tick'[w].rows : e \in Due(w) /\ tick'[w].rows[e] = enrollments[e]
        /\ enrollments' = enrollments /\ \A v \in Ticks \ {w} : tick'[v] = tick[v]
    BY <1>2, StartTickStep DEF TickMoves, dbVars
  <2>2. ASSUME NEW e \in DOMAIN tick'[w].rows
        PROVE  enrollments[e].state = "active" /\ \A v \in Ticks \ {w} : e \notin DOMAIN tick[v].rows
    BY <2>1 DEF Due, IsDue, LockedEnrollments
  <2> SUFFICES ASSUME NEW v \in Ticks, NEW e \in DOMAIN tick'[v].rows
               PROVE  /\ enrollments[e].state = "active"
                      /\ SameSubject(tick'[v].rows[e], enrollments[e])
                      /\ e \in tick'[v].todo => tick'[v].rows[e] = enrollments[e]
                      /\ \A u \in Ticks \ {v} : e \notin DOMAIN tick'[u].rows
    BY <2>1 DEF LockInv, SameSubject
  <2>3. CASE v = w
    BY <2>1, <2>2, <2>3 DEF SameSubject
  <2>4. CASE v # w
    <3>1. e \in DOMAIN tick[v].rows /\ tick'[v] = tick[v]
      BY <2>1, <2>4
    <3>2. e \notin DOMAIN tick'[w].rows
      BY <2>2, <2>4, <3>1
    <3> QED BY <2>1, <3>1, <3>2 DEF LockInv, SameSubject
  <2> QED BY <2>3, <2>4
<1>3. CASE CommitTick(w) \/ AbortTick(w)
  <2>1. /\ tick'[w] = IdleTick /\ \A v \in Ticks \ {w} : tick'[v] = tick[v]
        /\ \A e \in Enrolled \ DOMAIN tick[w].rows : enrollments'[e] = enrollments[e]
    BY <1>3, CommitTickStep, AbortTickStep DEF TickMoves, dbVars
  <2>2. ASSUME NEW v \in Ticks, NEW e \in DOMAIN tick'[v].rows
        PROVE  v # w /\ tick'[v] = tick[v] /\ e \in DOMAIN tick[v].rows /\ enrollments'[e] = enrollments[e]
    <3>1. v # w /\ tick'[v] = tick[v] /\ e \in DOMAIN tick[v].rows
      BY <2>1, IdleTyped
    <3>2. e \in Enrolled \ DOMAIN tick[w].rows
      BY <3>1 DEF LockInv, TypeInv, TickOK
    <3> QED BY <2>1, <3>1, <3>2
  <2>3. \A v \in Ticks : DOMAIN tick'[v].rows \subseteq DOMAIN tick[v].rows
    BY <2>2
  <2> QED BY <2>2, <2>3 DEF LockInv
<1> QED BY <1>1, <1>2, <1>3 DEF Tick

LEMMA LocksKept == TypeInv /\ LockInv /\ [Next]_vars => LockInv'
<1> SUFFICES ASSUME TypeInv, LockInv, [Next]_vars PROVE LockInv'
  OBVIOUS
<1>1. CASE UNCHANGED <<tick, enrollments>>
  BY <1>1, LocksStay
<1>2. ASSUME NEW d \in Drains, Drain(d) PROVE LockInv'
  <2>1. CASE StartDrain(d) \/ HandleRow(d) \/ AbortDrain(d)
    BY <1>1, <2>1 DEF StartDrain, HandleRow, AbortDrain, dbVars
  <2>2. CASE CommitDrain(d)
    <3>1. \A w \in Ticks : \A e \in DOMAIN tick[w].rows : enrollments'[e] = enrollments[e]
      BY <2>2, CommitDrainStep DEF TypeInv, TickOK
    <3> QED BY <2>2, <3>1, CommitDrainStep, LocksStay
  <2> QED BY <1>2, <2>1, <2>2 DEF Drain
<1>3. ASSUME NEW r \in Requests, Request(r) PROVE LockInv'
  <2>1. CASE CommitEnroll(r)
    <3>1. UNCHANGED tick /\ \A e \in Enrolled : enrollments'[e] = enrollments[e]
      BY <2>1, CommitEnrollStep DEF Enrolled
    <3> QED BY <3>1, LocksStay DEF TypeInv, TickOK
  <2>2. CASE ~CommitEnroll(r)
    BY <1>1, <1>3, <2>2, LoadStep, EditStep DEF Request, Edits, FailRequest, dbVars
  <2> QED BY <2>1, <2>2
<1>4. CASE HalfDay
  <2>1. UNCHANGED tick /\ \A w \in Ticks : DOMAIN tick[w].rows = {}
    BY <1>4, HalfDayStep
  <2> QED BY <2>1, LocksStay
<1>5. ASSUME NEW c \in Contacts,
             AddSuppression(c) \/ RemoveSuppression(c) \/ \E event \in Events \cup {DoNotEngage} : ContactEvent(c, event)
      PROVE  LockInv'
  BY <1>1, <1>5 DEF AddSuppression, RemoveSuppression, ContactEvent
<1>6. CASE UNCHANGED vars
  BY <1>1, <1>6 DEF vars, dbVars
<1> QED BY <1>2, <1>3, <1>4, <1>5, <1>6, TickKeepsLocks DEF Next

LEMMA LocksInvariant == Safety => [](TypeInv /\ LockInv)
BY TypesAtStart, TypesKept, LocksAtStart, LocksKept, PTL DEF Safety

-----------------------------------------------------------------------------
(* Committed rows: none goes, none changes its subject, none opens again. *)
RowsOnlyClose ==
  \A e \in Enrolled :
    /\ e \in Enrolled' /\ SameSubject(enrollments'[e], enrollments[e])
    /\ enrollments'[e].state \in Open => enrollments[e].state \in Open

LEMMA RowsOnlyCloseStep == TypeInv /\ LockInv /\ [Next]_vars => RowsOnlyClose
<1> SUFFICES ASSUME TypeInv, LockInv, [Next]_vars PROVE RowsOnlyClose
  OBVIOUS
<1>1. CASE UNCHANGED enrollments
  BY <1>1 DEF RowsOnlyClose, SameSubject, Enrolled
<1>2. ASSUME NEW w \in Ticks, Tick(w) PROVE RowsOnlyClose
  <2>1. CASE CommitTick(w)
    BY <2>1, CommitTickStep DEF LockInv, RowsOnlyClose, SameSubject, Open
  <2>2. CASE ~CommitTick(w)
    BY <1>1, <1>2, <2>2 DEF Tick, StartTick, ExitCurrent, Defer, BeginSend, Deliver, LoseAnswer, RefuseSend,
                            AbortTick, dbVars
  <2> QED BY <2>1, <2>2
<1>3. ASSUME NEW d \in Drains, Drain(d) PROVE RowsOnlyClose
  <2>1. CASE CommitDrain(d)
    <3> SUFFICES ASSUME NEW e \in Enrolled
                 PROVE  /\ e \in Enrolled' /\ SameSubject(enrollments'[e], enrollments[e])
                        /\ enrollments'[e].state \in Open => enrollments[e].state \in Open
      BY DEF RowsOnlyClose
    <3>1. /\ e \in Enrolled' /\ enrollments[e] \in Enrollment
          /\ enrollments'[e] = IF e \in drain[d].exits THEN [enrollments[e] EXCEPT !.state = "exited"]
                               ELSE enrollments[e]
      BY <2>1, CommitDrainStep, RowsAreTyped
    <3> QED BY <3>1, ExitedIs DEF SameSubject, Open
  <2>2. CASE StartDrain(d) \/ HandleRow(d) \/ AbortDrain(d)
    BY <1>1, <2>2 DEF StartDrain, HandleRow, AbortDrain, dbVars
  <2> QED BY <1>3, <2>1, <2>2 DEF Drain
<1>4. ASSUME NEW r \in Requests, Request(r) PROVE RowsOnlyClose
  <2>1. CASE CommitEnroll(r)
    <3>1. \A e \in Enrolled : e \in Enrolled' /\ enrollments'[e] = enrollments[e]
      BY <2>1, CommitEnrollStep DEF Enrolled
    <3> QED BY <3>1 DEF RowsOnlyClose, SameSubject
  <2>2. CASE ~CommitEnroll(r)
    BY <1>1, <1>4, <2>2, LoadStep, EditStep DEF Request, Edits, FailRequest, dbVars
  <2> QED BY <2>1, <2>2
<1>5. CASE HalfDay
  BY <1>5, HalfDayStep DEF RowsOnlyClose, SameSubject
<1>6. ASSUME NEW c \in Contacts,
             AddSuppression(c) \/ RemoveSuppression(c) \/ \E event \in Events \cup {DoNotEngage} : ContactEvent(c, event)
      PROVE  RowsOnlyClose
  BY <1>1, <1>6 DEF AddSuppression, RemoveSuppression, ContactEvent
<1>7. CASE UNCHANGED vars
  BY <1>1, <1>7 DEF vars, dbVars
<1> QED BY <1>2, <1>3, <1>4, <1>5, <1>6, <1>7 DEF Next

(* An enrolment that ended stays ended: the tick that mailed it meanwhile holds
   a lock that the exit waits for.                                          *)
THEOREM EndedForGood == Safety => EndedStaysEnded
<1>1. TypeInv /\ LockInv /\ [Next]_vars
        => [\A e \in Enrolled : enrollments[e].state \notin Open => enrollments'[e].state \notin Open]_vars
  BY RowsOnlyCloseStep DEF RowsOnlyClose
<1> QED BY <1>1, LocksInvariant, PTL DEF Safety, EndedStaysEnded

-----------------------------------------------------------------------------
(* Open enrolments of one pair.  What a drain has inserted and not committed
   counts: the index makes others wait for it.                              *)
SamePair(x, y) == x.campaign = y.campaign /\ x.contact = y.contact /\ x.state \in Open /\ y.state \in Open

(* The committed open rows of a pair that a drain has enrolled are ones it will exit. *)
ReplacesOnlyExits ==
  \A d \in Drains : \A n \in DOMAIN drain[d].new : \A e \in Enrolled :
    SamePair(enrollments[e], drain[d].new[n]) => e \in drain[d].exits

OneUncommitted ==
  \A d, o \in Drains : \A n \in DOMAIN drain[d].new, m \in DOMAIN drain[o].new :
    SamePair(drain[d].new[n], drain[o].new[m]) => d = o /\ n = m

OneCommitted == \A e, f \in Enrolled : SamePair(enrollments[e], enrollments[f]) => e = f

OpenInv == OneCommitted /\ ReplacesOnlyExits /\ OneUncommitted

LEMMA NoNewWhenIdle == DOMAIN IdleDrain.new = {}
BY EmptyFunctions DEF IdleDrain

LEMMA OpenAtStart == Init => OpenInv
<1>1. Init => Enrolled = {}
  BY EmptyFunctions DEF Init, Enrolled
<1>2. Init => \A d \in Drains : DOMAIN drain[d].new = {}
  BY NoNewWhenIdle DEF Init
<1> QED BY <1>1, <1>2 DEF OpenInv, OneCommitted, ReplacesOnlyExits, OneUncommitted

(* Steps that neither add rows nor touch a drain *)
LEMMA OpenStays ==
  ASSUME TypeInv, LockInv, OpenInv, [Next]_vars, UNCHANGED drain, Enrolled' = Enrolled
  PROVE  OpenInv'
<1>1. \A e \in Enrolled : /\ SameSubject(enrollments'[e], enrollments[e])
                          /\ enrollments'[e].state \in Open => enrollments[e].state \in Open
  BY RowsOnlyCloseStep DEF RowsOnlyClose
<1>2. OneCommitted'
  BY <1>1 DEF OpenInv, OneCommitted, SamePair, SameSubject
<1>3. ReplacesOnlyExits'
  <2>1. ASSUME NEW d \in Drains, NEW n \in DOMAIN drain[d].new, NEW e \in Enrolled,
               SamePair(enrollments'[e], drain[d].new[n])
        PROVE  e \in drain[d].exits
    <3>1. SamePair(enrollments[e], drain[d].new[n])
      BY <1>1, <2>1 DEF SamePair, SameSubject
    <3> QED BY <3>1 DEF OpenInv, ReplacesOnlyExits
  <2> QED BY <2>1 DEF ReplacesOnlyExits, SamePair
<1>4. OneUncommitted'
  BY DEF OpenInv, OneUncommitted
<1> QED BY <1>2, <1>3, <1>4 DEF OpenInv

(* A drain that has only given up rows, or closed them *)
LEMMA OpenNarrows ==
  ASSUME OpenInv, NEW d \in Drains, DrainMoves(d), DOMAIN drain'[d].new \subseteq DOMAIN drain[d].new,
         DOMAIN drain'[d].new # {} => drain[d].exits \subseteq drain'[d].exits,
         \A n \in DOMAIN drain'[d].new :
           /\ drain'[d].new[n].campaign = drain[d].new[n].campaign
           /\ drain'[d].new[n].contact = drain[d].new[n].contact
           /\ drain'[d].new[n].state \in Open => drain[d].new[n].state \in Open
  PROVE  OpenInv'
<1>1. enrollments' = enrollments /\ Enrolled' = Enrolled /\ \A o \in Drains \ {d} : drain'[o] = drain[o]
  BY DEF DrainMoves, dbVars, Enrolled
<1>2. \A o \in Drains : \A n \in DOMAIN drain'[o].new :
        /\ n \in DOMAIN drain[o].new
        /\ drain'[o].new[n].campaign = drain[o].new[n].campaign
        /\ drain'[o].new[n].contact = drain[o].new[n].contact
        /\ drain'[o].new[n].state \in Open => drain[o].new[n].state \in Open
        /\ drain[o].exits \subseteq drain'[o].exits
  BY <1>1
<1>3. OneCommitted'
  BY <1>1 DEF OpenInv, OneCommitted
<1>4. ReplacesOnlyExits'
  BY <1>1, <1>2 DEF OpenInv, ReplacesOnlyExits, SamePair
<1>5. OneUncommitted'
  BY <1>2 DEF OpenInv, OneUncommitted, SamePair
<1> QED BY <1>3, <1>4, <1>5 DEF OpenInv

LEMMA EnrollKeepsOpen ==
  ASSUME TypeInv, OpenInv, NEW d \in Drains, NEW c \in Contacts, NEW event, EnrollContact(d, c, event),
         drain[d].pc = "working", UNCHANGED <<dbVars, evening, tick, request, late>>
  PROVE  OpenInv'
<1>1. /\ DrainMoves(d) /\ drain'[d].exits = drain[d].exits
      /\ \A n \in DOMAIN drain[d].new : drain'[d].new[n] = drain[d].new[n]
      /\ \A n \in DOMAIN drain'[d].new \ DOMAIN drain[d].new :
              \E k \in Campaigns :
                /\ drain'[d].new[n] = NewEnrollment(k, c)
                /\ IndexAccepts(k, c, drain[d].exits) /\ ~Blocked(d, k, c)
                /\ \A m \in DOMAIN drain[d].new : ~IsOpenFor(drain[d].new[m], k, c)
      /\ \A n, m \in DOMAIN drain'[d].new \ DOMAIN drain[d].new :
              drain'[d].new[n].campaign = drain'[d].new[m].campaign => n = m
  BY EnrollContactStep
<1>2. enrollments' = enrollments /\ Enrolled' = Enrolled /\ \A o \in Drains \ {d} : drain'[o] = drain[o]
  BY <1>1 DEF DrainMoves, dbVars, Enrolled
<1>3. OneCommitted'
  BY <1>2 DEF OpenInv, OneCommitted
(* A new row and the rows it might clash with *)
<1>4. ASSUME NEW n \in DOMAIN drain'[d].new \ DOMAIN drain[d].new
      PROVE  /\ \A e \in Enrolled : SamePair(enrollments[e], drain'[d].new[n]) => e \in drain[d].exits
             /\ \A o \in Drains : \A m \in DOMAIN drain[o].new : ~SamePair(drain'[d].new[n], drain[o].new[m])
             /\ \A m \in DOMAIN drain'[d].new \ DOMAIN drain[d].new :
                  SamePair(drain'[d].new[n], drain'[d].new[m]) => n = m
  <2>1. PICK k \in Campaigns :
          /\ drain'[d].new[n] = NewEnrollment(k, c)
          /\ IndexAccepts(k, c, drain[d].exits) /\ ~Blocked(d, k, c)
          /\ \A m \in DOMAIN drain[d].new : ~IsOpenFor(drain[d].new[m], k, c)
    BY <1>1
  <2>2. drain'[d].new[n].campaign = k /\ drain'[d].new[n].contact = c
    BY <2>1 DEF NewEnrollment
  <2>3. \A e \in Enrolled : SamePair(enrollments[e], drain'[d].new[n]) => e \in drain[d].exits
    BY <2>1, <2>2 DEF IndexAccepts, IsOpenFor, SamePair
  <2>4. \A o \in Drains : \A m \in DOMAIN drain[o].new : ~SamePair(drain'[d].new[n], drain[o].new[m])
    BY <2>1, <2>2 DEF Blocked, IsOpenFor, SamePair
  <2>5. \A m \in DOMAIN drain'[d].new \ DOMAIN drain[d].new :
          SamePair(drain'[d].new[n], drain'[d].new[m]) => n = m
    BY <1>1 DEF SamePair
  <2> QED BY <2>3, <2>4, <2>5
<1>5. ReplacesOnlyExits'
  <2> SUFFICES ASSUME NEW o \in Drains, NEW n \in DOMAIN drain'[o].new, NEW e \in Enrolled,
                      SamePair(enrollments[e], drain'[o].new[n])
               PROVE  e \in drain'[o].exits
    BY <1>2 DEF ReplacesOnlyExits, SamePair
  <2>1. CASE o = d /\ n \notin DOMAIN drain[d].new
    BY <1>1, <1>4, <2>1
  <2>2. CASE ~(o = d /\ n \notin DOMAIN drain[d].new)
    BY <1>1, <1>2, <2>2 DEF OpenInv, ReplacesOnlyExits
  <2> QED BY <2>1, <2>2
<1>6. OneUncommitted'
  <2> SUFFICES ASSUME NEW o \in Drains, NEW n \in DOMAIN drain'[o].new,
                      NEW p \in Drains, NEW m \in DOMAIN drain'[p].new,
                      SamePair(drain'[o].new[n], drain'[p].new[m])
               PROVE  o = p /\ n = m
    BY DEF OneUncommitted, SamePair
  <2>1. CASE o = d /\ n \notin DOMAIN drain[d].new
    <3>1. p = d /\ m \notin DOMAIN drain[d].new
      BY <1>1, <1>2, <1>4, <2>1
    <3> QED BY <1>4, <2>1, <3>1
  <2>2. CASE p = d /\ m \notin DOMAIN drain[d].new
    <3>1. SamePair(drain'[p].new[m], drain'[o].new[n])
      BY DEF SamePair
    <3>2. o = d /\ n \notin DOMAIN drain[d].new
      BY <1>1, <1>2, <1>4, <2>2, <3>1
    <3> QED BY <1>4, <2>2, <3>1, <3>2
  <2>3. CASE /\ n \in DOMAIN drain[o].new /\ drain'[o].new[n] = drain[o].new[n]
             /\ m \in DOMAIN drain[p].new /\ drain'[p].new[m] = drain[p].new[m]
    BY <2>3 DEF OpenInv, OneUncommitted
  <2> QED BY <1>1, <1>2, <2>1, <2>2, <2>3
<1> QED BY <1>3, <1>5, <1>6 DEF OpenInv

LEMMA CommitKeepsOpen ==
  ASSUME TypeInv, OpenInv, NEW d \in Drains, CommitDrain(d)
  PROVE  OpenInv'
<1>1. /\ drain'[d] = IdleDrain /\ \A o \in Drains \ {d} : drain'[o] = drain[o]
      /\ \A e \in Enrolled :
              enrollments'[e] = IF e \in drain[d].exits THEN [enrollments[e] EXCEPT !.state = "exited"]
                                ELSE enrollments[e]
      /\ \A e \in Enrolled' \ Enrolled :
              /\ e \in Nat /\ e - Len(enrollments) \in DOMAIN drain[d].new
              /\ enrollments'[e] = drain[d].new[e - Len(enrollments)]
  BY CommitDrainStep
<1>2. \A e \in Enrolled : enrollments'[e].state \in Open => e \notin drain[d].exits /\ enrollments'[e] = enrollments[e]
  <2> SUFFICES ASSUME NEW e \in Enrolled, e \in drain[d].exits PROVE enrollments'[e].state \notin Open
    BY <1>1
  <2>1. enrollments'[e] = [enrollments[e] EXCEPT !.state = "exited"] /\ enrollments[e] \in Enrollment
    BY <1>1, RowsAreTyped
  <2> QED BY <2>1, ExitedIs DEF Open
<1>3. \A o \in Drains : DOMAIN drain'[o].new # {} => o # d /\ drain'[o] = drain[o]
  BY <1>1, NoNewWhenIdle
<1>4. ASSUME NEW e \in Enrolled', NEW f \in Enrolled', SamePair(enrollments'[e], enrollments'[f]) PROVE e = f
  <2>1. CASE e \in Enrolled /\ f \in Enrolled
    BY <1>2, <1>4, <2>1 DEF OpenInv, OneCommitted, SamePair
  <2>2. CASE e \in Enrolled /\ f \notin Enrolled
    BY <1>1, <1>2, <1>4, <2>2 DEF OpenInv, ReplacesOnlyExits, SamePair
  <2>3. CASE e \notin Enrolled /\ f \in Enrolled
    <3>1. SamePair(enrollments'[f], enrollments'[e])
      BY <1>4 DEF SamePair
    <3> QED BY <1>1, <1>2, <2>3, <3>1 DEF OpenInv, ReplacesOnlyExits, SamePair
  <2>4. CASE e \notin Enrolled /\ f \notin Enrolled
    <3>1. e - Len(enrollments) = f - Len(enrollments)
      BY <1>1, <1>4, <2>4 DEF OpenInv, OneUncommitted
    <3>2. e \in Nat /\ f \in Nat
      BY <1>1, <2>4
    <3> QED BY <3>1, <3>2, RowsAreTyped
  <2> QED BY <2>1, <2>2, <2>3, <2>4
<1>5. OneCommitted'
  BY <1>4 DEF OneCommitted, SamePair
<1>6. ReplacesOnlyExits'
  <2> SUFFICES ASSUME NEW o \in Drains, NEW n \in DOMAIN drain'[o].new, NEW e \in Enrolled',
                      SamePair(enrollments'[e], drain'[o].new[n])
               PROVE  e \in drain'[o].exits
    BY DEF ReplacesOnlyExits, SamePair
  <2>1. o # d /\ drain'[o] = drain[o]
    BY <1>3
  <2>2. CASE e \in Enrolled
    BY <1>2, <2>1, <2>2 DEF OpenInv, ReplacesOnlyExits, SamePair
  <2>3. CASE e \notin Enrolled
    BY <1>1, <2>1, <2>3 DEF OpenInv, OneUncommitted
  <2> QED BY <2>2, <2>3
<1>7. OneUncommitted'
  BY <1>3 DEF OpenInv, OneUncommitted, SamePair
<1> QED BY <1>5, <1>6, <1>7 DEF OpenInv

LEMMA StaffKeepOpen ==
  ASSUME TypeInv, LockInv, OpenInv, NEW r \in Requests, CommitEnroll(r), [Next]_vars
  PROVE  OpenInv'
<1>1. PICK k \in Campaigns, c \in Contacts : k = request[r].campaign /\ c = request[r].contact
  BY CommitEnrollStep
<1>2. /\ \A d \in Drains : \A n \in DOMAIN drain[d].new : ~IsOpenFor(drain[d].new[n], k, c)
      /\ drain' = drain
  BY <1>1, CommitEnrollStep
<1>3. CASE UNCHANGED <<enrollments, late>>
  <2>1. Enrolled' = Enrolled
    BY <1>3 DEF Enrolled
  <2> QED BY <1>2, <2>1, OpenStays
<1>4. CASE ~UNCHANGED <<enrollments, late>>
  <2>1. PICK last : last = Len(enrollments) + 1
    OBVIOUS
  <2>2. /\ IndexAccepts(k, c, {}) /\ Enrolled' = Enrolled \cup {last}
        /\ \A e \in Enrolled : enrollments'[e] = enrollments[e]
        /\ enrollments'[last].campaign = k /\ enrollments'[last].contact = c
    BY <1>1, <1>4, <2>1, CommitEnrollStep
  <2>3. last \notin Enrolled
    BY <2>1, RowsAreTyped
  <2>4. \A e \in Enrolled : ~SamePair(enrollments[e], enrollments'[last]) /\ ~SamePair(enrollments'[last], enrollments[e])
    BY <2>2 DEF IndexAccepts, IsOpenFor, SamePair
  <2>5. \A d \in Drains : \A n \in DOMAIN drain[d].new : ~SamePair(enrollments'[last], drain[d].new[n])
    BY <1>2, <2>2 DEF IsOpenFor, SamePair
  <2>6. OneCommitted'
    <3> SUFFICES ASSUME NEW e \in Enrolled', NEW f \in Enrolled', SamePair(enrollments'[e], enrollments'[f])
                 PROVE  e = f
      BY DEF OneCommitted, SamePair
    <3> QED BY <2>2, <2>4 DEF OpenInv, OneCommitted
  <2>7. ReplacesOnlyExits'
    <3> SUFFICES ASSUME NEW d \in Drains, NEW n \in DOMAIN drain[d].new, NEW e \in Enrolled',
                        SamePair(enrollments'[e], drain[d].new[n])
                 PROVE  e \in drain[d].exits
      BY <1>2 DEF ReplacesOnlyExits, SamePair
    <3> QED BY <2>2, <2>5 DEF OpenInv, ReplacesOnlyExits
  <2>8. OneUncommitted'
    BY <1>2 DEF OpenInv, OneUncommitted
  <2> QED BY <2>6, <2>7, <2>8 DEF OpenInv
<1> QED BY <1>3, <1>4

LEMMA OpenKept == TypeInv /\ LockInv /\ OpenInv /\ [Next]_vars => OpenInv'
<1> SUFFICES ASSUME TypeInv, LockInv, OpenInv, [Next]_vars PROVE OpenInv'
  OBVIOUS
<1>1. CASE UNCHANGED <<drain, enrollments>>
  BY <1>1, OpenStays DEF Enrolled
<1>2. ASSUME NEW w \in Ticks, Tick(w) PROVE OpenInv'
  <2>1. CASE CommitTick(w)
    BY <2>1, CommitTickStep, OpenStays
  <2>2. CASE ~CommitTick(w)
    BY <1>1, <1>2, <2>2 DEF Tick, StartTick, ExitCurrent, Defer, BeginSend, Deliver, LoseAnswer, RefuseSend,
                            AbortTick, dbVars
  <2> QED BY <2>1, <2>2
<1>3. ASSUME NEW d \in Drains, StartDrain(d) \/ AbortDrain(d) PROVE OpenInv'
  <2>1. DrainMoves(d) /\ DOMAIN drain'[d].new = {}
    BY <1>3, StartDrainStep, AbortDrainStep, NoNewWhenIdle, EmptyFunctions
  <2> QED BY <2>1, OpenNarrows
<1>4. ASSUME NEW d \in Drains, HandleRow(d) PROVE OpenInv'
  <2>0. PICK event : event = Handled(d).event
    OBVIOUS
  <2>1. PICK c \in Contacts : c = Handled(d).contact /\ event = Handled(d).event
    BY <1>4, <2>0, HandledRow
  <2>2. ExitContact(d, c) \/ EnrollContact(d, c, event)
    BY <1>4, <2>1, HandledRow
  <2>3. drain[d].pc = "working" /\ UNCHANGED <<dbVars, evening, tick, request, late>>
    BY <1>4, HandledRow
  <2>4. CASE ExitContact(d, c)
    <3>1. /\ DrainMoves(d) /\ drain[d].exits \subseteq drain'[d].exits
          /\ DOMAIN drain'[d].new = DOMAIN drain[d].new
          /\ \A n \in DOMAIN drain[d].new :
               \/ drain'[d].new[n] = drain[d].new[n]
               \/ drain'[d].new[n] = [drain[d].new[n] EXCEPT !.state = "exited"]
      BY <2>3, <2>4, ExitContactStep
    <3>2. ASSUME NEW n \in DOMAIN drain[d].new
          PROVE  /\ drain'[d].new[n].campaign = drain[d].new[n].campaign
                 /\ drain'[d].new[n].contact = drain[d].new[n].contact
                 /\ drain'[d].new[n].state \in Open => drain[d].new[n].state \in Open
      BY <3>1, DrainFields, ExitedIs, ZenonT(40) DEF Open
    <3> QED BY <3>1, <3>2, OpenNarrows
  <2>5. CASE EnrollContact(d, c, event)
    BY <2>3, <2>5, EnrollKeepsOpen
  <2> QED BY <2>2, <2>4, <2>5
<1>5. ASSUME NEW r \in Requests, Request(r) PROVE OpenInv'
  <2>1. CASE CommitEnroll(r)
    BY <2>1, StaffKeepOpen
  <2>2. CASE ~CommitEnroll(r)
    BY <1>1, <1>5, <2>2, LoadStep, EditStep DEF Request, Edits, FailRequest, dbVars
  <2> QED BY <2>1, <2>2
<1>6. CASE HalfDay
  BY <1>6, HalfDayStep, OpenStays
<1>7. ASSUME NEW c \in Contacts,
             AddSuppression(c) \/ RemoveSuppression(c) \/ \E event \in Events \cup {DoNotEngage} : ContactEvent(c, event)
      PROVE  OpenInv'
  BY <1>1, <1>7 DEF AddSuppression, RemoveSuppression, ContactEvent
<1>8. CASE UNCHANGED vars
  BY <1>1, <1>8 DEF vars, dbVars
<1> QED BY <1>2, <1>3, <1>4, <1>5, <1>6, <1>7, <1>8, CommitKeepsOpen DEF Next, Drain

(* At most one open enrolment of a campaign and contact, though events are
   drained and staff enrol concurrently: what one transaction has inserted and
   not committed keeps the others waiting.                                  *)
THEOREM OneEnrollmentOpen == Safety => []OneOpenEnrollment
<1>1. OpenInv => OneOpenEnrollment
  BY DEF OpenInv, OneCommitted, OneOpenEnrollment, IsOpenFor, SamePair
<1>2. Safety => []OpenInv
  BY LocksInvariant, OpenAtStart, OpenKept, PTL DEF Safety
<1> QED BY <1>1, <1>2, PTL

-----------------------------------------------------------------------------
(* Late mails.  Once an enrolment got one, its contact is stopped; no tick has
   it at hand except for a suppressed contact, and then it is not being sent. *)
NotMailedAgain(e) ==
  /\ Stopped(enrollments[e].contact)
  /\ \A w \in Ticks : e \in tick[w].todo =>
       /\ enrollments[e].contact \in suppressed
       /\ tick[w].pc = "sending" => Current(w) # e

LateInv == \A e \in Enrolled : late[e] <= 1 /\ (late[e] # 0 => NotMailedAgain(e))

LEMMA LateAtStart == Init => LateInv
BY EmptyFunctions DEF Init, Enrolled, LateInv

(* Steps that send no mail and claim no row, and after which no contact is less
   stopped than before                                                      *)
LEMMA LateStays ==
  ASSUME TypeInv, LockInv, LateInv, [Next]_vars,
         \A e \in Enrolled : late'[e] = late[e], \A e \in Enrolled' \ Enrolled : late'[e] = 0,
         suppressed \subseteq suppressed',
         \A c \in Contacts : status[c] = "do_not_engage" => status'[c] = "do_not_engage",
         \A w \in Ticks : tick'[w].todo \subseteq tick[w].todo /\ (tick'[w].pc = "sending" => tick'[w] = tick[w])
  PROVE  LateInv'
<1>1. \A e \in Enrolled : enrollments'[e].contact = enrollments[e].contact /\ enrollments[e].contact \in Contacts
  BY RowsOnlyCloseStep, RowsAreTyped DEF RowsOnlyClose, SameSubject, Enrollment
<1>2. ASSUME NEW e \in Enrolled, NotMailedAgain(e) PROVE NotMailedAgain(e)'
  <2>1. Stopped(enrollments[e].contact)'
    BY <1>1, <1>2 DEF NotMailedAgain, Stopped
  <2>2. ASSUME NEW w \in Ticks, e \in tick'[w].todo
        PROVE  enrollments'[e].contact \in suppressed' /\ (tick'[w].pc = "sending" => First(tick'[w].todo) # e)
    BY <1>1, <1>2, <2>2 DEF NotMailedAgain, Current
  <2> QED BY <2>1, <2>2 DEF NotMailedAgain, Current
<1> QED BY <1>2 DEF LateInv

LEMMA TickKeepsLate ==
  ASSUME TypeInv, LockInv, LateInv, NEW w \in Ticks, Tick(w)
  PROVE  LateInv'
<1>1. [Next]_vars
  BY DEF Next
<1>2. DOMAIN tick[w].rows \subseteq Enrolled /\ tick[w].todo \subseteq DOMAIN tick[w].rows
  BY DEF TypeInv, TickOK
<1>3. \A c \in Contacts : status[c] = "do_not_engage" => status[c] = "do_not_engage"
  OBVIOUS
<1>4. ASSUME TickMoves(w)
      PROVE  UNCHANGED <<status, suppressed, enrollments>> /\ Enrolled' = Enrolled /\ \A v \in Ticks \ {w} : tick'[v] = tick[v]
  BY <1>4 DEF TickMoves, dbVars, Enrolled
<1>5. CASE ExitCurrent(w) \/ Defer(w) \/ RefuseSend(w) \/ AbortTick(w)
  <2>1. TickMoves(w) /\ tick'[w].pc # "sending" /\ tick'[w].todo \subseteq tick[w].todo
    <3>1. CASE AbortTick(w)
      BY <3>1, AbortTickStep DEF IdleTick
    <3>2. CASE ExitCurrent(w)
      BY <3>2, ExitCurrentStep DEF TickDone
    <3>3. CASE Defer(w) \/ RefuseSend(w)
      BY <3>3, KeepRowStep DEF TickDone
    <3> QED BY <1>5, <3>1, <3>2, <3>3
  <2>2. late' = late
    BY <1>5 DEF ExitCurrent, Defer, RefuseSend, AbortTick
  <2> QED BY <1>1, <1>4, <2>1, <2>2, LateStays
<1>6. CASE CommitTick(w)
  <2>1. /\ UNCHANGED <<status, suppressed, late>> /\ Enrolled' = Enrolled
        /\ tick'[w] = IdleTick /\ \A v \in Ticks \ {w} : tick'[v] = tick[v]
    BY <1>6, CommitTickStep
  <2>2. tick'[w].pc # "sending" /\ tick'[w].todo \subseteq tick[w].todo
    BY <2>1 DEF IdleTick
  <2> QED BY <1>1, <2>1, <2>2, LateStays
<1>7. CASE StartTick(w)
  <2>1. /\ TickMoves(w) /\ late' = late /\ tick'[w].pc = "working"
        /\ \A e \in tick'[w].todo : e \in Due(w)
    BY <1>7, StartTickStep
  <2>2. ASSUME NEW e \in Enrolled, NotMailedAgain(e) PROVE NotMailedAgain(e)'
    <3>1. Stopped(enrollments[e].contact)'
      BY <1>4, <2>1, <2>2 DEF NotMailedAgain, Stopped
    <3>2. e \in Due(w) => enrollments[e].contact \in suppressed
      BY <2>2 DEF NotMailedAgain, Stopped, Due, IsDue
    <3>3. ASSUME NEW v \in Ticks, e \in tick'[v].todo
          PROVE  enrollments[e].contact \in suppressed /\ (tick'[v].pc = "sending" => First(tick'[v].todo) # e)
      <4>1. CASE v = w
        BY <2>1, <3>2, <3>3, <4>1
      <4>2. CASE v # w
        BY <1>4, <2>1, <2>2, <3>3, <4>2 DEF NotMailedAgain, Current
      <4> QED BY <4>1, <4>2
    <3> QED BY <1>4, <2>1, <3>1, <3>3 DEF NotMailedAgain, Current
  <2> QED BY <1>4, <2>1, <2>2 DEF LateInv
<1>8. CASE BeginSend(w)
  <2>1. TickMoves(w) /\ late' = late /\ tick[w].todo # {} /\ Mailable(w) /\ tick'[w].todo = tick[w].todo
    BY <1>8, BeginSendStep
  <2>2. Current(w) \in tick[w].todo /\ enrollments[Current(w)].contact \notin suppressed
    BY <2>1, CurrentRow DEF Mailable, Row, LockInv
  <2>3. ASSUME NEW e \in Enrolled, NotMailedAgain(e) PROVE NotMailedAgain(e)'
    <3>1. Stopped(enrollments[e].contact)'
      BY <1>4, <2>1, <2>3 DEF NotMailedAgain, Stopped
    <3>2. Current(w) # e
      BY <2>2, <2>3 DEF NotMailedAgain
    <3>3. ASSUME NEW v \in Ticks, e \in tick'[v].todo
          PROVE  enrollments[e].contact \in suppressed /\ (tick'[v].pc = "sending" => First(tick'[v].todo) # e)
      <4>1. CASE v = w
        BY <2>1, <2>3, <3>2, <3>3, <4>1 DEF NotMailedAgain, Current
      <4>2. CASE v # w
        BY <1>4, <2>1, <2>3, <3>3, <4>2 DEF NotMailedAgain, Current
      <4> QED BY <4>1, <4>2
    <3> QED BY <1>4, <2>1, <3>1, <3>3 DEF NotMailedAgain, Current
  <2> QED BY <1>4, <2>1, <2>3 DEF LateInv
<1>9. CASE Deliver(w) \/ LoseAnswer(w)
  <2>1. PICK row : /\ TickMoves(w) /\ TickDone(w, Current(w), row) /\ tick[w].todo # {}
                   /\ tick[w].pc = "sending" /\ CountMail(w)
    <3>1. CASE Deliver(w)
      BY <3>1, DeliverStep
    <3>2. CASE LoseAnswer(w)
      BY <3>2, KeepRowStep DEF LoseAnswer
    <3> QED BY <1>9, <3>1, <3>2
  <2>2. PICK e \in Enrolled : e = Current(w) /\ e \in tick[w].todo /\ Row(w).contact = enrollments[e].contact
    BY <2>1, CurrentRow DEF Row, LockInv
  <2>3. late[e] = 0
    BY <2>1, <2>2 DEF LateInv, NotMailedAgain
  <2>4. IF Stopped(enrollments[e].contact) THEN late' = [late EXCEPT ![e] = 1] ELSE late' = late
    BY <2>1, <2>2, <2>3 DEF CountMail
  <2>5. tick'[w].todo = tick[w].todo \ {e} /\ tick'[w].pc = "working"
    BY <2>1, <2>2 DEF TickDone
  <2>6. \A v \in Ticks : e \notin tick'[v].todo
    <3>1. \A v \in Ticks \ {w} : e \notin DOMAIN tick[v].rows
      BY <1>2, <2>2 DEF LockInv
    <3>2. \A v \in Ticks \ {w} : e \notin tick[v].todo
      BY <3>1 DEF TypeInv, TickOK
    <3> QED BY <1>4, <2>1, <2>5, <3>2
  <2>7. \A x \in Enrolled \ {e} : late'[x] = late[x]
    BY <2>4, RowsAreTyped
  <2>8. late'[e] <= 1 /\ (late'[e] # 0 => Stopped(enrollments[e].contact))
    BY <2>3, <2>4, RowsAreTyped
  <2>9. late'[e] # 0 => NotMailedAgain(e)'
    BY <1>4, <2>1, <2>6, <2>8 DEF NotMailedAgain, Stopped
  <2>10. ASSUME NEW x \in Enrolled \ {e}, NotMailedAgain(x) PROVE NotMailedAgain(x)'
    <3>1. ASSUME NEW v \in Ticks, x \in tick'[v].todo
          PROVE  enrollments[x].contact \in suppressed /\ (tick'[v].pc = "sending" => First(tick'[v].todo) # x)
      BY <1>4, <2>1, <2>5, <2>10, <3>1 DEF NotMailedAgain, Current
    <3>2. Stopped(enrollments[x].contact)'
      BY <1>4, <2>1, <2>10 DEF NotMailedAgain, Stopped
    <3> QED BY <1>4, <2>1, <3>1, <3>2 DEF NotMailedAgain, Current
  <2> QED BY <1>4, <2>1, <2>7, <2>8, <2>9, <2>10 DEF LateInv
<1> QED BY <1>5, <1>6, <1>7, <1>8, <1>9 DEF Tick

LEMMA LateKept == TypeInv /\ LockInv /\ LateInv /\ [Next]_vars => LateInv'
<1> SUFFICES ASSUME TypeInv, LockInv, LateInv, [Next]_vars PROVE LateInv'
  OBVIOUS
<1>1. CASE UNCHANGED <<tick, status, suppressed, late, enrollments>>
  BY <1>1, LateStays DEF Enrolled
<1>2. ASSUME NEW d \in Drains, Drain(d) PROVE LateInv'
  <2>1. CASE StartDrain(d) \/ HandleRow(d) \/ AbortDrain(d)
    BY <1>1, <2>1 DEF StartDrain, HandleRow, AbortDrain, dbVars
  <2>2. CASE CommitDrain(d)
    BY <2>2, CommitDrainStep, LateStays
  <2> QED BY <1>2, <2>1, <2>2 DEF Drain
<1>3. ASSUME NEW r \in Requests, Request(r) PROVE LateInv'
  <2>1. CASE CommitEnroll(r) /\ ~UNCHANGED <<enrollments, late>>
    <3>1. /\ UNCHANGED <<tick, status, suppressed>> /\ \A e \in Enrolled : late'[e] = late[e]
          /\ \A e \in Enrolled' \ Enrolled : late'[e] = 0
      BY <2>1, CommitEnrollStep
    <3> QED BY <3>1, LateStays
  <2>2. CASE CommitEnroll(r) /\ UNCHANGED <<enrollments, late>>
    BY <1>1, <2>2, CommitEnrollStep
  <2>3. CASE ~CommitEnroll(r)
    BY <1>1, <1>3, <2>3, LoadStep, EditStep DEF Request, Edits, FailRequest, dbVars
  <2> QED BY <2>1, <2>2, <2>3
<1>4. CASE HalfDay
  BY <1>4, HalfDayStep, LateStays
<1>5. ASSUME NEW c \in Contacts, AddSuppression(c) PROVE LateInv'
  <2>1. suppressed \subseteq suppressed' /\ UNCHANGED <<tick, status, late, enrollments>>
    BY <1>5 DEF AddSuppression
  <2> QED BY <2>1, LateStays DEF Enrolled
<1>6. ASSUME NEW c \in Contacts, NEW event \in Events \cup {DoNotEngage}, ContactEvent(c, event) PROVE LateInv'
  <2>1. UNCHANGED <<tick, suppressed, late, enrollments>>
        /\ \A x \in Contacts : status[x] = "do_not_engage" => status'[x] = "do_not_engage"
    BY <1>6, ContactEventStep
  <2> QED BY <2>1, LateStays DEF Enrolled
<1>7. ASSUME NEW c \in Contacts, RemoveSuppression(c) PROVE LateInv'
  <2>1. /\ suppressed' = suppressed \ {c} /\ UNCHANGED <<status, enrollments, tick>>
        /\ late' = [e \in Enrolled |-> IF enrollments[e].contact = c THEN 0 ELSE late[e]]
    BY <1>7 DEF RemoveSuppression
  <2>2. ASSUME NEW e \in Enrolled, enrollments[e].contact # c, NotMailedAgain(e) PROVE NotMailedAgain(e)'
    BY <2>1, <2>2 DEF NotMailedAgain, Stopped, Current
  <2>3. Enrolled' = Enrolled
    BY <2>1 DEF Enrolled
  <2> QED BY <2>1, <2>2, <2>3 DEF LateInv
<1>8. CASE UNCHANGED vars
  BY <1>1, <1>8 DEF vars, dbVars
<1> QED BY <1>2, <1>3, <1>4, <1>5, <1>6, <1>7, <1>8, TickKeepsLate DEF Next

(* A contact that asks for no more mail gets at most the one mail of each of
   its enrolments that is on its way: the next claim leaves a disengaged
   contact out, and the second look at the suppression list a suppressed one. *)
THEOREM OneLateMail == Safety => []AtMostOneLateMail
<1>1. LateInv => AtMostOneLateMail
  BY DEF LateInv, AtMostOneLateMail
<1>2. Safety => []LateInv
  BY LocksInvariant, LateAtStart, LateKept, PTL DEF Safety
<1> QED BY <1>1, <1>2, PTL

-----------------------------------------------------------------------------
(* Steps in order.  A row of the campaign's version has been sent positions
   below its own, which is one of the campaign's, unless the campaign has been
   archived: then steps change under the row, and no tick claims it again.  *)
AtVersion(row, camps) == row.version = camps[row.campaign].version
Archived(row, camps) == camps[row.campaign].status = "archived"

RowInOrder(row, camps, rows) ==
  /\ camps[row.campaign].status # "draft" /\ row.version <= camps[row.campaign].version
  /\ AtVersion(row, camps) =>
       /\ InOrder(row)
       /\ row.state = "active" /\ ~Archived(row, camps) =>
            /\ row.position \in DOMAIN rows[row.campaign] \/ DOMAIN rows[row.campaign] = {}
            /\ \A i \in DOMAIN row.log : row.log[i] < row.position

(* What a tick is about to send for row: the step at position p *)
ClaimInOrder(row, p, camps) ==
  AtVersion(row, camps) => /\ \A i \in DOMAIN row.log : row.log[i] < p
                           /\ ~Archived(row, camps) => p = row.position

CommittedInOrder == \A e \in Enrolled : RowInOrder(enrollments[e], campaign, steps)
NewInOrder == \A d \in Drains : \A n \in DOMAIN drain[d].new : RowInOrder(drain[d].new[n], campaign, steps)
CopiesInOrder ==
  \A w \in Ticks : \A e \in DOMAIN tick[w].rows :
    /\ RowInOrder(tick[w].rows[e], campaign, steps)
    /\ e \in tick[w].todo => ClaimInOrder(tick[w].rows[e], tick[w].step[e].position, campaign)

(* What a request has loaded is what there is. *)
EditorInv ==
  \A r \in Requests : request[r].op # "none" =>
    /\ request[r].seen = campaign[request[r].campaign]
    /\ request[r].op = "enroll" => request[r].seen.status # "draft"
    /\ request[r].op \in {"activate", "pause", "archive"} => request[r].seen.status # "archived"

RowsInOrder == CommittedInOrder /\ NewInOrder /\ CopiesInOrder

OneEditor == \A r, s \in Requests : r = s

LEMMA EditorKept == OneEditor /\ TypeInv /\ EditorInv /\ [Next]_vars => EditorInv'
<1> SUFFICES ASSUME OneEditor, TypeInv, EditorInv, [Next]_vars PROVE EditorInv'
  OBVIOUS
<1>1. CASE UNCHANGED <<request, campaign>>
  BY <1>1 DEF EditorInv
<1>2. ASSUME NEW r \in Requests, request'[r] = IdleRequest PROVE EditorInv'
  BY <1>2 DEF EditorInv, OneEditor, IdleRequest
<1>3. ASSUME NEW r \in Requests, Request(r) PROVE EditorInv'
  <2>1. CASE Edits(r) \/ CommitEnroll(r) \/ FailRequest(r)
    <3>1. Unload(r)
      BY <2>1, EditStep, CommitEnrollStep DEF FailRequest
    <3> QED BY <1>2, <3>1, UnloadStep
  <2>2. CASE LoadForStatus(r) \/ LoadForEnroll(r) \/ LoadForSteps(r) \/ LoadForPatch(r)
    <3>1. campaign' = campaign
      BY <2>2, LoadStep DEF dbVars
    <3> QED BY <2>2, <3>1, LoadStep DEF EditorInv, OneEditor
  <2> QED BY <1>3, <2>1, <2>2 DEF Request, Edits
<1>4. ASSUME NEW w \in Ticks, Tick(w) PROVE EditorInv'
  BY <1>1, <1>4 DEF Tick, StartTick, ExitCurrent, Defer, BeginSend, Deliver, LoseAnswer, RefuseSend,
                    CommitTick, AbortTick, dbVars
<1>5. ASSUME NEW d \in Drains, Drain(d) PROVE EditorInv'
  BY <1>1, <1>5 DEF Drain, StartDrain, HandleRow, CommitDrain, AbortDrain, dbVars
<1>6. CASE HalfDay \/ UNCHANGED vars
  BY <1>1, <1>6 DEF HalfDay, vars, dbVars
<1>7. ASSUME NEW c \in Contacts,
             AddSuppression(c) \/ RemoveSuppression(c) \/ \E event \in Events \cup {DoNotEngage} : ContactEvent(c, event)
      PROVE  EditorInv'
  BY <1>1, <1>7 DEF AddSuppression, RemoveSuppression, ContactEvent
<1> QED BY <1>3, <1>4, <1>5, <1>6, <1>7 DEF Next

(* What an edit does to a campaign: a new version; or no new version to one
   without rows in progress; or only another status.                        *)
LEMMA EditEffect ==
  ASSUME TypeInv, EditorInv, NEW r \in Requests, Edits(r), NEW k \in Campaigns
  PROVE  \/ campaign'[k].version = campaign[k].version + 1 /\ campaign'[k].status = campaign[k].status
         \/ /\ campaign'[k].version = campaign[k].version /\ campaign'[k].status = campaign[k].status
            /\ campaign[k].status \in {"draft", "archived"}
         \/ /\ campaign'[k].version = campaign[k].version /\ steps'[k] = steps[k]
            /\ campaign'[k].status = "draft" => campaign[k].status = "draft"
            /\ campaign[k].status = "archived" => campaign'[k].status = "archived"
<1>1. request[r].op # "none"
  BY DEF Edits, CommitStatus, CommitPatchCampaign, CommitAddStep, CommitPatchStep, CommitDeleteStep
<1>2. /\ request[r].campaign \in Campaigns /\ request[r].seen \in CampaignRow
      /\ request[r].seen = campaign[request[r].campaign]
  BY <1>1, RequestIs DEF EditorInv
<1>3. campaign[k].status \in {"draft", "archived"} \cup Published
  BY DEF TypeInv, Types, CampaignRow, Published
<1>4. CASE CommitStatus(r)
  <2>1. k = request[r].campaign => campaign[k].status # "archived"
    BY <1>2, <1>4 DEF CommitStatus, EditorInv
  <2> QED BY <1>4, <2>1, CommitStatusStep
<1>5. ASSUME \A j \in Campaigns : /\ campaign'[j].status = campaign[j].status
                                  /\ j # request[r].campaign => campaign'[j] = campaign[j] /\ steps'[j] = steps[j],
             campaign'[request[r].campaign].version =
               IF request[r].seen.status \in Published THEN request[r].seen.version + 1
               ELSE campaign[request[r].campaign].version
      PROVE  \/ campaign'[k].version = campaign[k].version + 1 /\ campaign'[k].status = campaign[k].status
             \/ /\ campaign'[k].version = campaign[k].version /\ campaign'[k].status = campaign[k].status
                /\ campaign[k].status \in {"draft", "archived"}
             \/ /\ campaign'[k].version = campaign[k].version /\ steps'[k] = steps[k]
                /\ campaign'[k].status = "draft" => campaign[k].status = "draft"
                /\ campaign[k].status = "archived" => campaign'[k].status = "archived"
  <2>1. CASE k = request[r].campaign
    BY <1>2, <1>3, <1>5, <2>1
  <2>2. CASE k # request[r].campaign
    BY <1>5, <2>2
  <2> QED BY <2>1, <2>2
<1>6. CASE CommitPatchCampaign(r)
  BY <1>5, <1>6, PatchCampaignStep
<1>7. CASE CommitAddStep(r) \/ CommitPatchStep(r) \/ CommitDeleteStep(r)
  <2>1. /\ BumpVersion(request[r].campaign, request[r].seen)
        /\ \A j \in Campaigns \ {request[r].campaign} : steps'[j] = steps[j]
    BY <1>7, AddStepStep, PatchStepStep, DeleteStepStep
  <2> QED BY <1>2, <1>5, <2>1, BumpStep
<1> QED BY <1>4, <1>6, <1>7 DEF Edits

LEMMA EditKeepsRow ==
  ASSUME TypeInv, EditorInv, NEW r \in Requests, Edits(r), NEW row \in Enrollment, RowInOrder(row, campaign, steps)
  PROVE  RowInOrder(row, campaign', steps') /\ \A p : ClaimInOrder(row, p, campaign) => ClaimInOrder(row, p, campaign')
<1>1. PICK k \in Campaigns : k = row.campaign
  BY DEF Enrollment
<1>2. row.version \in Nat /\ campaign[k].version \in Nat
  BY DEF Enrollment, TypeInv, Types, CampaignRow
<1>3. campaign[k].status # "draft" /\ row.version <= campaign[k].version
  BY <1>1 DEF RowInOrder
<1>4. CASE campaign'[k].version = campaign[k].version + 1 /\ campaign'[k].status = campaign[k].status
  BY <1>1, <1>2, <1>3, <1>4 DEF RowInOrder, ClaimInOrder, AtVersion
<1>5. CASE /\ campaign'[k].version = campaign[k].version /\ campaign'[k].status = campaign[k].status
           /\ campaign[k].status = "archived"
  BY <1>1, <1>3, <1>5 DEF RowInOrder, ClaimInOrder, AtVersion, Archived
<1>6. CASE /\ campaign'[k].version = campaign[k].version /\ steps'[k] = steps[k]
           /\ campaign'[k].status = "draft" => campaign[k].status = "draft"
           /\ campaign[k].status = "archived" => campaign'[k].status = "archived"
  BY <1>1, <1>3, <1>6 DEF RowInOrder, ClaimInOrder, AtVersion, Archived, Occupied
<1> QED BY <1>3, <1>4, <1>5, <1>6, EditEffect


(* A row of which only the age has changed, or which has been closed *)
LEMMA RowStaysInOrder ==
  ASSUME UNCHANGED <<campaign, steps>>, NEW row, NEW new, RowInOrder(row, campaign, steps), SameSubject(new, row),
         new.log = row.log, new.state = "active" => row.state = "active" /\ new.position = row.position
  PROVE  RowInOrder(new, campaign', steps')
BY DEF RowInOrder, SameSubject, AtVersion, Archived, InOrder, Occupied

(* A row that begins: at the campaign's version, at its lowest step, with nothing sent *)
LEMMA NewRowInOrder ==
  ASSUME TypeInv, NEW row, row.campaign \in Campaigns, campaign[row.campaign].status # "draft",
         row.version = campaign[row.campaign].version, row.log = <<>>,
         row.position = StartingPosition(row.campaign)
  PROVE  RowInOrder(row, campaign, steps)
<1>1. PICK k \in Campaigns : k = row.campaign
  OBVIOUS
<1>2. row.position \in Occupied(k) \/ Occupied(k) = {}
  BY <1>1, NewEnrollmentIs, FirstIsLeast, RowsAreTyped DEF StartingPosition
<1>3. DOMAIN row.log = {}
  BY EmptyFunctions
<1>4. row.version <= campaign[k].version
  BY <1>1 DEF TypeInv, Types, CampaignRow
<1> QED BY <1>1, <1>2, <1>3, <1>4 DEF RowInOrder, InOrder, Occupied

(* The claim takes the step at the row's own position. *)
LEMMA ClaimsInOrder ==
  ASSUME TypeInv, NEW row \in Enrollment, RowInOrder(row, campaign, steps), IsDue(row)
  PROVE  ClaimInOrder(row, ClaimedStep(row).position, campaign)
<1> SUFFICES ASSUME AtVersion(row, campaign)
             PROVE  /\ \A i \in DOMAIN row.log : row.log[i] < ClaimedStep(row).position
                    /\ ClaimedStep(row).position = row.position
  BY DEF ClaimInOrder
<1>1. PICK k \in Campaigns, p \in Nat : k = row.campaign /\ p = row.position
  BY DEF Enrollment
<1>2. row.state = "active" /\ ~Archived(row, campaign) /\ PositionsFrom(k, p) # {}
  BY <1>1 DEF IsDue, Archived
<1>3. p \in Occupied(k) /\ \A i \in DOMAIN row.log : row.log[i] < p
  BY <1>1, <1>2 DEF RowInOrder, PositionsFrom, Occupied
<1>4. PositionsFrom(k, p) \in SUBSET Nat /\ p \in PositionsFrom(k, p)
  <2>1. Occupied(k) \subseteq Positions /\ Positions \subseteq Nat
    BY RowsAreTyped
  <2>2. PositionsFrom(k, p) \in SUBSET Nat
    BY <2>1 DEF PositionsFrom
  <2>3. p >= p
    OBVIOUS
  <2> QED BY <1>3, <2>2, <2>3 DEF PositionsFrom
<1>5. First(PositionsFrom(k, p)) \in PositionsFrom(k, p) /\ First(PositionsFrom(k, p)) <= p
  BY <1>4, FirstIsLeast
<1>6. First(PositionsFrom(k, p)) = p
  <2>1. PICK q \in Nat : q = First(PositionsFrom(k, p))
    BY <1>4, <1>5
  <2>2. q >= p /\ q <= p
    BY <1>5, <2>1 DEF PositionsFrom
  <2> QED BY <2>1, <2>2
<1>7. ClaimedStep(row).position = p
  BY <1>1, <1>6 DEF ClaimedStep, NextPosition
<1> QED BY <1>1, <1>3, <1>7

(* The step sent is logged above all others, and the row goes on above it. *)
LEMMA AdvancedInOrder ==
  ASSUME TypeInv, NEW row \in Enrollment, NEW p \in Positions, RowInOrder(row, campaign, steps), row.state = "active",
         ClaimInOrder(row, p, campaign)
  PROVE  RowInOrder(Advanced(row, p), campaign, steps)
<1>1. PICK new, further : new = Advanced(row, p) /\ further = PositionsAfter(row.campaign, row.position)
  OBVIOUS
<1>2. /\ new \in Enrollment
      /\ new.campaign = row.campaign /\ new.contact = row.contact /\ new.version = row.version
      /\ new.log = Append(row.log, p)
      /\ further = {} => new.state = "completed" /\ new.position = row.position
      /\ further # {} => /\ new.state = row.state /\ new.position = First(further)
                         /\ First(further) \in further
  BY <1>1, AdvancedIs
<1>3. row.log \in Seq(Positions) /\ row.position \in Nat /\ row.campaign \in Campaigns
  BY RowFields
<1>4. /\ Len(row.log) \in Nat /\ DOMAIN row.log = 1..Len(row.log) /\ DOMAIN new.log = 1..(Len(row.log) + 1)
      /\ new.log[Len(row.log) + 1] = p
      /\ \A i \in DOMAIN row.log : new.log[i] = row.log[i] /\ row.log[i] \in Nat
  <2>1. PICK l \in Seq(Positions) : l = row.log
    BY <1>3
  <2>2. /\ Len(Append(l, p)) = Len(l) + 1 /\ Append(l, p) \in Seq(Positions)
        /\ \A i \in 1..Len(l) : Append(l, p)[i] = l[i]
        /\ Append(l, p)[Len(l) + 1] = p
    BY AppendProperties
  <2>3. DOMAIN Append(l, p) = 1..(Len(l) + 1)
    BY <2>2, LenProperties
  <2> QED BY <1>2, <2>1, <2>2, <2>3, RowFields
<1> SUFFICES ASSUME AtVersion(row, campaign)
             PROVE  /\ InOrder(new)
                    /\ new.state = "active" /\ ~Archived(row, campaign) =>
                         /\ new.position \in Occupied(row.campaign)
                         /\ \A i \in DOMAIN new.log : new.log[i] < new.position
  BY <1>1, <1>2 DEF RowInOrder, AtVersion, Archived, Occupied
<1>5. InOrder(row) /\ \A i \in DOMAIN row.log : row.log[i] < p
  BY DEF RowInOrder, ClaimInOrder
<1>6. InOrder(new)
  <2> SUFFICES ASSUME NEW i \in DOMAIN new.log, NEW j \in DOMAIN new.log, i < j
               PROVE  new.log[i] < new.log[j]
    BY DEF InOrder
  <2>1. i \in DOMAIN row.log /\ (j \in DOMAIN row.log \/ j = Len(row.log) + 1)
    BY <1>4
  <2> QED BY <1>4, <1>5, <2>1 DEF InOrder
<1>7. ASSUME new.state = "active", ~Archived(row, campaign)
      PROVE  /\ new.position \in Occupied(row.campaign)
             /\ \A i \in DOMAIN new.log : new.log[i] < new.position
  <2>1. p = row.position
    BY <1>7 DEF ClaimInOrder
  <2>2. new.position \in further
    BY <1>2, <1>7
  <2>3. new.position \in Occupied(row.campaign) /\ new.position > row.position
    BY <1>1, <2>2 DEF PositionsAfter
  <2>4. new.position \in Nat
    BY <1>3, <2>3, RowsAreTyped
  <2> SUFFICES ASSUME NEW i \in DOMAIN new.log PROVE new.log[i] < new.position
    BY <2>3
  <2>5. CASE i \in DOMAIN row.log
    BY <1>3, <1>4, <1>5, <2>1, <2>3, <2>4, <2>5
  <2>6. CASE i = Len(row.log) + 1
    BY <1>3, <1>4, <2>1, <2>3, <2>4, <2>6
  <2> QED BY <1>4, <2>5, <2>6
<1> QED BY <1>6, <1>7

-----------------------------------------------------------------------------
(* Every step keeps the order *)

LEMMA OrderAtStart == Init => EditorInv /\ RowsInOrder
<1>1. Init => Enrolled = {} /\ \A w \in Ticks : DOMAIN tick[w].rows = {}
  BY EmptyFunctions, IdleTyped DEF Init, Enrolled
<1>2. Init => \A d \in Drains : DOMAIN drain[d].new = {}
  BY NoNewWhenIdle DEF Init
<1>3. Init => EditorInv
  BY DEF Init, EditorInv, IdleRequest
<1> QED BY <1>1, <1>2, <1>3 DEF RowsInOrder, CommittedInOrder, NewInOrder, CopiesInOrder

(* Parts a step does not touch *)
LEMMA OrderStays ==
  ASSUME RowsInOrder, UNCHANGED <<campaign, steps>>
  PROVE  /\ enrollments' = enrollments => CommittedInOrder'
         /\ drain' = drain => NewInOrder'
         /\ tick' = tick => CopiesInOrder'
<1>1. enrollments' = enrollments => CommittedInOrder'
  BY DEF RowsInOrder, CommittedInOrder, Enrolled
<1>2. drain' = drain => NewInOrder'
  BY DEF RowsInOrder, NewInOrder
<1>3. tick' = tick => CopiesInOrder'
  BY DEF RowsInOrder, CopiesInOrder
<1> QED BY <1>1, <1>2, <1>3

LEMMA TickKeepsOrder ==
  ASSUME TypeInv, LockInv, RowsInOrder, NEW w \in Ticks, Tick(w)
  PROVE  RowsInOrder'
<1>1. ASSUME TickMoves(w)
      PROVE  /\ UNCHANGED <<campaign, steps, enrollments, drain>> /\ CommittedInOrder' /\ NewInOrder'
             /\ \A v \in Ticks \ {w} : tick'[v] = tick[v]
  <2>1. UNCHANGED <<campaign, steps, enrollments, drain>>
    BY <1>1 DEF TickMoves, dbVars
  <2> QED BY <1>1, <2>1, OrderStays DEF TickMoves
<1>2. ASSUME UNCHANGED <<campaign, steps>>, \A v \in Ticks \ {w} : tick'[v] = tick[v],
             \A e \in DOMAIN tick'[w].rows :
               /\ RowInOrder(tick'[w].rows[e], campaign', steps')
               /\ e \in tick'[w].todo => ClaimInOrder(tick'[w].rows[e], tick'[w].step[e].position, campaign')
      PROVE  CopiesInOrder'
  <2> SUFFICES ASSUME NEW v \in Ticks \ {w}, NEW e \in DOMAIN tick'[v].rows
               PROVE  /\ RowInOrder(tick'[v].rows[e], campaign', steps')
                      /\ e \in tick'[v].todo => ClaimInOrder(tick'[v].rows[e], tick'[v].step[e].position, campaign')
    BY <1>2 DEF CopiesInOrder
  <2>1. PICK row, p : row = tick[v].rows[e] /\ p = tick[v].step[e].position
    OBVIOUS
  <2>2. e \in DOMAIN tick[v].rows /\ tick'[v] = tick[v]
    BY <1>2
  <2>3. RowInOrder(row, campaign, steps) /\ (e \in tick[v].todo => ClaimInOrder(row, p, campaign))
    BY <2>1, <2>2 DEF RowsInOrder, CopiesInOrder
  <2>4. RowInOrder(row, campaign', steps') /\ (e \in tick[v].todo => ClaimInOrder(row, p, campaign'))
    BY <1>2, <2>3
  <2> QED BY <2>1, <2>2, <2>4
<1>3. ASSUME NEW row, RowInOrder(row, campaign, steps), TickMoves(w), TickDone(w, Current(w), row) PROVE CopiesInOrder'
  <2>1. UNCHANGED <<campaign, steps>>
    BY <1>1, <1>3
  <2>2. ASSUME NEW e \in DOMAIN tick'[w].rows
        PROVE  /\ RowInOrder(tick'[w].rows[e], campaign', steps')
               /\ e \in tick'[w].todo => ClaimInOrder(tick'[w].rows[e], tick'[w].step[e].position, campaign')
    <3>1. e \in DOMAIN tick[w].rows /\ tick'[w].step = tick[w].step
      BY <1>3 DEF TickDone
    <3>2. CASE e = Current(w)
      <4>1. tick'[w].rows[e] = row /\ e \notin tick'[w].todo
        BY <1>3, <3>1, <3>2 DEF TickDone
      <4>2. RowInOrder(row, campaign', steps')
        BY <1>3, <2>1
      <4> QED BY <4>1, <4>2
    <3>3. CASE e # Current(w)
      <4>1. PICK x, p : x = tick[w].rows[e] /\ p = tick[w].step[e].position
        OBVIOUS
      <4>2. tick'[w].rows[e] = x /\ (e \in tick'[w].todo => e \in tick[w].todo)
        BY <1>3, <3>1, <3>3, <4>1 DEF TickDone
      <4>3. RowInOrder(x, campaign, steps) /\ (e \in tick[w].todo => ClaimInOrder(x, p, campaign))
        BY <3>1, <4>1 DEF RowsInOrder, CopiesInOrder
      <4>4. RowInOrder(x, campaign', steps') /\ (e \in tick[w].todo => ClaimInOrder(x, p, campaign'))
        BY <2>1, <4>3
      <4>5. tick'[w].step[e].position = p
        BY <3>1, <4>1
      <4> QED BY <4>2, <4>4, <4>5
    <3> QED BY <3>2, <3>3
  <2> QED BY <1>1, <1>2, <1>3, <2>1, <2>2
<1>4. ASSUME tick[w].todo # {}
      PROVE  /\ Row(w) \in Enrollment /\ RowInOrder(Row(w), campaign, steps) /\ Row(w).state = "active"
             /\ ClaimInOrder(Row(w), Step(w).position, campaign)
  BY <1>4, CurrentRow DEF RowsInOrder, CopiesInOrder, LockInv, Row, Step
<1>5. CASE ExitCurrent(w)
  <2>1. PICK row \in Enrollment : row = Row(w) /\ RowInOrder(row, campaign, steps)
    BY <1>4, <1>5 DEF ExitCurrent
  <2>2. RowInOrder([row EXCEPT !.state = "exited"], campaign, steps)
    BY <2>1 DEF RowInOrder, AtVersion, Archived, InOrder, Enrollment
  <2>3. CopiesInOrder'
    BY <1>3, <1>5, <2>1, <2>2, ExitCurrentStep
  <2> QED BY <1>1, <1>5, <2>3, ExitCurrentStep DEF RowsInOrder
<1>6. CASE Defer(w) \/ LoseAnswer(w) \/ RefuseSend(w)
  <2>1. CopiesInOrder'
    BY <1>3, <1>4, <1>6, KeepRowStep
  <2> QED BY <1>1, <1>6, <2>1, KeepRowStep DEF RowsInOrder
<1>7. CASE Deliver(w)
  <2>1. RowInOrder(Advanced(Row(w), Step(w).position), campaign, steps)
    BY <1>4, <1>7, DeliverStep, AdvancedInOrder
  <2>2. CopiesInOrder'
    BY <1>3, <1>7, <2>1, DeliverStep
  <2> QED BY <1>1, <1>7, <2>2, DeliverStep DEF RowsInOrder
<1>8. CASE BeginSend(w)
  <2>1. TickMoves(w) /\ tick'[w].rows = tick[w].rows /\ tick'[w].step = tick[w].step /\ tick'[w].todo = tick[w].todo
    BY <1>8, BeginSendStep
  <2>2. ASSUME NEW e \in DOMAIN tick[w].rows
        PROVE  /\ RowInOrder(tick[w].rows[e], campaign', steps')
               /\ e \in tick[w].todo => ClaimInOrder(tick[w].rows[e], tick[w].step[e].position, campaign')
    <3>1. PICK x, p : x = tick[w].rows[e] /\ p = tick[w].step[e].position
      OBVIOUS
    <3>2. RowInOrder(x, campaign', steps') /\ (e \in tick[w].todo => ClaimInOrder(x, p, campaign'))
      BY <1>1, <2>1, <3>1 DEF RowsInOrder, CopiesInOrder
    <3> QED BY <2>1, <3>1, <3>2
  <2>3. CopiesInOrder'
    BY <1>1, <1>2, <2>1, <2>2
  <2> QED BY <1>1, <2>1, <2>3 DEF RowsInOrder
<1>9. CASE AbortTick(w)
  <2>1. TickMoves(w) /\ DOMAIN tick'[w].rows = {}
    BY <1>9, AbortTickStep, IdleTyped
  <2>2. CopiesInOrder'
    BY <1>1, <1>2, <2>1
  <2> QED BY <1>1, <2>1, <2>2 DEF RowsInOrder
<1>10. CASE StartTick(w)
  <2>1. /\ TickMoves(w)
        /\ \A e \in DOMAIN tick'[w].rows :
              /\ e \in Due(w) /\ tick'[w].rows[e] = enrollments[e]
              /\ tick'[w].step[e] = ClaimedStep(enrollments[e])
    BY <1>10, StartTickStep
  <2>2. ASSUME NEW e \in DOMAIN tick'[w].rows
        PROVE  /\ RowInOrder(tick'[w].rows[e], campaign', steps')
               /\ ClaimInOrder(tick'[w].rows[e], tick'[w].step[e].position, campaign')
    <3>1. PICK row \in Enrollment : row = enrollments[e] /\ IsDue(row) /\ RowInOrder(row, campaign, steps)
      BY <2>1, RowsAreTyped DEF Due, RowsInOrder, CommittedInOrder
    <3>2. PICK p : p = ClaimedStep(row).position /\ ClaimInOrder(row, p, campaign)
      BY <3>1, ClaimsInOrder
    <3>3. RowInOrder(row, campaign', steps') /\ ClaimInOrder(row, p, campaign')
      BY <1>1, <2>1, <3>1, <3>2
    <3>4. tick'[w].rows[e] = row /\ tick'[w].step[e].position = p
      BY <2>1, <3>1, <3>2
    <3> QED BY <3>3, <3>4
  <2>3. CopiesInOrder'
    BY <1>1, <1>2, <2>1, <2>2
  <2> QED BY <1>1, <2>1, <2>3 DEF RowsInOrder
<1>11. CASE CommitTick(w)
  <2>1. /\ UNCHANGED <<campaign, steps, drain>> /\ Enrolled' = Enrolled
        /\ tick'[w] = IdleTick /\ \A v \in Ticks \ {w} : tick'[v] = tick[v]
        /\ \A e \in Enrolled :
              enrollments'[e] = IF e \in DOMAIN tick[w].rows THEN tick[w].rows[e] ELSE enrollments[e]
    BY <1>11, CommitTickStep
  <2>2. CopiesInOrder'
    BY <1>2, <2>1, IdleTyped
  <2>3. CommittedInOrder'
    <3> SUFFICES ASSUME NEW e \in Enrolled PROVE RowInOrder(enrollments'[e], campaign', steps')
      BY <2>1 DEF CommittedInOrder
    <3>1. PICK row : row = enrollments'[e] /\ RowInOrder(row, campaign, steps)
      BY <2>1 DEF RowsInOrder, CommittedInOrder, CopiesInOrder
    <3> QED BY <2>1, <3>1
  <2> QED BY <2>1, <2>2, <2>3, OrderStays DEF RowsInOrder
<1> QED BY <1>5, <1>6, <1>7, <1>8, <1>9, <1>10, <1>11 DEF Tick

LEMMA DrainKeepsOrder ==
  ASSUME TypeInv, LockInv, RowsInOrder, NEW d \in Drains, Drain(d)
  PROVE  RowsInOrder'
<1>1. ASSUME DrainMoves(d), \A n \in DOMAIN drain'[d].new : RowInOrder(drain'[d].new[n], campaign, steps)
      PROVE  RowsInOrder'
  <2>1. UNCHANGED <<campaign, steps, enrollments, tick>> /\ \A o \in Drains \ {d} : drain'[o] = drain[o]
    BY <1>1 DEF DrainMoves, dbVars
  <2>2. NewInOrder'
    BY <1>1, <2>1 DEF RowsInOrder, NewInOrder
  <2> QED BY <2>1, <2>2, OrderStays DEF RowsInOrder
<1>2. CASE StartDrain(d) \/ AbortDrain(d)
  <2>1. DrainMoves(d) /\ DOMAIN drain'[d].new = {}
    BY <1>2, StartDrainStep, AbortDrainStep, NoNewWhenIdle, EmptyFunctions
  <2> QED BY <1>1, <2>1
<1>3. CASE HandleRow(d)
  <2>0. PICK event : event = Handled(d).event
    OBVIOUS
  <2>1. PICK c \in Contacts : c = Handled(d).contact /\ event = Handled(d).event
    BY <1>3, <2>0, HandledRow
  <2>2. ExitContact(d, c) \/ EnrollContact(d, c, event)
    BY <1>3, <2>1, HandledRow
  <2>3. drain[d].pc = "working" /\ UNCHANGED <<dbVars, evening, tick, request, late>>
    BY <1>3, HandledRow
  <2>4. CASE ExitContact(d, c)
    <3>1. /\ DrainMoves(d) /\ DOMAIN drain'[d].new = DOMAIN drain[d].new
          /\ \A n \in DOMAIN drain[d].new :
               \/ drain'[d].new[n] = drain[d].new[n]
               \/ drain'[d].new[n] = [drain[d].new[n] EXCEPT !.state = "exited"]
      BY <2>3, <2>4, ExitContactStep
    <3>2. ASSUME NEW n \in DOMAIN drain[d].new PROVE RowInOrder(drain'[d].new[n], campaign, steps)
      <4>1. PICK row \in Enrollment : row = drain[d].new[n] /\ RowInOrder(row, campaign, steps)
        BY DrainFields DEF RowsInOrder, NewInOrder
      <4>2. RowInOrder([row EXCEPT !.state = "exited"], campaign, steps)
        BY <4>1 DEF RowInOrder, AtVersion, Archived, InOrder, Enrollment
      <4> QED BY <3>1, <4>1, <4>2
    <3> QED BY <1>1, <3>1, <3>2
  <2>5. CASE EnrollContact(d, c, event)
    <3>1. /\ DrainMoves(d)
          /\ \A n \in DOMAIN drain[d].new : drain'[d].new[n] = drain[d].new[n]
          /\ \A n \in DOMAIN drain'[d].new \ DOMAIN drain[d].new :
               \E k \in Campaigns : drain'[d].new[n] = NewEnrollment(k, c) /\ campaign[k].status = "active"
      BY <2>3, <2>5, EnrollContactStep
    <3>2. ASSUME NEW n \in DOMAIN drain'[d].new PROVE RowInOrder(drain'[d].new[n], campaign, steps)
      <4>1. CASE n \in DOMAIN drain[d].new
        BY <3>1, <4>1 DEF RowsInOrder, NewInOrder
      <4>2. CASE n \notin DOMAIN drain[d].new
        <5>1. PICK k \in Campaigns : drain'[d].new[n] = NewEnrollment(k, c) /\ campaign[k].status = "active"
          BY <3>1, <4>2
        <5>2. PICK row : row = NewEnrollment(k, c)
          OBVIOUS
        <5>3. /\ row.campaign = k /\ row.version = campaign[k].version /\ row.log = <<>>
              /\ row.position = StartingPosition(k)
          BY <5>2 DEF NewEnrollment
        <5>4. RowInOrder(row, campaign, steps)
          BY <5>1, <5>3, NewRowInOrder
        <5> QED BY <5>1, <5>2, <5>4
      <4> QED BY <4>1, <4>2
    <3> QED BY <1>1, <3>1, <3>2
  <2> QED BY <2>2, <2>4, <2>5
<1>4. CASE CommitDrain(d)
  <2>1. /\ drain'[d] = IdleDrain /\ \A o \in Drains \ {d} : drain'[o] = drain[o]
        /\ Enrolled \subseteq Enrolled' /\ UNCHANGED <<campaign, steps, tick>>
        /\ \A e \in Enrolled :
              enrollments'[e] = IF e \in drain[d].exits THEN [enrollments[e] EXCEPT !.state = "exited"]
                                ELSE enrollments[e]
        /\ \A e \in Enrolled' \ Enrolled :
              /\ e - Len(enrollments) \in DOMAIN drain[d].new
              /\ enrollments'[e] = drain[d].new[e - Len(enrollments)]
    BY <1>4, CommitDrainStep, ZenonT(40)
  <2>2. NewInOrder'
    <3>1. \A o \in Drains : DOMAIN drain'[o].new # {} => o # d
      BY <2>1, NoNewWhenIdle
    <3> QED BY <2>1, <3>1 DEF RowsInOrder, NewInOrder
  <2>3. ASSUME NEW e \in Enrolled' PROVE RowInOrder(enrollments'[e], campaign, steps)
    <3>1. CASE e \in Enrolled
      <4>1. PICK row \in Enrollment : row = enrollments[e] /\ RowInOrder(row, campaign, steps)
        BY <3>1, RowsAreTyped DEF RowsInOrder, CommittedInOrder
      <4>2. RowInOrder([row EXCEPT !.state = "exited"], campaign, steps)
        BY <4>1 DEF RowInOrder, AtVersion, Archived, InOrder, Enrollment
      <4> QED BY <2>1, <3>1, <4>1, <4>2
    <3>2. CASE e \notin Enrolled
      BY <2>1, <3>2 DEF RowsInOrder, NewInOrder
    <3> QED BY <3>1, <3>2
  <2>4. CommittedInOrder'
    BY <2>1, <2>3 DEF CommittedInOrder
  <2> QED BY <2>1, <2>2, <2>4, OrderStays DEF RowsInOrder
<1> QED BY <1>2, <1>3, <1>4 DEF Drain

LEMMA RequestKeepsOrder ==
  ASSUME TypeInv, LockInv, EditorInv, RowsInOrder, NEW r \in Requests, Request(r)
  PROVE  RowsInOrder'
<1>1. CASE LoadForStatus(r) \/ LoadForEnroll(r) \/ LoadForSteps(r) \/ LoadForPatch(r) \/ FailRequest(r)
  <2>1. UNCHANGED <<campaign, steps, enrollments, drain, tick>>
    BY <1>1, LoadStep DEF FailRequest, dbVars
  <2> QED BY <2>1, OrderStays DEF RowsInOrder
<1>2. CASE Edits(r)
  <2>1. UNCHANGED <<enrollments, tick, drain>> /\ Enrolled' = Enrolled
    BY <1>2, EditStep DEF Enrolled
  <2>2. CommittedInOrder'
    <3>1. \A e \in Enrolled : RowInOrder(enrollments[e], campaign', steps')
      BY <1>2, RowsAreTyped, EditKeepsRow DEF RowsInOrder, CommittedInOrder
    <3> QED BY <2>1, <3>1 DEF CommittedInOrder
  <2>3. NewInOrder'
    <3>1. \A d \in Drains : \A n \in DOMAIN drain[d].new : RowInOrder(drain[d].new[n], campaign', steps')
      BY <1>2, DrainFields, EditKeepsRow DEF RowsInOrder, NewInOrder
    <3> QED BY <2>1, <3>1 DEF NewInOrder
  <2>4. CopiesInOrder'
    <3>1. ASSUME NEW w \in Ticks, NEW e \in DOMAIN tick[w].rows
          PROVE  /\ RowInOrder(tick[w].rows[e], campaign', steps')
                 /\ e \in tick[w].todo => ClaimInOrder(tick[w].rows[e], tick[w].step[e].position, campaign')
      <4>0. PICK p : p = tick[w].step[e].position
        OBVIOUS
      <4>1. PICK row \in Enrollment : /\ row = tick[w].rows[e]
                                      /\ RowInOrder(row, campaign, steps)
                                      /\ e \in tick[w].todo => ClaimInOrder(row, p, campaign)
        BY <4>0, CopiesAreTyped DEF RowsInOrder, CopiesInOrder
      <4> QED BY <1>2, <4>0, <4>1, EditKeepsRow
    <3> QED BY <2>1, <3>1 DEF CopiesInOrder
  <2> QED BY <2>2, <2>3, <2>4 DEF RowsInOrder
<1>3. CASE CommitEnroll(r)
  <2>1. UNCHANGED <<campaign, steps, tick, drain>> /\ request[r].campaign \in Campaigns
    BY <1>3, CommitEnrollStep
  <2>2. CASE UNCHANGED <<enrollments, late>>
    BY <2>1, <2>2, OrderStays DEF RowsInOrder
  <2>3. CASE ~UNCHANGED <<enrollments, late>>
    <3>1. PICK row : row = enrollments'[Len(enrollments) + 1]
      OBVIOUS
    <3>2. /\ Enrolled' = Enrolled \cup {Len(enrollments) + 1}
          /\ \A e \in Enrolled : enrollments'[e] = enrollments[e]
          /\ row.campaign = request[r].campaign /\ row.version = request[r].seen.version /\ row.log = <<>>
          /\ row.position = StartingPosition(request[r].campaign)
      BY <1>3, <2>3, <3>1, CommitEnrollStep
    <3>3. request[r].seen = campaign[request[r].campaign] /\ request[r].seen.status # "draft"
      BY <1>3 DEF CommitEnroll, EditorInv
    <3>4. RowInOrder(row, campaign, steps)
      BY <2>1, <3>2, <3>3, NewRowInOrder
    <3>5. CommittedInOrder'
      BY <2>1, <3>1, <3>2, <3>4 DEF RowsInOrder, CommittedInOrder
    <3> QED BY <2>1, <3>5, OrderStays DEF RowsInOrder
  <2> QED BY <2>2, <2>3
<1> QED BY <1>1, <1>2, <1>3 DEF Request, Edits

LEMMA OrderKept == TypeInv /\ LockInv /\ EditorInv /\ RowsInOrder /\ [Next]_vars => RowsInOrder'
<1> SUFFICES ASSUME TypeInv, LockInv, EditorInv, RowsInOrder, [Next]_vars PROVE RowsInOrder'
  OBVIOUS
<1>1. CASE UNCHANGED <<campaign, steps, enrollments, tick, drain>>
  BY <1>1, OrderStays DEF RowsInOrder
<1>2. CASE HalfDay
  <2>1. /\ Enrolled' = Enrolled /\ UNCHANGED <<campaign, steps, tick, drain>>
        /\ \A e \in Enrolled : /\ SameSubject(enrollments'[e], enrollments[e])
                               /\ enrollments'[e].position = enrollments[e].position
                               /\ enrollments'[e].state = enrollments[e].state
                               /\ enrollments'[e].log = enrollments[e].log
    BY <1>2, HalfDayStep DEF SameSubject
  <2>2. \A e \in Enrolled : RowInOrder(enrollments'[e], campaign', steps')
    BY <2>1, RowStaysInOrder DEF RowsInOrder, CommittedInOrder
  <2>3. CommittedInOrder'
    BY <2>1, <2>2 DEF CommittedInOrder
  <2> QED BY <2>1, <2>3, OrderStays DEF RowsInOrder
<1>3. ASSUME NEW c \in Contacts,
             AddSuppression(c) \/ RemoveSuppression(c) \/ \E event \in Events \cup {DoNotEngage} : ContactEvent(c, event)
      PROVE  RowsInOrder'
  BY <1>1, <1>3 DEF AddSuppression, RemoveSuppression, ContactEvent
<1>4. CASE UNCHANGED vars
  BY <1>1, <1>4 DEF vars, dbVars
<1> QED BY <1>2, <1>3, <1>4, TickKeepsOrder, DrainKeepsOrder, RequestKeepsOrder DEF Next

(* With one campaign request at a time, an enrolment whose campaign has the
   version noted when it began gets each step once and in order, whatever ticks
   and drains overlap.  Two requests that overlap may lose a version, and then
   it does not hold.                                                        *)
THEOREM StepsOnceInOrder ==
  ASSUME OneEditor
  PROVE  Safety => []EachStepOnceInOrder
<1>1. RowsInOrder => EachStepOnceInOrder
  BY DEF RowsInOrder, CommittedInOrder, RowInOrder, AtVersion, EachStepOnceInOrder
<1>2. OneEditor
  OBVIOUS
<1>3. TypeInv /\ EditorInv /\ [Next]_vars => EditorInv'
  BY <1>2, EditorKept
<1>4. Safety => [](EditorInv /\ RowsInOrder)
  BY <1>3, LocksInvariant, OrderAtStart, OrderKept, PTL DEF Safety
<1> QED BY <1>1, <1>4, PTL
=============================================================================
