-------------------------- MODULE LlmBudgetProofs --------------------------
(***************************************************************************)
(* Theorems about LlmBudget for any number of threads and days and all     *)
(* caps, prices, deadlines and retries.                                    *)
(***************************************************************************)
EXTENDS LlmBudget, FiniteSetTheorems, TLAPS

\* Products grow with their factor.
LEMMA TimesMonotone ==
  ASSUME NEW p \in Nat, NEW a \in Nat, NEW b \in Nat, a <= b
  PROVE  p * a <= p * b
<1>1. PICK k \in Nat : b = a + k
  BY SMT
<1>2. p * (a + k) = p * a + p * k /\ p * k \in Nat /\ p * a \in Nat
  BY SMT
<1> QED BY <1>1, <1>2

LEMMA TimesNext ==
  ASSUME NEW p \in Nat, NEW a \in Nat
  PROVE  p * (a + 1) = p * a + p /\ p * a \in Nat
BY SMT

----------------------------------------------------------------------------
(* Types and the time of a call.                                           *)

\* A thread that calls has attempts and time left; the others have no call.
CallLocals ==
  \A c \in Caller :
    /\ pc[c] \notin {"calling", "logging"} => elapsed[c] = 0 /\ attempts[c] = 0
    /\ pc[c] = "calling" => /\ attempts[c] < MaxAttempts
                            /\ elapsed[c] <= Hard - MinRetry

LEMMA InitCalls == Init => TypeOK /\ CallLocals
BY BudgetAssumption
   DEF Init, TypeOK, CallLocals, Day, NoRows, Rows, Outcome

\* The steps that leave the gateway's locals alone.
LEMMA OutsideGateway ==
  ASSUME TypeOK, CallLocals, UNCHANGED gateway,
         \A c \in Caller :
           \/ pc'[c] = pc[c]
           \/ /\ pc[c] \notin {"calling", "logging"}
              /\ pc'[c] # "logging"
  PROVE  CallLocals'
BY BudgetAssumption DEF CallLocals, gateway, TypeOK

\* A step that ends a call.
LEMMA DoneCalls ==
  ASSUME TypeOK, CallLocals, NEW c \in Caller, Done(c)
  PROVE  /\ CallLocals'
         /\ pc' \in [Caller -> {"idle", "calling", "logging", "breaking",
                                "alarming"}]
         /\ elapsed' \in [Caller -> Nat]
         /\ attempts' \in [Caller -> 0 .. MaxAttempts]
         /\ outcome' \in [Caller -> Outcome]
BY BudgetAssumption DEF Done, Goto, CallLocals, TypeOK, Outcome

LEMMA CheckCalls ==
  ASSUME TypeOK, CallLocals, NEW c \in Caller, Check(c)
  PROVE  TypeOK' /\ CallLocals'
<1>1. TypeOK'
  BY BudgetAssumption DEF Check, Goto, gateway, TypeOK
<1>2. CallLocals'
  <2>1. \A d \in Caller : \/ pc'[d] = pc[d]
                          \/ /\ pc[d] \notin {"calling", "logging"}
                             /\ pc'[d] # "logging"
    BY DEF Check, Goto, TypeOK
  <2> QED BY <2>1, OutsideGateway DEF Check
<1> QED BY <1>1, <1>2

LEMMA BreakCalls ==
  ASSUME TypeOK, CallLocals, NEW c \in Caller, Break(c) \/ Alarm(c)
  PROVE  TypeOK' /\ CallLocals'
<1>1. TypeOK'
  BY DEF Break, Alarm, Goto, gateway, TypeOK
<1>2. CallLocals'
  <2>1. \A d \in Caller : \/ pc'[d] = pc[d]
                          \/ /\ pc[d] \notin {"calling", "logging"}
                             /\ pc'[d] # "logging"
    BY DEF Break, Alarm, Goto, TypeOK
  <2> QED BY <2>1, OutsideGateway DEF Break, Alarm
<1> QED BY <1>1, <1>2

LEMMA CostTyped == \A o : CostOf(o) \in Nat
BY BudgetAssumption DEF CostOf

LEMMA LogCalls ==
  ASSUME TypeOK, CallLocals, NEW c \in Caller, Log(c) \/ LogFails(c)
  PROVE  TypeOK' /\ CallLocals'
<1>1. Done(c)
  BY DEF Log, LogFails
<1>2. rows' \in [Day -> Rows]
  <2>1. CASE Log(c)
    BY <2>1, CostTyped DEF Log, OwnRow, TypeOK, Rows
  <2>2. CASE LogFails(c)
    BY <2>2 DEF LogFails, TypeOK
  <2> QED BY <2>1, <2>2
<1>3. UNCHANGED <<day, audits, alarms, noticeDay, begun, batched>>
  BY DEF Log, LogFails
<1> QED BY <1>1, <1>2, <1>3, DoneCalls DEF TypeOK

LEMMA AttemptCalls ==
  ASSUME TypeOK, CallLocals, NEW c \in Caller, Attempt(c)
  PROVE  TypeOK' /\ CallLocals'
<1>1. PICK spent \in 0 .. MaxTime, o \in Outcome :
        /\ elapsed' = [elapsed EXCEPT ![c] = elapsed[c] + spent]
        /\ attempts' = [attempts EXCEPT ![c] = attempts[c] + 1]
        /\ outcome' = [outcome EXCEPT ![c] = o]
        /\ Goto(c, IF Retries(o, attempts[c] + 1, elapsed[c] + spent)
                      THEN "calling" ELSE "logging")
  BY DEF Attempt
<1>2. /\ elapsed[c] \in Nat /\ elapsed[c] <= Hard - MinRetry
      /\ attempts[c] \in Nat /\ attempts[c] < MaxAttempts
  BY DEF Attempt, TypeOK, CallLocals
<1>3. elapsed[c] + spent \in Nat
  BY <1>2, BudgetAssumption
<1>4. TypeOK'
  <2>1. pc' \in [Caller -> {"idle", "calling", "logging", "breaking",
                            "alarming"}]
    BY <1>1 DEF Goto, TypeOK
  <2>2. /\ elapsed' \in [Caller -> Nat]
        /\ attempts' \in [Caller -> 0 .. MaxAttempts]
        /\ outcome' \in [Caller -> Outcome]
    BY <1>1, <1>2, <1>3, BudgetAssumption DEF TypeOK
  <2> QED BY <2>1, <2>2 DEF Attempt, TypeOK
<1>5. ASSUME NEW d \in Caller
      PROVE  /\ pc'[d] \notin {"calling", "logging"}
                   => elapsed'[d] = 0 /\ attempts'[d] = 0
             /\ pc'[d] = "calling" => /\ attempts'[d] < MaxAttempts
                                      /\ elapsed'[d] <= Hard - MinRetry
  <2>1. CASE d # c
    BY <1>1, <1>5, <2>1 DEF Goto, CallLocals, TypeOK
  <2>2. CASE d = c
    <3>1. /\ elapsed'[d] = elapsed[c] + spent
          /\ attempts'[d] = attempts[c] + 1
          /\ pc'[d] = IF Retries(o, attempts[c] + 1, elapsed[c] + spent)
                        THEN "calling" ELSE "logging"
      BY <1>1, <2>2 DEF Goto, TypeOK
    <3>2. pc'[d] = "calling" => /\ attempts'[d] < MaxAttempts
                               /\ elapsed'[d] <= Hard - MinRetry
      BY <3>1, <1>2, <1>3, BudgetAssumption DEF Retries
    <3> QED BY <3>1, <3>2, <1>3
  <2> QED BY <2>1, <2>2
<1> QED BY <1>4, <1>5 DEF CallLocals

LEMMA OtherCalls ==
  ASSUME TypeOK, CallLocals, Batch \/ Crash \/ Midnight \/ UNCHANGED vars
  PROVE  TypeOK' /\ CallLocals'
<1>1. CASE Batch
  <2>1. rows' \in [Day -> Rows]
    BY <1>1, CostTyped DEF Batch, BatchRow, TypeOK, Rows
  <2>2. TypeOK'
    BY <1>1, <2>1, BudgetAssumption DEF Batch, TypeOK, gateway
  <2> QED BY <1>1, <2>2, OutsideGateway DEF Batch
<1>2. CASE Crash
  BY <1>2, BudgetAssumption DEF Crash, TypeOK, CallLocals, Outcome
<1>3. CASE Midnight
  <2>1. TypeOK'
    BY <1>3, BudgetAssumption DEF Midnight, TypeOK, gateway, Day
  <2> QED BY <1>3, <2>1, OutsideGateway DEF Midnight
<1>4. CASE UNCHANGED vars
  BY <1>4 DEF vars, TypeOK, CallLocals
<1> QED BY <1>1, <1>2, <1>3, <1>4

LEMMA NextCalls == TypeOK /\ CallLocals /\ [Next]_vars => TypeOK' /\ CallLocals'
BY CheckCalls, BreakCalls, LogCalls, AttemptCalls, OtherCalls DEF Next, Rest

\* The inductive invariant behind the types and the time of a call: a thread
\* only calls while attempts and time for one are left.
THEOREM CallInvariant == Spec => [](TypeOK /\ CallLocals)
BY InitCalls, NextCalls, PTL DEF Spec

\* Every variable keeps its type, and no call makes more attempts than it may.
THEOREM TypeCorrect == Spec => []TypeOK
BY CallInvariant, PTL

\* However long the attempts before it took, an attempt's timeout ends within
\* the deadline.
THEOREM WaitsDoFit == Spec => []WaitsFitDeadline
<1>1. TypeOK /\ CallLocals => WaitsFitDeadline
  BY BudgetAssumption DEF TypeOK, CallLocals, WaitsFitDeadline, Timeout
<1> QED BY <1>1, CallInvariant, PTL

----------------------------------------------------------------------------
(* The overshoot.                                                          *)

\* The caps as a look at the day must find them to let a call go, counting
\* the rows of complete among all rows; days to come have no rows.
DayRows ==
  /\ rows[day].own <= rows[day].calls
  /\ rows[day].ownCost <= rows[day].cost
  /\ \A d \in Day : d > day => rows[d] = NoRows

BudgetInv == TypeOK /\ DayRows /\ OvershootBounded

LEMMA FlightFinite ==
  ASSUME TypeOK
  PROVE  /\ IsFiniteSet(InFlight) /\ Cardinality(InFlight) \in Nat
         /\ Cardinality(Caller) \in Nat
         /\ Cardinality(InFlight) <= Cardinality(Caller)
<1>1. InFlight \in SUBSET Caller
  BY DEF InFlight
<1> QED BY <1>1, BudgetAssumption, FS_Subset, FS_CardinalityType

\* Fewer calls out and no more rows keep the bound.
LEMMA BoundKept ==
  ASSUME TypeOK, TypeOK', OvershootBounded,
         rows'[day'].own <= rows[day].own,
         rows'[day'].ownCost <= rows[day].ownCost,
         InFlight' \subseteq InFlight
  PROVE  OvershootBounded'
<1> DEFINE f == Cardinality(InFlight)  g == Cardinality(InFlight')
<1>1. f \in Nat /\ IsFiniteSet(InFlight) /\ Cardinality(Caller) \in Nat
  BY FlightFinite
<1>2. g \in Nat /\ g <= f
  BY <1>1, FS_Subset, FS_CardinalityType
<1>3. Price * g <= Price * f /\ Price * g \in Nat /\ Price * f \in Nat
      /\ Price * Cardinality(Caller) \in Nat
  BY <1>1, <1>2, TimesMonotone, TimesNext, BudgetAssumption
<1>4. /\ rows[day].own \in Nat /\ rows[day].ownCost \in Nat
      /\ rows'[day'].own \in Nat /\ rows'[day'].ownCost \in Nat
  BY DEF TypeOK, Rows
<1>5. /\ rows[day].own + f <= CallCap - 1 + Cardinality(Caller)
      /\ rows[day].ownCost + Price * f
           <= CostCap - 1 + Price * Cardinality(Caller)
  BY DEF OvershootBounded
<1> HIDE DEF f, g
<1>6. /\ rows'[day'].own + g <= CallCap - 1 + Cardinality(Caller)
      /\ rows'[day'].ownCost + Price * g
           <= CostCap - 1 + Price * Cardinality(Caller)
  BY <1>1, <1>2, <1>3, <1>4, <1>5, BudgetAssumption
<1> QED BY <1>6 DEF OvershootBounded, g

\* A look at the day lets a call go: the rows are below both caps, and one
\* thread at least has no call out.
LEMMA CheckBudget ==
  ASSUME BudgetInv, TypeOK', NEW c \in Caller, Check(c)
  PROVE  BudgetInv'
<1>1. DayRows'
  BY DEF BudgetInv, DayRows, Check
<1>2. CASE OverCircuit(rows[day])
  <2>1. InFlight' \subseteq InFlight
    BY <1>2 DEF Check, Goto, InFlight, BudgetInv, TypeOK
  <2>2. /\ rows'[day'].own <= rows[day].own
        /\ rows'[day'].ownCost <= rows[day].ownCost
    BY DEF Check, BudgetInv, TypeOK, Rows
  <2> QED BY <1>1, <2>1, <2>2, BoundKept DEF BudgetInv
<1>3. CASE ~OverCircuit(rows[day])
  <2> DEFINE f == Cardinality(InFlight)  k == Cardinality(Caller)
  <2>1. InFlight' = InFlight \cup {c} /\ c \notin InFlight
    BY <1>3 DEF Check, Goto, InFlight, BudgetInv, TypeOK
  <2>2. f \in Nat /\ k \in Nat /\ Cardinality(InFlight') = f + 1
    BY <2>1, FlightFinite, FS_AddElement DEF BudgetInv
  <2>3. f + 1 <= k
    <3>1. InFlight \cup {c} \in SUBSET Caller
      BY DEF InFlight
    <3> QED BY <2>1, <2>2, <3>1, FS_Subset, BudgetAssumption
  <2>4. /\ rows[day].own \in Nat /\ rows[day].ownCost \in Nat
        /\ rows[day].own <= CallCap - 1 /\ rows[day].ownCost <= CostCap - 1
    BY <1>3, BudgetAssumption DEF OverCircuit, BudgetInv, DayRows, TypeOK, Rows
  <2>5. Price * (f + 1) <= Price * k /\ Price * (f + 1) \in Nat
        /\ Price * k \in Nat
    <3>1. f + 1 \in Nat
      BY <2>2
    <3> QED BY <2>2, <2>3, <3>1, TimesMonotone, TimesNext, BudgetAssumption
  <2>6. UNCHANGED <<rows, day>>
    BY DEF Check
  <2> HIDE DEF f, k
  <2>7. /\ rows[day].own + (f + 1) <= CallCap - 1 + k
        /\ rows[day].ownCost + Price * (f + 1) <= CostCap - 1 + Price * k
    BY <2>2, <2>3, <2>4, <2>5, BudgetAssumption
  <2>8. OvershootBounded'
    BY <2>2, <2>6, <2>7 DEF OvershootBounded, f, k
  <2> QED BY <1>1, <2>8 DEF BudgetInv
<1> QED BY <1>2, <1>3

\* A call that was out leaves its row.
LEMMA LogBudget ==
  ASSUME BudgetInv, TypeOK', NEW c \in Caller, Log(c)
  PROVE  BudgetInv'
<1> DEFINE f == Cardinality(InFlight)  k == Cardinality(Caller)
           cost == CostOf(outcome[c])
<1>1. cost \in Nat /\ cost <= Price
  BY BudgetAssumption DEF CostOf
<1>2. /\ day' = day
      /\ rows'[day] = OwnRow(rows[day], cost)
      /\ \A d \in Day : d > day => rows'[d] = rows[d]
  BY DEF Log, BudgetInv, TypeOK, Day
<1>3. /\ rows[day].own \in Nat /\ rows[day].ownCost \in Nat
      /\ rows[day].calls \in Nat /\ rows[day].cost \in Nat
  BY DEF BudgetInv, TypeOK, Rows
<1>4. DayRows'
  BY <1>1, <1>2, <1>3 DEF BudgetInv, DayRows, OwnRow
<1>5. InFlight' = InFlight \ {c} /\ c \in InFlight
  BY DEF Log, Done, Goto, InFlight, BudgetInv, TypeOK
<1>6. /\ f \in Nat /\ k \in Nat /\ Cardinality(InFlight') = f - 1
      /\ f - 1 \in Nat
  <2>1. f \in Nat /\ k \in Nat /\ IsFiniteSet(InFlight)
    BY FlightFinite DEF BudgetInv
  <2>2. Cardinality(InFlight') = f - 1 /\ f # 0
    BY <1>5, <2>1, FS_RemoveElement, FS_EmptySet
  <2> QED BY <2>1, <2>2
<1>7. Price * f = Price * (f - 1) + Price /\ Price * (f - 1) \in Nat
      /\ Price * k \in Nat
  <2>1. Price * (f - 1 + 1) = Price * (f - 1) + Price
        /\ Price * (f - 1) \in Nat /\ Price * k \in Nat
    BY <1>6, TimesNext, BudgetAssumption
  <2>2. f - 1 + 1 = f
    BY <1>6
  <2> QED BY <2>1, <2>2
<1>8. /\ rows[day].own + f <= CallCap - 1 + k
      /\ rows[day].ownCost + Price * f <= CostCap - 1 + Price * k
  BY DEF BudgetInv, OvershootBounded
<1> HIDE DEF f, k, cost
<1>9. /\ rows'[day].own + (f - 1) <= CallCap - 1 + k
      /\ rows'[day].ownCost + Price * (f - 1) <= CostCap - 1 + Price * k
  BY <1>1, <1>2, <1>3, <1>6, <1>7, <1>8, BudgetAssumption DEF OwnRow
<1>10. OvershootBounded'
  BY <1>2, <1>6, <1>9 DEF OvershootBounded, f, k
<1> QED BY <1>4, <1>10 DEF BudgetInv

\* A new day has no rows, and no more calls out than there are threads.
LEMMA MidnightBudget ==
  ASSUME BudgetInv, TypeOK', Midnight
  PROVE  BudgetInv'
<1> DEFINE f == Cardinality(InFlight)  k == Cardinality(Caller)
<1>1. /\ day' = day + 1 /\ day' \in Day /\ rows' = rows
      /\ rows[day'] = NoRows
  BY BudgetAssumption DEF Midnight, BudgetInv, DayRows, TypeOK, Day
<1>2. DayRows'
  BY <1>1 DEF BudgetInv, DayRows, NoRows, TypeOK, Day
<1>3. InFlight' = InFlight
  BY DEF Midnight, InFlight
<1>4. f \in Nat /\ k \in Nat /\ f <= k
  BY FlightFinite DEF BudgetInv
<1>5. Price * f <= Price * k /\ Price * f \in Nat /\ Price * k \in Nat
  BY <1>4, TimesMonotone, TimesNext, BudgetAssumption
<1> HIDE DEF f, k
<1>6. 0 + f <= CallCap - 1 + k /\ 0 + Price * f <= CostCap - 1 + Price * k
  BY <1>4, <1>5, BudgetAssumption
<1>7. OvershootBounded'
  BY <1>1, <1>3, <1>6 DEF OvershootBounded, NoRows, f, k
<1> QED BY <1>2, <1>7 DEF BudgetInv

\* The other steps write no row of complete and send no call out.
LEMMA QuietBudget ==
  ASSUME BudgetInv, TypeOK',
         \/ \E c \in Caller : Break(c) \/ Alarm(c) \/ Attempt(c) \/ LogFails(c)
         \/ Batch \/ Crash \/ UNCHANGED vars
  PROVE  BudgetInv'
<1>1. day' = day
  BY DEF Break, Alarm, Attempt, LogFails, Batch, Crash, vars
<1>2. rows' = rows \/ \E cost \in Nat :
                        rows' = [rows EXCEPT ![day] = BatchRow(@, cost)]
  BY CostTyped DEF Break, Alarm, Attempt, LogFails, Batch, Crash, vars
<1>3. /\ rows'[day].own = rows[day].own
      /\ rows'[day].ownCost = rows[day].ownCost
      /\ rows'[day].calls >= rows[day].calls
      /\ rows'[day].cost >= rows[day].cost
      /\ \A d \in Day : d > day => rows'[d] = rows[d]
  <2>1. rows[day] \in Rows /\ day \in Day
    BY DEF BudgetInv, TypeOK
  <2>2. CASE rows' = rows
    BY <2>1, <2>2 DEF Rows
  <2>3. CASE \E cost \in Nat : rows' = [rows EXCEPT ![day] = BatchRow(@, cost)]
    <3>1. PICK cost \in Nat : rows' = [rows EXCEPT ![day] = BatchRow(@, cost)]
      BY <2>3
    <3>2. /\ rows'[day] = BatchRow(rows[day], cost)
          /\ \A d \in Day : d > day => rows'[d] = rows[d]
      BY <2>1, <3>1 DEF BudgetInv, TypeOK, Day
    <3> QED BY <2>1, <3>2 DEF BatchRow, Rows
  <2> QED BY <1>2, <2>2, <2>3
<1>4. DayRows'
  BY <1>1, <1>3 DEF DayRows, BudgetInv, TypeOK, Rows
<1>5. InFlight' \subseteq InFlight
  <2>1. CASE \E c \in Caller : Break(c) \/ Alarm(c)
    BY <2>1 DEF Break, Alarm, Goto, InFlight, BudgetInv, TypeOK
  <2>2. CASE \E c \in Caller : Attempt(c) \/ LogFails(c)
    BY <2>2 DEF Attempt, LogFails, Done, Goto, InFlight, BudgetInv, TypeOK
  <2>3. CASE Batch \/ Crash \/ UNCHANGED vars
    BY <2>3 DEF Batch, Crash, vars, InFlight
  <2> QED BY <2>1, <2>2, <2>3
<1>6. /\ rows'[day'].own <= rows[day].own
      /\ rows'[day'].ownCost <= rows[day].ownCost
  BY <1>1, <1>3 DEF BudgetInv, TypeOK, Rows
<1>7. OvershootBounded'
  BY <1>5, <1>6, BoundKept DEF BudgetInv
<1> QED BY <1>4, <1>7 DEF BudgetInv

LEMMA InitBudget == Init => BudgetInv
<1> SUFFICES ASSUME Init PROVE BudgetInv
  OBVIOUS
<1>1. TypeOK
  BY InitCalls
<1>2. rows[day] = NoRows /\ DayRows
  BY BudgetAssumption DEF Init, DayRows, Day, NoRows
<1>3. InFlight = {}
  BY DEF Init, InFlight
<1>4. Cardinality(InFlight) = 0 /\ Price * 0 = 0
      /\ Cardinality(Caller) \in Nat /\ Price * Cardinality(Caller) \in Nat
  BY <1>1, <1>3, FS_EmptySet, FlightFinite, TimesNext, BudgetAssumption
<1>5. OvershootBounded
  BY <1>2, <1>4, BudgetAssumption DEF OvershootBounded, NoRows
<1> QED BY <1>1, <1>2, <1>5 DEF BudgetInv

LEMMA NextBudget == BudgetInv /\ TypeOK' /\ [Next]_vars => BudgetInv'
BY CheckBudget, LogBudget, MidnightBudget, QuietBudget DEF Next, Rest

\* The inductive invariant of the budget: the rows complete wrote and the
\* calls that are out stay below the caps by one call per thread, day by day.
THEOREM BudgetInvariant == Spec => []BudgetInv
<1>1. BudgetInv /\ TypeOK' /\ [Next]_vars => BudgetInv'
  BY NextBudget
<1> QED BY InitBudget, <1>1, TypeCorrect, PTL DEF Spec

\* However many threads look and write in whatever order, a day's calls and
\* its money pass their caps by less than one call per thread.
THEOREM OvershootIsBounded == Spec => []OvershootBounded
<1>1. BudgetInv => OvershootBounded
  BY DEF BudgetInv
<1> QED BY <1>1, BudgetInvariant, PTL

----------------------------------------------------------------------------
(* The notices.                                                            *)

\* The threads that are about to announce a day.
Announcing(d) == {c \in Caller : pc[c] = "alarming" /\ noticeDay[c] = d}

\* Whether a day up to d reached a cap.
CapReached(d) == \E p \in 1 .. d : OverCircuit(rows[p])

\* A day without an audit row has no notice, sent or coming; a thread that
\* was refused has seen a day that reached a cap.
Announcements ==
  /\ \A d \in Day : audits[d] = 0 => alarms[d] = 0 /\ Announcing(d) = {}
  /\ \A c \in Caller : pc[c] = "breaking" => CapReached(day)

NoticeInv == TypeOK /\ Announcements /\ AnnouncedOnce

LEMMA AnnouncingFinite ==
  ASSUME NEW d
  PROVE  IsFiniteSet(Announcing(d)) /\ Cardinality(Announcing(d)) \in Nat
<1>1. Announcing(d) \in SUBSET Caller
  BY DEF Announcing
<1> QED BY <1>1, BudgetAssumption, FS_Subset, FS_CardinalityType

\* Rows are only added, so a day that reached a cap stays so.
LEMMA RowsGrow ==
  ASSUME TypeOK, [Next]_vars, NEW d \in Day, OverCircuit(rows[d])
  PROVE  OverCircuit(rows[d])'
<1>1. rows' = rows \/ \E cost \in Nat :
        \/ rows' = [rows EXCEPT ![day] = BatchRow(@, cost)]
        \/ rows' = [rows EXCEPT ![day] = OwnRow(@, cost)]
  <2>1. CASE \E c \in Caller : Log(c)
    BY <2>1, CostTyped DEF Log
  <2>2. CASE Batch
    BY <2>2, CostTyped DEF Batch
  <2>3. CASE Crash \/ Midnight \/ Rest \/ UNCHANGED vars
    BY <2>3 DEF Crash, Midnight, Rest, vars
  <2>4. CASE \E c \in Caller : Check(c) \/ Break(c) \/ Alarm(c) \/ Attempt(c)
                             \/ LogFails(c)
    BY <2>4 DEF Check, Break, Alarm, Attempt, LogFails
  <2> QED BY <2>1, <2>2, <2>3, <2>4 DEF Next
<1>2. rows[d] \in Rows /\ rows[day] \in Rows /\ day \in Day
  BY DEF TypeOK
<1>3. rows'[d].calls >= rows[d].calls /\ rows'[d].cost >= rows[d].cost
      /\ rows'[d].calls \in Nat /\ rows'[d].cost \in Nat
  <2>1. CASE rows' = rows
    BY <1>2, <2>1 DEF Rows
  <2>2. CASE \E cost \in Nat :
               \/ rows' = [rows EXCEPT ![day] = BatchRow(@, cost)]
               \/ rows' = [rows EXCEPT ![day] = OwnRow(@, cost)]
    <3>1. PICK cost \in Nat :
            \/ rows' = [rows EXCEPT ![day] = BatchRow(@, cost)]
            \/ rows' = [rows EXCEPT ![day] = OwnRow(@, cost)]
      BY <2>2
    <3>2. rows'[d] \in {rows[d], BatchRow(rows[d], cost), OwnRow(rows[d], cost)}
      BY <1>2, <3>1 DEF TypeOK
    <3>3. cost \in Nat
      OBVIOUS
    <3> QED BY <1>2, <3>2, <3>3 DEF BatchRow, OwnRow, Rows
  <2> QED BY <1>1, <2>1, <2>2
<1>4. CallCap \in Nat /\ CostCap \in Nat
  BY BudgetAssumption
<1> QED BY <1>2, <1>3, <1>4 DEF OverCircuit, Rows

LEMMA CapKept ==
  ASSUME TypeOK, [Next]_vars, NEW d \in Day, CapReached(d)
  PROVE  CapReached(d)'
<1>1. PICK p \in 1 .. d : OverCircuit(rows[p])
  BY DEF CapReached
<1>2. p \in Day
  BY BudgetAssumption DEF Day
<1>3. OverCircuit(rows[p])'
  BY <1>1, <1>2, RowsGrow
<1> QED BY <1>3 DEF CapReached

\* Steps that leave audit rows and notices alone and set no thread to
\* announce; a refusal must have seen a cap reached.
LEMMA NoticesKept ==
  ASSUME NoticeInv, TypeOK', [Next]_vars, UNCHANGED <<audits, alarms, noticeDay>>,
         day' >= day,
         \A c \in Caller : pc'[c] = "alarming" => pc[c] = "alarming",
         \A c \in Caller : pc'[c] = "breaking" =>
                            pc[c] = "breaking" \/ OverCircuit(rows[day])
  PROVE  NoticeInv'
<1>1. ASSUME NEW d \in Day PROVE Announcing(d)' \subseteq Announcing(d)
  BY DEF Announcing
<1>2. Announcements'
  <2>1. ASSUME NEW c \in Caller, pc'[c] = "breaking"
        PROVE  CapReached(day)'
    <3>1. CapReached(day)
      BY <2>1 DEF NoticeInv, Announcements, CapReached, TypeOK, Day
    <3>2. PICK p \in 1 .. day : OverCircuit(rows[p])
      BY <3>1 DEF CapReached
    <3>3. p \in Day /\ p \in 1 .. day'
      <4>1. day \in Day /\ day' \in Day
        BY DEF NoticeInv, TypeOK
      <4> QED BY <3>2, <4>1, BudgetAssumption DEF Day
    <3>4. OverCircuit(rows[p])'
      BY <3>2, <3>3, RowsGrow DEF NoticeInv
    <3> QED BY <3>3, <3>4 DEF CapReached
  <2>2. ASSUME NEW d \in Day, audits'[d] = 0
        PROVE  alarms'[d] = 0 /\ Announcing(d)' = {}
    BY <2>2, <1>1 DEF NoticeInv, Announcements
  <2> QED BY <2>1, <2>2 DEF Announcements
<1>3. AnnouncedOnce'
  <2> SUFFICES ASSUME NEW d \in Day
               PROVE  /\ alarms'[d] + Cardinality(Announcing(d)') <= 1
                      /\ audits'[d] > 0 => CapReached(d)'
    BY DEF AnnouncedOnce, Announcing, CapReached
  <2>1. /\ alarms[d] + Cardinality(Announcing(d)) <= 1
        /\ audits[d] > 0 => CapReached(d)
    BY DEF NoticeInv, AnnouncedOnce, Announcing, CapReached
  <2>2. /\ Cardinality(Announcing(d)') \in Nat
        /\ Cardinality(Announcing(d)') <= Cardinality(Announcing(d))
        /\ Cardinality(Announcing(d)) \in Nat
    BY <1>1, AnnouncingFinite, FS_Subset, FS_CardinalityType
  <2>3. audits[d] > 0 => CapReached(d)'
    BY <2>1, CapKept DEF NoticeInv
  <2> QED BY <2>1, <2>2, <2>3 DEF NoticeInv, TypeOK
<1> QED BY <1>2, <1>3 DEF NoticeInv

\* The audit row of a refusal; the first of a day sets its thread to announce.
LEMMA BreakNotice ==
  ASSUME NoticeInv, TypeOK', NEW c \in Caller, Break(c)
  PROVE  NoticeInv'
<1>1. /\ pc[c] = "breaking" /\ UNCHANGED <<day, rows, alarms>>
      /\ audits' = [audits EXCEPT ![day] = @ + 1]
      /\ noticeDay' = [noticeDay EXCEPT ![c] = day]
      /\ pc' = [pc EXCEPT ![c] = IF FirstToday(day) THEN "alarming" ELSE "idle"]
  BY DEF Break, Goto
<1>2. CapReached(day)
  BY <1>1 DEF NoticeInv, Announcements
<1>3. day \in Day /\ audits[day] \in Nat
  BY DEF NoticeInv, TypeOK
<1>4. ASSUME NEW d \in Day, d # day
      PROVE  /\ Announcing(d)' = Announcing(d) /\ audits'[d] = audits[d]
             /\ alarms'[d] = alarms[d]
  BY <1>1, <1>3, <1>4 DEF Announcing, NoticeInv, TypeOK
<1>5. audits'[day] = audits[day] + 1 /\ alarms'[day] = alarms[day]
  BY <1>1, <1>3 DEF NoticeInv, TypeOK
<1>6. alarms'[day] + Cardinality(Announcing(day)') <= 1
  <2>1. CASE FirstToday(day)
    <3>1. alarms[day] = 0 /\ Announcing(day) = {}
      BY <2>1, <1>3 DEF FirstToday, NoticeInv, Announcements
    <3>2. Announcing(day)' = {c}
      BY <1>1, <2>1, <3>1 DEF Announcing, NoticeInv, TypeOK
    <3> QED BY <1>5, <3>1, <3>2, FS_Singleton
  <2>2. CASE ~FirstToday(day)
    <3>1. Announcing(day)' \subseteq Announcing(day)
      BY <1>1, <2>2 DEF Announcing, NoticeInv, TypeOK
    <3>2. Cardinality(Announcing(day)') <= Cardinality(Announcing(day))
          /\ Cardinality(Announcing(day)') \in Nat
          /\ Cardinality(Announcing(day)) \in Nat
      BY <3>1, AnnouncingFinite, FS_Subset, FS_CardinalityType
    <3>3. alarms[day] + Cardinality(Announcing(day)) <= 1
      BY <1>3 DEF NoticeInv, AnnouncedOnce, Announcing
    <3> QED BY <1>5, <1>3, <3>2, <3>3 DEF NoticeInv, TypeOK
  <2> QED BY <2>1, <2>2
<1>7. Announcements'
  <2>1. ASSUME NEW d \in Day, audits'[d] = 0
        PROVE  alarms'[d] = 0 /\ Announcing(d)' = {}
    BY <2>1, <1>3, <1>4, <1>5 DEF NoticeInv, Announcements
  <2>2. CapReached(day)'
    BY <1>1, <1>2 DEF CapReached
  <2> QED BY <2>1, <2>2 DEF Announcements
<1>8. AnnouncedOnce'
  <2> SUFFICES ASSUME NEW d \in Day
               PROVE  /\ alarms'[d] + Cardinality(Announcing(d)') <= 1
                      /\ audits'[d] > 0 => CapReached(d)'
    BY DEF AnnouncedOnce, Announcing, CapReached
  <2>1. CASE d = day
    BY <2>1, <1>1, <1>2, <1>6 DEF CapReached
  <2>2. CASE d # day
    <3>1. /\ alarms[d] + Cardinality(Announcing(d)) <= 1
          /\ audits[d] > 0 => CapReached(d)
      BY DEF NoticeInv, AnnouncedOnce, Announcing, CapReached
    <3>2. CapReached(d) => CapReached(d)'
      BY <1>1 DEF CapReached
    <3> QED BY <3>1, <3>2, <1>4, <2>2
  <2> QED BY <2>1, <2>2
<1> QED BY <1>7, <1>8 DEF NoticeInv

\* The notice itself: the thread stops announcing as the day is announced.
LEMMA AlarmNotice ==
  ASSUME NoticeInv, TypeOK', NEW c \in Caller, Alarm(c)
  PROVE  NoticeInv'
<1>0. PICK a \in Day : a = noticeDay[c]
  BY DEF NoticeInv, TypeOK
<1>1. /\ pc[c] = "alarming" /\ UNCHANGED <<day, rows, audits, noticeDay>>
      /\ alarms' = [alarms EXCEPT ![a] = @ + 1]
      /\ pc' = [pc EXCEPT ![c] = "idle"]
  BY <1>0 DEF Alarm, Goto
<1>2. /\ c \in Announcing(a) /\ Announcing(a)' = Announcing(a) \ {c}
      /\ \A d \in Day : d # a => Announcing(d)' = Announcing(d)
  BY <1>0, <1>1 DEF Announcing, NoticeInv, TypeOK
<1>3. /\ alarms'[a] = alarms[a] + 1 /\ alarms[a] \in Nat
      /\ \A d \in Day : d # a => alarms'[d] = alarms[d]
  BY <1>1 DEF NoticeInv, TypeOK
<1>4. Cardinality(Announcing(a)') = Cardinality(Announcing(a)) - 1
      /\ Cardinality(Announcing(a)) \in Nat
  BY <1>2, AnnouncingFinite, FS_RemoveElement
<1>5. Announcements'
  <2>1. ASSUME NEW d \in Day, audits'[d] = 0
        PROVE  alarms'[d] = 0 /\ Announcing(d)' = {}
    <3>1. alarms[d] = 0 /\ Announcing(d) = {}
      BY <2>1, <1>1 DEF NoticeInv, Announcements
    <3>2. d # a
      BY <3>1, <1>2
    <3> QED BY <3>1, <3>2, <1>2, <1>3
  <2>2. ASSUME NEW d \in Caller, pc'[d] = "breaking" PROVE CapReached(day)'
    BY <2>2, <1>1 DEF NoticeInv, Announcements, CapReached, TypeOK
  <2> QED BY <2>1, <2>2 DEF Announcements
<1>6. AnnouncedOnce'
  <2> SUFFICES ASSUME NEW d \in Day
               PROVE  /\ alarms'[d] + Cardinality(Announcing(d)') <= 1
                      /\ audits'[d] > 0 => CapReached(d)'
    BY DEF AnnouncedOnce, Announcing, CapReached
  <2>1. /\ alarms[d] + Cardinality(Announcing(d)) <= 1
        /\ audits[d] > 0 => CapReached(d)
    BY DEF NoticeInv, AnnouncedOnce, Announcing, CapReached
  <2>2. CapReached(d) => CapReached(d)'
    BY <1>1 DEF CapReached
  <2>3. CASE d = a
    <3>1. alarms'[a] + Cardinality(Announcing(a)')
            = alarms[a] + Cardinality(Announcing(a))
      BY <1>3, <1>4
    <3>2. alarms[a] + Cardinality(Announcing(a)) <= 1
      BY <1>1 DEF NoticeInv, AnnouncedOnce, Announcing
    <3>3. alarms'[a] + Cardinality(Announcing(a)') <= 1
      BY <3>1, <3>2
    <3> QED BY <2>1, <2>2, <2>3, <3>3, <1>1
  <2>4. CASE d # a
    BY <2>1, <2>2, <2>4, <1>1, <1>2, <1>3
  <2> QED BY <2>3, <2>4
<1> QED BY <1>5, <1>6 DEF NoticeInv

LEMMA NextNotice == NoticeInv /\ TypeOK' /\ [Next]_vars => NoticeInv'
<1> SUFFICES ASSUME NoticeInv, TypeOK', [Next]_vars PROVE NoticeInv'
  OBVIOUS
<1>1. CASE \E c \in Caller : Break(c) \/ Alarm(c)
  BY <1>1, BreakNotice, AlarmNotice
<1>2. CASE \E c \in Caller : Check(c)
  <2>1. PICK c \in Caller : Check(c)
    BY <1>2
  <2>2. /\ UNCHANGED <<audits, alarms, noticeDay>> /\ day' = day
        /\ pc' = [pc EXCEPT ![c] = IF OverCircuit(rows[day])
                                     THEN "breaking" ELSE "calling"]
    BY <2>1 DEF Check, Goto
  <2>3. /\ \A d \in Caller : pc'[d] = "alarming" => pc[d] = "alarming"
        /\ \A d \in Caller : pc'[d] = "breaking" =>
                              pc[d] = "breaking" \/ OverCircuit(rows[day])
    BY <2>2 DEF NoticeInv, TypeOK
  <2>4. day' >= day
    BY <2>2 DEF NoticeInv, TypeOK, Day
  <2> QED BY <2>2, <2>3, <2>4, NoticesKept
<1>3. CASE \E c \in Caller : Attempt(c) \/ Log(c) \/ LogFails(c)
  <2>1. PICK c \in Caller : Attempt(c) \/ Log(c) \/ LogFails(c)
    BY <1>3
  <2>2. /\ UNCHANGED <<audits, alarms, noticeDay>> /\ day' = day
        /\ \E s \in {"calling", "logging", "idle"} : pc' = [pc EXCEPT ![c] = s]
    BY <2>1 DEF Attempt, Log, LogFails, Done, Goto
  <2>3. /\ \A d \in Caller : pc'[d] = "alarming" => pc[d] = "alarming"
        /\ \A d \in Caller : pc'[d] = "breaking" =>
                              pc[d] = "breaking" \/ OverCircuit(rows[day])
    BY <2>2 DEF NoticeInv, TypeOK
  <2>4. day' >= day
    BY <2>2 DEF NoticeInv, TypeOK, Day
  <2> QED BY <2>2, <2>3, <2>4, NoticesKept
<1>4. CASE Batch \/ Crash \/ Midnight \/ Rest \/ UNCHANGED vars
  <2>1. UNCHANGED <<audits, alarms, noticeDay>>
    BY <1>4 DEF Batch, Crash, Midnight, Rest, vars
  <2>2. day' >= day
    BY <1>4 DEF Batch, Crash, Midnight, Rest, vars, NoticeInv, TypeOK, Day
  <2>3. pc' = pc \/ pc' = [c \in Caller |-> "idle"]
    BY <1>4 DEF Batch, Crash, Midnight, Rest, vars
  <2> QED BY <2>1, <2>2, <2>3, NoticesKept
<1> QED BY <1>1, <1>2, <1>3, <1>4 DEF Next

LEMMA InitNotice == Init => NoticeInv
<1> SUFFICES ASSUME Init PROVE NoticeInv
  OBVIOUS
<1>1. TypeOK
  BY InitCalls
<1>2. ASSUME NEW d \in Day
      PROVE  Announcing(d) = {} /\ alarms[d] = 0 /\ audits[d] = 0
  BY DEF Init, Announcing
<1>3. Announcements
  BY <1>2 DEF Announcements, Init
<1>4. AnnouncedOnce
  BY <1>2, FS_EmptySet DEF AnnouncedOnce, Announcing
<1> QED BY <1>1, <1>3, <1>4 DEF NoticeInv

\* Each day is announced at most once, whichever threads are refused, and
\* never before a cap was reached.
THEOREM NoticesHold == Spec => []AnnouncedOnce
<1>1. NoticeInv /\ TypeOK' /\ [Next]_vars => NoticeInv'
  BY NextNotice
<1>2. NoticeInv => AnnouncedOnce
  BY DEF NoticeInv
<1> QED BY InitNotice, <1>1, <1>2, TypeCorrect, PTL DEF Spec

=============================================================================
