----------------------------- MODULE AdminProofs -----------------------------
(***************************************************************************)
(* Theorems about what the operator changes while programs of the crontab  *)
(* write it too: the links entry, for any number of overlapping requests   *)
(* of the operator and any set of templates (LinkStatus), and the pool of  *)
(* dishes, for any finite set of items and any number of batches           *)
(* (DishPool).                                                             *)
(***************************************************************************)
EXTENDS LinkStatus, DishPool, FiniteSetTheorems, TLAPS

----------------------------------------------------------------------------
(* The links entry.                                                        *)

LEMMA InitTypes == Init => TypeOK
<1>1. Absent \in Entry
  BY DEF Entry
<1>2. Init => works \subseteq Template
  BY LinkAssumption DEF Init
<1>3. Init => changes \in 0 .. MaxChanges /\ shifts \in 0 .. MaxShifts
              /\ noise \in 0 .. MaxNoise
  BY LinkAssumption DEF Init
<1> QED BY <1>1, <1>2, <1>3 DEF Init, TypeOK

\* Every entry the probe or a way back writes is one.
LEMMA FlippedType ==
  ASSUME NEW e \in Entry, NEW c, Verdict(e, c) # "same"
  PROVE  Flipped(e, Verdict(e, c)) \in Entry
<1>1. Verdict(e, c) \in {"dead", "ok"}
  BY DEF Verdict
<1>2. e.tpl \in Template \cup {NoTemplate}
  BY DEF Entry, Absent, Null
<1> QED BY <1>1, <1>2 DEF Flipped, Entry

LEMMA ToldType ==
  ASSUME NEW e \in Entry, NEW t \in Entry, NEW c, Verdict(e, c) # "same"
  PROVE  /\ [t EXCEPT !.status = Verdict(e, c)]
                = [status |-> Verdict(e, c), tpl |-> t.tpl]
         /\ [t EXCEPT !.status = Verdict(e, c)] \in Entry
<1>1. Verdict(e, c) \in {"dead", "ok"}
  BY DEF Verdict
<1>2. t.tpl \in Template \cup {NoTemplate}
  BY DEF Entry, Absent, Null
<1>3. [t EXCEPT !.status = Verdict(e, c)]
        = [status |-> Verdict(e, c), tpl |-> t.tpl]
  BY DEF Entry, Absent, Null
<1> QED BY <1>1, <1>2, <1>3 DEF Entry

LEMMA NextTypes == TypeOK /\ [Next]_vars => TypeOK'
<1> SUFFICES ASSUME TypeOK, [Next]_vars PROVE TypeOK'
  OBVIOUS
<1> USE LinkAssumption DEF TypeOK, Tell, Enter
<1>0. Absent \in Entry /\ Null \in Entry /\ DefaultEntry \in Entry /\ Valid \subseteq Entry
  BY DEF Entry, Valid, DefaultEntry
<1>1. CASE Ensure
  BY <1>0, <1>1 DEF Ensure, probe, admin, platform
<1>2. CASE ProbeRead
  BY <1>0, <1>2 DEF ProbeRead, admin, platform
<1>3. CASE ProbeCommit
  <2>1. row' \in Entry /\ told' \in Entry
    <3>1. CASE Verdict(snap, saw) = "same"
      BY <1>3, <3>1 DEF ProbeCommit
    <3>2. CASE Verdict(snap, saw) # "same"
      <4>1. /\ row' = Flipped(snap, Verdict(snap, saw))
            /\ told' \in {Absent, [told EXCEPT !.status = Verdict(snap, saw)]}
        BY <1>3, <3>2 DEF ProbeCommit
      <4>2. [told EXCEPT !.status = Verdict(snap, saw)] \in Entry
        BY <3>2, ToldType
      <4>3. Flipped(snap, Verdict(snap, saw)) \in Entry
        BY <3>2, FlippedType
      <4> QED BY <1>0, <4>1, <4>2, <4>3
    <3> QED BY <3>1, <3>2
  <2> QED BY <1>0, <1>3, <2>1 DEF ProbeCommit, ProbeOver, admin, platform
<1>4. CASE ProbeNoVerdict
  <2>1. noise' \in 0 .. MaxNoise
    BY <1>4 DEF ProbeNoVerdict
  <2>2. UNCHANGED <<row, told, pc, wanted, before, changes, works, shifts,
                    disturbed>>
    BY <1>4 DEF ProbeNoVerdict, admin
  <2> QED BY <1>0, <1>4, <2>1, <2>2 DEF ProbeNoVerdict, ProbeOver
<1>5. CASE Shift
  BY <1>5 DEF Shift, probe, admin
<1>6. ASSUME NEW a \in Admin, Begin(a) PROVE TypeOK'
  BY <1>0, <1>6 DEF Begin, Goto, probe, platform
<1>7. ASSUME NEW a \in Admin, Set(a), wanted[a] \in Entry PROVE TypeOK'
  BY <1>7 DEF Set, Goto, probe, platform
<1>8. ASSUME NEW a \in Admin, Approve(a), wanted[a] \in Entry PROVE TypeOK'
  BY <1>0, <1>8 DEF Approve, Done, Goto, probe, platform
<1>9. ASSUME NEW a \in Admin, RollBack(a) PROVE TypeOK'
  BY <1>0, <1>9 DEF RollBack, WayBack, WayBackOf, Goto, probe, platform
<1>10. ASSUME NEW a \in Admin, NoteRollBack(a) PROVE TypeOK'
  BY <1>0, <1>10 DEF NoteRollBack, WayBackOf, Done, Goto, probe, platform
<1>11. ASSUME NEW a \in Admin, Crash(a) PROVE TypeOK'
  BY <1>0, <1>11 DEF Crash, Done, Goto, probe, platform
<1>12. CASE UNCHANGED vars
  BY <1>12 DEF vars
<1>13. \A a \in Admin : wanted[a] \in Entry
  BY <1>0
<1>14. CASE ProbeLook
  BY <1>14 DEF ProbeLook, admin, platform
<1> QED BY <1>1, <1>2, <1>3, <1>4, <1>5, <1>6, <1>7, <1>8, <1>9, <1>10,
           <1>11, <1>12, <1>13, <1>14 DEF Next

\* Every state has its type.
THEOREM TypeCorrect == Spec => []TypeOK
BY InitTypes, NextTypes, PTL DEF Spec

----------------------------------------------------------------------------
(* The audit trail.                                                        *)

\* The writer that has the entry.
Working(a) == pc[a] # "idle"

\* While the writers take turns there is one at most: the probe still has the
\* entry as it is; a request has written the value it was sent, or the one it
\* goes back to; and apart from that the trail tells the entry.
Turns ==
  ~disturbed =>
    /\ probing => snap = row /\ row = told /\ \A a \in Admin : ~Working(a)
    /\ \A a, b \in Admin : Working(a) /\ Working(b) => a = b
    /\ \A a \in Admin :
         /\ pc[a] = "set" => row = told
         /\ pc[a] = "smoke" => row = wanted[a]
         /\ pc[a] = "note" => row = WayBackOf(before[a])
    /\ ~Busy => row = told

LinkInv == TypeOK /\ Turns

LEMMA InitLinks == Init => Turns
BY DEF Init, Turns, Busy, Working

LEMMA NextLinks == LinkInv /\ [Next]_vars => Turns'
<1> SUFFICES ASSUME LinkInv, [Next]_vars, ~disturbed' PROVE Turns'
  BY DEF Turns
<1> USE DEF LinkInv, TypeOK, Tell, Enter
<1>0. \A e, t \in Entry, c \in {"none", "red", "green"} :
        e = t /\ Verdict(e, c) # "same"
          => Flipped(e, Verdict(e, c)) = [t EXCEPT !.status = Verdict(e, c)]
  BY ToldType DEF Flipped
<1>1. CASE Ensure
  BY <1>1 DEF Ensure, Turns, Busy, Working, probe, admin
<1>2. CASE ProbeRead
  BY <1>2 DEF ProbeRead, Turns, Busy, Working, admin
<1>3. CASE ProbeCommit
  <2>1. ~disturbed /\ snap = row /\ row = told /\ \A a \in Admin : ~Working(a)
    BY <1>3 DEF ProbeCommit, Turns
  <2>2. row' = told'
    BY <1>0, <1>3, <2>1 DEF ProbeCommit
  <2> QED BY <1>3, <2>1, <2>2
          DEF ProbeCommit, ProbeOver, Turns, Busy, Working, admin
<1>4. CASE ProbeNoVerdict
  BY <1>4 DEF ProbeNoVerdict, ProbeOver, Turns, Busy, Working, admin
<1>5. CASE Shift
  BY <1>5 DEF Shift, Turns, Busy, Working, probe, admin
<1>6. ASSUME NEW a \in Admin, Begin(a) PROVE Turns'
  BY <1>6 DEF Begin, Goto, Turns, Busy, Working, probe
<1>7. ASSUME NEW a \in Admin, Set(a) PROVE Turns'
  BY <1>7 DEF Set, Goto, Turns, Busy, Working, probe
<1>8. ASSUME NEW a \in Admin, Approve(a) PROVE Turns'
  BY <1>8 DEF Approve, Done, Goto, Turns, Busy, Working, probe
<1>9. ASSUME NEW a \in Admin, RollBack(a) PROVE Turns'
  BY <1>9 DEF RollBack, WayBack, Goto, Turns, Busy, Working, probe
<1>10. ASSUME NEW a \in Admin, NoteRollBack(a) PROVE Turns'
  BY <1>10 DEF NoteRollBack, Done, Goto, Turns, Busy, Working, probe
<1>11. ASSUME NEW a \in Admin, Crash(a) PROVE Turns'
  BY <1>11 DEF Crash
<1>12. CASE UNCHANGED vars
  BY <1>12 DEF vars, Turns, Busy, Working
<1>13. CASE ProbeLook
  BY <1>13 DEF ProbeLook, Turns, Busy, Working, admin
<1> QED BY <1>1, <1>2, <1>3, <1>4, <1>5, <1>6, <1>7, <1>8, <1>9, <1>10,
           <1>11, <1>12, <1>13 DEF Next

LEMMA LinkInvariant == Spec => []LinkInv
<1>1. Init => LinkInv
  BY InitTypes, InitLinks DEF LinkInv
<1>2. LinkInv /\ [Next]_vars => LinkInv'
  BY NextTypes, NextLinks DEF LinkInv
<1> QED BY <1>1, <1>2, PTL DEF Spec

\* As long as the probe and the requests of the operator do not overlap, the
\* audit trail tells the entry.
THEOREM AuditTells == Spec => []AuditTellsEntry
<1>1. LinkInv => AuditTellsEntry
  BY DEF LinkInv, Turns, AuditTellsEntry
<1> QED BY <1>1, LinkInvariant, PTL

----------------------------------------------------------------------------
(* The pool.                                                               *)

\* The types without the range of the count.
Types ==
  /\ status \in [Batch -> {"none", "running", "staged", "active"}]
  /\ todo \in [Batch -> SUBSET Item]
  /\ items_out \in [Batch -> Nat]
  /\ owner \in [Item -> Batch \cup {NoBatch}]
  /\ active \subseteq Item /\ alive \subseteq Batch
  /\ shown \in Batch \cup {NoBatch} /\ whole \in BOOLEAN

\* A batch that runs or is shown has been started, and one shown whole will
\* not produce again.
Started ==
  /\ \A b \in alive : status[b] # "none"
  /\ shown # NoBatch => status[shown] # "none"
  /\ whole => shown # NoBatch /\ shown \notin alive

\* The count of every batch, the one part of PoolIsOneBatch about numbers.
Counted == \A b \in Batch : items_out[b] = Cardinality(Rows(b))

PoolInv == Types /\ Started /\ PoolIsOneBatch

LEMMA RowsFinite ==
  ASSUME NEW b
  PROVE  /\ IsFiniteSet(Rows(b)) /\ Cardinality(Rows(b)) \in Nat
         /\ Cardinality(Rows(b)) <= Cardinality(Item)
<1>1. Rows(b) \in SUBSET Item
  BY DEF Rows
<1> QED BY <1>1, PoolAssumption, FS_Subset, FS_CardinalityType

LEMMA PoolInvInit == PoolInit => PoolInv
<1> SUFFICES ASSUME PoolInit PROVE PoolInv
  OBVIOUS
<1>1. Types /\ Started
  BY DEF PoolInit, Types, Started
<1>2. \A b \in Batch : Rows(b) = {}
  BY PoolAssumption DEF PoolInit, Rows
<1>3. PoolIsOneBatch
  BY <1>2, FS_EmptySet DEF PoolInit, PoolIsOneBatch
<1> QED BY <1>1, <1>3 DEF PoolInv

\* The steps that touch no row.
LEMMA RowsKept ==
  ASSUME PoolIsOneBatch, UNCHANGED <<items_out, owner, active, last>>
  PROVE  PoolIsOneBatch'
BY DEF PoolIsOneBatch, Rows, last

\* INSERT OR IGNORE: the row belongs to the batch and to no other.
LEMMA InsertKeeps ==
  ASSUME PoolInv, NEW b \in alive, NEW i \in Item,
         Inserted(b, i), UNCHANGED last
  PROVE  /\ PoolIsOneBatch'
         /\ items_out' \in [Batch -> Nat]
         /\ owner' \in [Item -> Batch \cup {NoBatch}]
         /\ UNCHANGED active
<1> USE DEF PoolInv
<1>0. b \in Batch /\ b # NoBatch
  BY PoolAssumption DEF Types
<1>1. CASE owner[i] # NoBatch
  <2>1. UNCHANGED <<items_out, owner, active, last>>
    BY <1>1 DEF Inserted
  <2> QED BY <2>1, RowsKept DEF Types
<1>2. CASE owner[i] = NoBatch
  <2>1. /\ owner' = [owner EXCEPT ![i] = b]
        /\ items_out' = [items_out EXCEPT ![b] = @ + 1]
        /\ UNCHANGED active
    BY <1>2 DEF Inserted
  <2>2. i \notin Rows(b) /\ Rows(b)' = Rows(b) \cup {i}
    BY <1>0, <1>2, <2>1 DEF Rows, Types
  <2>3. \A c \in Batch \ {b} : Rows(c)' = Rows(c)
    BY <1>0, <1>2, <2>1, PoolAssumption DEF Rows, Types
  <2>4. Cardinality(Rows(b)') = Cardinality(Rows(b)) + 1
    BY <2>2, RowsFinite, FS_AddElement
  <2>5. Counted'
    <3> SUFFICES ASSUME NEW c \in Batch
                 PROVE  items_out'[c] = Cardinality(Rows(c)')
      BY DEF Counted
    <3>1. items_out[c] = Cardinality(Rows(c))
      BY DEF PoolIsOneBatch
    <3> QED BY <1>0, <2>1, <2>3, <2>4, <3>1 DEF Types
  <2>6. active \subseteq Rows(shown)'
    <3>1. CASE shown = NoBatch
      BY <3>1 DEF PoolIsOneBatch
    <3>2. CASE shown # NoBatch
      <4>1. Rows(shown) \subseteq Rows(shown)'
        BY <2>2, <2>3, <3>2 DEF Types, last
      <4> QED BY <4>1 DEF PoolIsOneBatch
    <3> QED BY <3>1, <3>2
  <2>7. whole => active = Rows(shown)'
    <3>1. whole => shown \in Batch \ {b}
      BY DEF Started, Types
    <3> QED BY <2>3, <3>1 DEF PoolIsOneBatch, last
  <2> QED BY <2>1, <2>5, <2>6, <2>7 DEF PoolIsOneBatch, Counted, Types, last, Rows
<1> QED BY <1>1, <1>2

LEMMA PoolInvNext == PoolInv /\ [PoolNext]_pool => PoolInv'
<1> SUFFICES ASSUME PoolInv, [PoolNext]_pool PROVE PoolInv'
  OBVIOUS
<1> USE DEF PoolInv
<1>1. ASSUME NEW b \in Batch, Start(b) PROVE PoolInv'
  <2>1. Types'
    BY <1>1 DEF Start, Types, last
  <2>2. Started'
    BY <1>1 DEF Start, Started, Types, last
  <2> QED BY <1>1, <2>1, <2>2, RowsKept DEF Start
<1>2. ASSUME NEW b \in Batch, Produce(b) PROVE PoolInv'
  <2>1. PICK i \in todo[b] : /\ todo' = [todo EXCEPT ![b] = @ \ {i}]
                             /\ Inserted(b, i)
    BY <1>2 DEF Produce
  <2>2. b \in alive /\ i \in Item /\ UNCHANGED <<status, alive, last>>
    BY <1>2, <2>1 DEF Produce, Types
  <2>3. /\ PoolIsOneBatch'
        /\ items_out' \in [Batch -> Nat]
        /\ owner' \in [Item -> Batch \cup {NoBatch}]
        /\ UNCHANGED active
    BY <2>1, <2>2, InsertKeeps
  <2>4. Types'
    BY <2>1, <2>2, <2>3 DEF Types, last
  <2>5. Started'
    BY <2>2 DEF Started, last
  <2> QED BY <2>3, <2>4, <2>5
<1>3. ASSUME NEW b \in Batch, Finish(b) PROVE PoolInv'
  <2>1. Types' /\ Started'
    BY <1>3 DEF Finish, Types, Started, last
  <2> QED BY <1>3, <2>1, RowsKept DEF Finish
<1>4. ASSUME NEW b \in Batch, PoolCrash(b) PROVE PoolInv'
  <2>1. Types' /\ Started'
    BY <1>4 DEF PoolCrash, Types, Started, last
  <2> QED BY <1>4, <2>1, RowsKept DEF PoolCrash
<1>5. ASSUME NEW b \in Batch, Activate(b) PROVE PoolInv'
  <2>1. active' = Rows(b) /\ shown' = b /\ UNCHANGED <<owner, items_out, alive>>
    BY <1>5 DEF Activate, Shown
  <2>2. active' = Rows(shown)'
    BY <2>1 DEF Rows
  <2>3. PoolIsOneBatch'
    BY <2>1, <2>2, PoolAssumption DEF PoolIsOneBatch, Rows
  <2>4. Types'
    BY <1>5 DEF Activate, Shown, Rows, Types
  <2>5. Started'
    BY <1>5, PoolAssumption DEF Activate, Started, Types
  <2> QED BY <2>3, <2>4, <2>5
<1>6. CASE UNCHANGED pool
  BY <1>6, RowsKept DEF pool, Types, Started, last
<1> QED BY <1>1, <1>2, <1>3, <1>4, <1>5, <1>6 DEF PoolNext

LEMMA PoolInvariant == PoolSpec => []PoolInv
BY PoolInvInit, PoolInvNext, PTL DEF PoolSpec

\* Every state has its type; a batch counts no more rows than there are
\* items.
THEOREM PoolTypeCorrect == PoolSpec => []PoolTypeOK
<1>1. PoolInv => PoolTypeOK
  <2> SUFFICES ASSUME PoolInv PROVE PoolTypeOK
    OBVIOUS
  <2>1. \A b \in Batch : items_out[b] \in 0 .. Cardinality(Item)
    BY RowsFinite, PoolAssumption, FS_CardinalityType
       DEF PoolInv, PoolIsOneBatch
  <2> QED BY <2>1 DEF PoolInv, Types, PoolTypeOK
<1> QED BY <1>1, PoolInvariant, PTL

\* However batches overlap, crash and are activated, the users see rows of
\* one batch, and a batch has the rows it counted.
THEOREM PoolIsOne == PoolSpec => []PoolIsOneBatch
<1>1. PoolInv => PoolIsOneBatch
  BY DEF PoolInv
<1> QED BY <1>1, PoolInvariant, PTL
=============================================================================
