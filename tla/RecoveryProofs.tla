---------------------------- MODULE RecoveryProofs ----------------------------
(***************************************************************************)
(* Theorems about Recovery for any number of devices and codes and every   *)
(* limit.                                                                  *)
(***************************************************************************)
EXTENDS Recovery, TLAPS

\* Forgetting a request keeps the types.
LEMMA FinishTyped ==
  ASSUME RecoveryTypeOK, NEW d \in Device, Answered(d)
  PROVE  /\ doing' \in [Device -> {"idle", "verify"}]
         /\ try' \in [Device -> Code \cup {NoCode}]
         /\ seen' \in [Device -> [code : Code \cup {NoCode}, count : Nat]]
         /\ sent' \in Nat /\ overlapped' \in BOOLEAN
BY DEF Answered, RecoveryTypeOK, NoRow

\* Every step of a device's request keeps the types.
LEMMA StepTyped ==
  ASSUME RecoveryTypeOK, NEW d \in Device, Step(d)
  PROVE  RecoveryTypeOK'
<1>1. CASE Bootstrap(d) \/ SetPasscode(d) \/ Clear(d)
  <2>1. UNCHANGED <<doing, try, seen>> /\ exists' \in BOOLEAN
    BY <1>1 DEF Bootstrap, SetPasscode, Clear
  <2>2. /\ code' \in Code \cup {NoCode} /\ count' \in Nat /\ streak' \in Nat /\ wrong' \in Nat
        /\ lock' \in {"none", "running", "over"} /\ sent' \in Nat
        /\ overlapped' \in BOOLEAN
    <3>1. overlapped' \in BOOLEAN
      BY <1>1, ZenonT(20) DEF Bootstrap, SetPasscode, Clear, Receive
    <3> QED BY <1>1, <3>1
            DEF Bootstrap, SetPasscode, Clear, Receive, ResetCount, Reset,
                RecoveryTypeOK
  <2> QED BY <2>1, <2>2 DEF RecoveryTypeOK
<1>2. CASE RecoverRead(d)
  <2>1. CASE Refused
    BY <1>2, <2>1 DEF RecoverRead, Receive, RecoveryTypeOK, identity
  <2>2. CASE ~Refused
    <3>1. PICK c \in Code : try' = [try EXCEPT ![d] = c]
      BY <1>2, <2>2 DEF RecoverRead
    <3>2. /\ seen' = [seen EXCEPT ![d] = [code |-> code, count |-> count]]
          /\ doing' = [doing EXCEPT ![d] = "verify"]
      BY <1>2, <2>2 DEF RecoverRead
    <3>3. /\ UNCHANGED <<exists, code, count, lock, streak, wrong>>
          /\ sent' \in Nat /\ overlapped' \in BOOLEAN
      BY <1>2 DEF RecoverRead, Receive, RecoveryTypeOK, identity
    <3> QED BY <3>1, <3>2, <3>3 DEF RecoveryTypeOK
  <2> QED BY <2>1, <2>2
<1>3. CASE RecoverOk(d)
  BY <1>3, FinishTyped DEF RecoverOk, Reset, RecoveryTypeOK
<1>4. CASE RecoverWrong(d)
  <2>1. NewCount(d) \in Nat /\ LockFor(NewCount(d)) \in {"none", "running"}
    BY DEF NewCount, LockFor, RecoveryTypeOK
  <2>2. /\ count' \in Nat /\ lock' \in {"none", "running", "over"}
        /\ streak' \in Nat /\ wrong' \in Nat
    BY <1>4, <2>1 DEF RecoverWrong, RecoveryTypeOK
  <2> QED BY <1>4, <2>2, FinishTyped DEF RecoverWrong, RecoveryTypeOK
<1>5. CASE Lose(d)
  BY <1>5, FinishTyped DEF Lose, RecoveryTypeOK, identity
<1> QED BY <1>1, <1>2, <1>3, <1>4, <1>5 DEF Step

\* Every variable keeps its type.
THEOREM TypeCorrect == RecoverySpec => []RecoveryTypeOK
<1>1. RecoveryInit => RecoveryTypeOK
  <2> SUFFICES ASSUME RecoveryInit PROVE RecoveryTypeOK
    OBVIOUS
  <2>1. seen \in [Device -> [code : Code \cup {NoCode}, count : Nat]]
    BY DEF RecoveryInit, NoRow
  <2>2. /\ doing \in [Device -> {"idle", "verify"}]
        /\ try \in [Device -> Code \cup {NoCode}]
    BY DEF RecoveryInit
  <2>3. exists \in BOOLEAN
    BY DEF RecoveryInit
  <2> QED BY <2>1, <2>2, <2>3 DEF RecoveryInit, RecoveryTypeOK
<1>2. RecoveryTypeOK /\ [RecoveryNext]_recovery => RecoveryTypeOK'
  <2> SUFFICES ASSUME RecoveryTypeOK, [RecoveryNext]_recovery PROVE RecoveryTypeOK'
    OBVIOUS
  <2>1. CASE UNCHANGED recovery \/ Rest
    BY <2>1 DEF recovery, Rest, RecoveryTypeOK
  <2>2. CASE LockRunsOut
    BY <2>2 DEF LockRunsOut, RecoveryTypeOK
  <2> QED BY <2>1, <2>2, StepTyped DEF RecoveryNext
<1> QED BY <1>1, <1>2, PTL DEF RecoverySpec

----------------------------------------------------------------------------
(* Counting.  A count that is written is one more than one that was read,  *)
(* perhaps long ago, so what bounds the row's count must also bound the    *)
(* counts the requests in flight have read.                                *)

CountInv ==
  /\ LockIsCounted
  /\ count <= wrong
  /\ \A d \in Device : /\ seen[d].count <= wrong
                       /\ doing[d] = "idle" => seen[d].count = 0

\* A step that leaves the counts alone keeps the invariant.
LEMMA CountsUntouched ==
  ASSUME CountInv, UNCHANGED <<count, lock, wrong, seen, doing>>
  PROVE  CountInv'
BY DEF CountInv, LockIsCounted

\* A request that ends forgets its row, and the others keep theirs.
LEMMA FinishCounts ==
  ASSUME RecoveryTypeOK, CountInv, NEW d \in Device, Answered(d), NEW e \in Device
  PROVE  /\ seen'[e].count \in Nat /\ seen'[e].count <= wrong
         /\ doing'[e] = "idle" => seen'[e].count = 0
         /\ (\A g \in Device \ {d} : doing[g] = "idle") => seen'[e].count = 0
<1>1. CASE e = d
  BY <1>1 DEF Answered, NoRow, CountInv, RecoveryTypeOK
<1>2. CASE e # d
  BY <1>2 DEF Answered, CountInv, RecoveryTypeOK
<1> QED BY <1>1, <1>2

\* Every step of a device's request keeps the counts in bounds.
LEMMA StepCounts ==
  ASSUME RecoveryTypeOK, CountInv, NEW d \in Device, Step(d)
  PROVE  CountInv'
<1> USE RecoveryAssumption
<1>1. CASE Bootstrap(d)
  BY <1>1, CountsUntouched DEF Bootstrap
<1>2. CASE SetPasscode(d) \/ Clear(d)
  <2>1. /\ count' = 0 /\ lock' = "none" /\ Reset(d) /\ doing[d] = "idle"
        /\ UNCHANGED <<doing, seen>>
    BY <1>2 DEF SetPasscode, Clear, ResetCount, Receive
  <2>2. ASSUME NEW e \in Device PROVE seen[e].count <= wrong'
    <3>1. CASE \A g \in Device \ {d} : doing[g] = "idle"
      BY <2>1, <3>1 DEF Reset, CountInv
    <3>2. CASE ~(\A g \in Device \ {d} : doing[g] = "idle")
      BY <2>1, <3>2 DEF Reset, CountInv
    <3> QED BY <3>1, <3>2
  <2>3. 0 <= wrong'
    BY <2>1 DEF Reset, RecoveryTypeOK
  <2> QED BY <2>1, <2>2, <2>3 DEF CountInv, LockIsCounted
<1>3. CASE RecoverRead(d)
  <2>1. UNCHANGED <<count, lock, wrong>>
    BY <1>3 DEF RecoverRead, identity
  <2>2. ASSUME NEW e \in Device
        PROVE  /\ seen'[e].count <= wrong
               /\ doing'[e] = "idle" => seen'[e].count = 0
    BY <1>3, <2>2 DEF RecoverRead, CountInv, RecoveryTypeOK
  <2> QED BY <2>1, <2>2 DEF CountInv, LockIsCounted
<1>4. CASE RecoverOk(d)
  <2>1. count' = 0 /\ lock' = "none" /\ Reset(d) /\ Answered(d)
    BY <1>4 DEF RecoverOk
  <2>2. ASSUME NEW e \in Device
        PROVE  /\ seen'[e].count <= wrong'
               /\ doing'[e] = "idle" => seen'[e].count = 0
    <3>1. CASE \A g \in Device \ {d} : doing[g] = "idle"
      BY <2>1, <3>1, FinishCounts DEF Reset
    <3>2. CASE ~(\A g \in Device \ {d} : doing[g] = "idle")
      BY <2>1, <3>2, FinishCounts DEF Reset
    <3> QED BY <3>1, <3>2
  <2>3. 0 <= wrong'
    BY <2>1 DEF Reset, RecoveryTypeOK
  <2> QED BY <2>1, <2>2, <2>3 DEF CountInv, LockIsCounted
<1>5. CASE RecoverWrong(d)
  <2>1. wrong \in Nat /\ Answered(d)
    BY <1>5 DEF RecoverWrong, RecoveryTypeOK
  <2>2. wrong <= wrong'
    BY <1>5, <2>1 DEF RecoverWrong
  <2>3. wrong' \in Nat
    BY <1>5, <2>1 DEF RecoverWrong
  <2>4. ASSUME NEW e \in Device
        PROVE  /\ seen'[e].count <= wrong'
               /\ doing'[e] = "idle" => seen'[e].count = 0
    <3>1. /\ seen'[e].count \in Nat /\ seen'[e].count <= wrong
          /\ doing'[e] = "idle" => seen'[e].count = 0
      BY <2>1, FinishCounts
    <3> QED BY <2>1, <2>2, <2>3, <3>1
  <2>5. CASE exists
    <3>1. /\ count' = seen[d].count + 1 /\ seen[d].count \in Nat
          /\ lock' = IF count' >= Limit THEN "running" ELSE "none"
          /\ wrong' = wrong + 1
      BY <1>5, <2>5 DEF RecoverWrong, NewCount, LockFor, RecoveryTypeOK
    <3>2. count' <= wrong'
      BY <2>1, <3>1 DEF CountInv
    <3> QED BY <2>4, <3>1, <3>2 DEF CountInv, LockIsCounted
  <2>6. CASE ~exists
    <3>1. count' = count /\ lock' = lock /\ wrong' = wrong
      BY <1>5, <2>6 DEF RecoverWrong
    <3> QED BY <2>4, <3>1 DEF CountInv, LockIsCounted
  <2> QED BY <2>5, <2>6
<1>6. CASE Lose(d)
  <2>1. UNCHANGED <<count, lock, wrong>> /\ Answered(d)
    BY <1>6 DEF Lose, identity
  <2> QED BY <2>1, FinishCounts DEF CountInv, LockIsCounted
<1> QED BY <1>1, <1>2, <1>3, <1>4, <1>5, <1>6 DEF Step

\* The counts are in bounds in every behaviour.
THEOREM CountInvariant == RecoverySpec => []CountInv
<1>1. RecoveryInit => CountInv
  BY RecoveryAssumption DEF RecoveryInit, CountInv, LockIsCounted, NoRow
<1>2. RecoveryTypeOK /\ CountInv /\ [RecoveryNext]_recovery => CountInv'
  <2> SUFFICES ASSUME RecoveryTypeOK, CountInv, [RecoveryNext]_recovery PROVE CountInv'
    OBVIOUS
  <2>1. CASE UNCHANGED recovery \/ Rest
    BY <2>1, CountsUntouched DEF recovery, Rest
  <2>2. CASE LockRunsOut
    BY <2>2 DEF LockRunsOut, CountInv, LockIsCounted
  <2> QED BY <2>1, <2>2, StepCounts DEF RecoveryNext
<1> QED BY <1>1, <1>2, TypeCorrect, PTL DEF RecoverySpec

\* Count and lock agree under any interleaving.
THEOREM CountAndLockAgree == RecoverySpec => []LockIsCounted
<1>1. CountInv => LockIsCounted
  BY DEF CountInv
<1> QED BY <1>1, CountInvariant, PTL

\* No identity is locked by fewer wrong codes than the limit, written since the
\* last reset that crossed no other try.
THEOREM NoEarlyLock == RecoverySpec => []NeverLocksEarly
<1>1. RecoveryTypeOK /\ CountInv => NeverLocksEarly
  BY RecoveryAssumption
     DEF RecoveryTypeOK, CountInv, LockIsCounted, NeverLocksEarly
<1> QED BY <1>1, TypeCorrect, CountInvariant, PTL

----------------------------------------------------------------------------
(* Requests that do not overlap.  Then at most one request holds a row, and *)
(* that row is still as it was read.                                        *)

SerialInv ==
  ~overlapped =>
    /\ count = streak
    /\ \A d \in Device : doing[d] = "verify" => exists /\ seen[d].count = count
    /\ \A d, e \in Device : doing[d] = "verify" /\ doing[e] = "verify" => d = e

\* A device whose request ends leaves the others as they are.
LEMMA FinishSerial ==
  ASSUME RecoveryTypeOK, SerialInv, ~overlapped, NEW d \in Device, doing[d] = "verify",
         Answered(d)
  PROVE  \A e \in Device : doing'[e] = "idle"
BY DEF Answered, SerialInv, RecoveryTypeOK

\* Every step of a device's request keeps the count consecutive.
LEMMA StepSerial ==
  ASSUME RecoveryTypeOK, SerialInv, NEW d \in Device, Step(d)
  PROVE  SerialInv'
<1> SUFFICES ASSUME ~overlapped'
             PROVE  /\ count' = streak'
                    /\ \A e \in Device : doing'[e] = "verify" =>
                         exists' /\ seen'[e].count = count'
                    /\ \A e, g \in Device :
                         doing'[e] = "verify" /\ doing'[g] = "verify" => e = g
  BY DEF SerialInv
<1>1. ~overlapped
  BY DEF Step, Bootstrap, SetPasscode, Clear, RecoverRead, RecoverOk,
         RecoverWrong, Lose, Receive, Answered
<1>2. count = streak
  BY <1>1 DEF SerialInv
<1>3. ASSUME Receive(d) PROVE \A e \in Device : doing[e] = "idle"
  BY <1>3 DEF Receive
<1>4. CASE Bootstrap(d) \/ SetPasscode(d) \/ Clear(d)
  <2>1. \A e \in Device : doing'[e] = "idle"
    BY <1>3, <1>4 DEF Bootstrap, SetPasscode, Clear
  <2>2. count' = streak'
    BY <1>2, <1>4 DEF Bootstrap, SetPasscode, Clear, ResetCount, Reset
  <2> QED BY <2>1, <2>2
<1>5. CASE RecoverRead(d)
  <2>1. /\ \A e \in Device : doing[e] = "idle"
        /\ UNCHANGED <<exists, count, streak>>
    BY <1>3, <1>5 DEF RecoverRead, identity
  <2>2. CASE Refused
    BY <1>2, <1>5, <2>1, <2>2 DEF RecoverRead
  <2>3. CASE ~Refused
    <3>1. /\ seen' = [seen EXCEPT ![d] = [code |-> code, count |-> count]]
          /\ doing' = [doing EXCEPT ![d] = "verify"] /\ exists
      BY <1>5, <2>3 DEF RecoverRead, Refused, RecoveryTypeOK
    <3>2. \A e \in Device : e # d => doing'[e] = "idle"
      BY <2>1, <3>1 DEF RecoveryTypeOK
    <3>3. seen'[d].count = count
      BY <3>1 DEF RecoveryTypeOK
    <3> QED BY <1>2, <2>1, <3>1, <3>2, <3>3
  <2> QED BY <2>2, <2>3
<1>6. CASE RecoverOk(d)
  BY <1>1, <1>6, FinishSerial DEF RecoverOk, Reset
<1>7. CASE RecoverWrong(d)
  <2>1. exists /\ seen[d].count = count
    BY <1>1, <1>7 DEF RecoverWrong, SerialInv
  <2>2. count' = streak'
    BY <1>2, <1>7, <2>1 DEF RecoverWrong, NewCount
  <2> QED BY <1>1, <1>7, <2>2, FinishSerial DEF RecoverWrong
<1>8. CASE Lose(d)
  BY <1>1, <1>2, <1>8, FinishSerial DEF Lose, identity
<1> QED BY <1>4, <1>5, <1>6, <1>7, <1>8 DEF Step

\* While requests have not overlapped, a request under way holds the row as it
\* is.
THEOREM SerialInvariant == RecoverySpec => []SerialInv
<1>1. RecoveryInit => SerialInv
  BY DEF RecoveryInit, SerialInv
<1>2. RecoveryTypeOK /\ SerialInv /\ [RecoveryNext]_recovery => SerialInv'
  <2> SUFFICES ASSUME RecoveryTypeOK, SerialInv, [RecoveryNext]_recovery PROVE SerialInv'
    OBVIOUS
  <2>1. CASE UNCHANGED recovery \/ Rest
    BY <2>1 DEF recovery, Rest, SerialInv
  <2>2. CASE LockRunsOut
    BY <2>2 DEF LockRunsOut, SerialInv
  <2> QED BY <2>1, <2>2, StepSerial DEF RecoveryNext
<1> QED BY <1>1, <1>2, TypeCorrect, PTL DEF RecoverySpec

\* Tries that do not overlap are counted as consecutive failures.
THEOREM CountedInARow == RecoverySpec => []CountsConsecutive
<1>1. SerialInv => CountsConsecutive
  BY DEF SerialInv, CountsConsecutive
<1> QED BY <1>1, SerialInvariant, PTL

\* As many consecutive failures as the limit lock the identity, if requests do
\* not overlap.
THEOREM FailuresDoLock == RecoverySpec => []FailuresLock
<1>1. SerialInv /\ CountInv => FailuresLock
  BY DEF SerialInv, CountInv, LockIsCounted, FailuresLock
<1> QED BY <1>1, SerialInvariant, CountInvariant, PTL
=============================================================================
