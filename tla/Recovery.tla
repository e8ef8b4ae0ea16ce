------------------------------ MODULE Recovery ------------------------------
(***************************************************************************)
(* The recovery code of one anonymous identity, as set_passcode and        *)
(* try_recover of src/app/domain/identity.py keep it, called from several  *)
(* devices at once (src/app/web/identity_api.py).                          *)
(*                                                                         *)
(* try_recover reads the row, derives the hash of the code it was given    *)
(* (slow on purpose), and then writes the outcome in a transaction that    *)
(* does not read the row again.                                            *)
(*                                                                         *)
(* Time is the state of the lock: none, running or run out.                *)
(*                                                                         *)
(* Names that any specification has begin with Recovery or are words of    *)
(* their own (doing, seen): MCTables extends this module and others.       *)
(***************************************************************************)
EXTENDS Integers, FiniteSets

CONSTANTS Device,       \* requests of devices that overlap
          Code,         \* codes a user may set or try, all of them strong
          NoCode,       \* SQL NULL in passcode_hash
          Limit,        \* failures that lock (5 in try_recover)
          MaxRequests   \* bound: requests in a behaviour

ASSUME RecoveryAssumption ==
  /\ NoCode \notin Code
  /\ Limit \in Nat \ {0}
  /\ MaxRequests \in Nat

VARIABLES
  exists,     \* the identity row is there
  code,       \* the code behind passcode_hash
  count,      \* recovery_count
  lock,       \* locked_until: "none", "running" or "over"
  streak,     \* wrong tries written since the last reset, for the properties
  wrong,      \* the same, since the last reset that crossed no other try
  doing,      \* "idle" or what each device's request does next
  try,        \* the code each request tries
  seen,       \* the row each request read
  overlapped, \* a request came while another was under way
  sent        \* requests begun, up to MaxRequests

identity == <<exists, code, count, lock>>
recovery == <<exists, code, count, lock, streak, wrong, doing, try, seen,
          overlapped, sent>>

NoRow == [code |-> NoCode, count |-> 0]

RecoveryInit ==
  /\ exists = FALSE
  /\ code = NoCode
  /\ count = 0
  /\ lock = "none"
  /\ streak = 0
  /\ wrong = 0
  /\ doing = [d \in Device |-> "idle"]
  /\ try = [d \in Device |-> NoCode]
  /\ seen = [d \in Device |-> NoRow]
  /\ overlapped = FALSE
  /\ sent = 0

----------------------------------------------------------------------------
(* One-transaction requests.                                               *)

\* A request comes in: passcode sets or recovers, as the page's endpoints do.
Receive(d) ==
  /\ doing[d] = "idle"
  /\ sent < MaxRequests
  /\ sent' = sent + 1
  /\ overlapped' = (overlapped \/ \E e \in Device : doing[e] # "idle")

\* The history of a reset by d: a try that another device has under way will
\* write the count from before it.
Reset(d) ==
  /\ streak' = 0
  /\ wrong' = IF \A e \in Device \ {d} : doing[e] = "idle" THEN 0 ELSE wrong

\* bootstrap: INSERT OR IGNORE of a row without a code.
Bootstrap(d) ==
  /\ Receive(d)
  /\ exists' = TRUE
  /\ UNCHANGED <<code, count, lock, streak, wrong, doing, try, seen>>

\* Mutant of ResetCount: a new code keeps the old failures.
ResetCountKept == count

\* The failures a new code starts with.
ResetCount == 0

\* set_passcode: the row is inserted, or updated with the count and the lock
\* cleared.
SetPasscode(d) ==
  /\ Receive(d)
  /\ exists' = TRUE
  /\ \E c \in Code : code' = c
  /\ count' = ResetCount
  /\ lock' = "none"
  /\ Reset(d)
  /\ UNCHANGED <<doing, try, seen>>

\* The user's data is cleared, the identity row with it.
Clear(d) ==
  /\ Receive(d)
  /\ exists' = FALSE
  /\ code' = NoCode
  /\ count' = 0
  /\ lock' = "none"
  /\ Reset(d)
  /\ UNCHANGED <<doing, try, seen>>

----------------------------------------------------------------------------
(* try_recover                                                             *)

\* No row with a code, or a lock that has not run out.
Refused == ~exists \/ code = NoCode \/ lock = "running"

\* The row is read once, outside any transaction.
RecoverRead(d) ==
  /\ Receive(d)
  /\ IF Refused
     THEN UNCHANGED <<doing, try, seen>>
     ELSE /\ \E c \in Code : try' = [try EXCEPT ![d] = c]
          /\ seen' = [seen EXCEPT ![d] = [code |-> code, count |-> count]]
          /\ doing' = [doing EXCEPT ![d] = "verify"]
  /\ UNCHANGED <<identity, streak, wrong>>

\* The request is answered: ok, wrong or locked.
Answered(d) == /\ doing' = [doing EXCEPT ![d] = "idle"]
               /\ try' = [try EXCEPT ![d] = NoCode]
               /\ seen' = [seen EXCEPT ![d] = NoRow]
               /\ UNCHANGED <<overlapped, sent>>

\* The code matches the hash that was read: the failures are cleared, in
\* whatever row is there now.
RecoverOk(d) ==
  /\ doing[d] = "verify"
  /\ try[d] = seen[d].code
  /\ count' = 0
  /\ lock' = "none"
  /\ Reset(d)
  /\ Answered(d)
  /\ UNCHANGED <<exists, code>>

\* Mutant of NewCount: tries are counted down.
NewCountDown(d) == seen[d].count - 1

\* One more than the count that was read.
NewCount(d) == seen[d].count + 1

LockFor(n) == IF n >= Limit THEN "running" ELSE "none"

\* The code does not match: count and lock are both overwritten.
RecoverWrong(d) ==
  /\ doing[d] = "verify"
  /\ try[d] # seen[d].code
  /\ IF exists THEN /\ count' = NewCount(d) /\ lock' = LockFor(NewCount(d))
                    /\ streak' = streak + 1 /\ wrong' = wrong + 1
               ELSE UNCHANGED <<count, lock, streak, wrong>>
  /\ Answered(d)
  /\ UNCHANGED <<exists, code>>

\* The process dies, or the transaction raises: the outcome is not written.
Lose(d) ==
  /\ doing[d] = "verify"
  /\ Answered(d)
  /\ UNCHANGED <<identity, streak, wrong>>

----------------------------------------------------------------------------
\* 24 hours pass.
LockRunsOut ==
  /\ lock = "running"
  /\ lock' = "over"
  /\ UNCHANGED <<exists, code, count, streak, wrong, doing, try, seen,
                 overlapped, sent>>

Rest == (\A d \in Device : doing[d] = "idle") /\ UNCHANGED recovery

Step(d) == \/ Bootstrap(d) \/ SetPasscode(d) \/ Clear(d)
           \/ RecoverRead(d) \/ RecoverOk(d) \/ RecoverWrong(d) \/ Lose(d)

RecoveryNext == LockRunsOut \/ Rest \/ \E d \in Device : Step(d)

RecoverySpec == RecoveryInit /\ [][RecoveryNext]_recovery

----------------------------------------------------------------------------
(* Correctness.                                                            *)

RecoveryTypeOK ==
  /\ exists \in BOOLEAN
  /\ code \in Code \cup {NoCode}
  /\ count \in Nat
  /\ lock \in {"none", "running", "over"}
  /\ streak \in Nat
  /\ wrong \in Nat
  /\ doing \in [Device -> {"idle", "verify"}]
  /\ try \in [Device -> Code \cup {NoCode}]
  /\ seen \in [Device -> [code : Code \cup {NoCode}, count : Nat]]
  /\ overlapped \in BOOLEAN
  /\ sent \in Nat

\* The count and the lock of a row always agree, though they are written by
\* requests that read the row before others changed it: below the limit
\* there is no lock, from it on there is one, running or run out (so a
\* single failure after a lock has run out locks again).
LockIsCounted == count >= Limit <=> lock # "none"

\* An identity is locked only by as many wrong codes as the limit, written
\* since the last success, new code or clearing that fell between the two
\* steps of no other try.  Overlapping tries may be counted as one, never as
\* more; but a try that read the row before a reset and writes after it
\* brings the failures from before the reset back, and the next single
\* failure may lock (the header of identity.py speaks of five in a row).
NeverLocksEarly == lock # "none" => wrong >= Limit

\* What the header of identity.py says of a lock (identity.py:4): it takes as
\* many failures in a row as the limit, whatever requests overlapped.
LocksAfterLimit == lock # "none" => streak >= Limit

\* While no requests have overlapped, the count is the number of wrong codes
\* tried in a row since the last success, new code or clearing (header of
\* identity.py: consecutive failures).
CountsConsecutive == ~overlapped => count = streak

\* While no requests have overlapped, so many wrong codes in a row lock the
\* identity (header of identity.py: five consecutive failures lock).
FailuresLock == ~overlapped /\ streak >= Limit => lock # "none"
=============================================================================
