----------------------------- MODULE LlmBudget -----------------------------
(***************************************************************************)
(* The daily budget of LLM calls: complete, log_call, _over_circuit and    *)
(* _audit_circuit of src/app/llm/service.py, the one logical call of       *)
(* src/app/llm/gateway.py they wrap, and the weekly batch of               *)
(* src/app/cron/batch.py that calls the gateway past the breaker.          *)
(*                                                                         *)
(* complete looks at the rows of the day, calls the vendor for seconds and *)
(* only then writes the row the next look will count.  Time is counted in  *)
(* the gateway's smallest timeout, money in the smallest unit of a price.  *)
(***************************************************************************)
EXTENDS Integers, FiniteSets

CONSTANTS Caller,       \* worker threads that run complete side by side
          CallCap,      \* daily_call_cap
          CostCap,      \* daily_cost_cap_usd
          Price,        \* cost_per_call_usd
          Hard,         \* HARD_DEADLINE_S
          MinRetry,     \* MIN_RETRY_BUDGET_S
          Floor,        \* the least timeout an attempt gets
          MaxAttempts,  \* MAX_ATTEMPTS
          MaxTime,      \* bound: time one attempt takes
          MaxDays,      \* bound: days in a behaviour
          MaxCalls,     \* bound: calls of complete
          MaxBatch      \* bound: rows the batch writes

ASSUME BudgetAssumption ==
  /\ IsFiniteSet(Caller)
  /\ CallCap \in Nat \ {0} /\ CostCap \in Nat \ {0} /\ Price \in Nat
  /\ Floor \in Nat /\ MinRetry \in Nat /\ Hard \in Nat
  /\ Floor <= MinRetry /\ MinRetry <= Hard
  /\ MaxAttempts \in Nat \ {0} /\ MaxTime \in Nat
  /\ MaxDays \in Nat \ {0} /\ MaxCalls \in Nat /\ MaxBatch \in Nat

VARIABLES
  day,       \* the UTC day
  rows,      \* llm_calls of each day: all of them, and those of complete
  audits,    \* audit rows llm_circuit_break of each day
  alarms,    \* notices sent about the breaker of each day
  pc,        \* what each thread does next
  elapsed,   \* time its call has taken
  attempts,  \* HTTP attempts its call has made
  outcome,   \* how its last attempt ended
  noticeDay, \* the day its notice is about
  begun,     \* calls of complete so far, up to MaxCalls
  batched    \* rows of the batch so far, up to MaxBatch

gateway == <<elapsed, attempts, outcome>>
vars == <<day, rows, audits, alarms, pc, elapsed, attempts, outcome,
          noticeDay, begun, batched>>

Day == 1 .. MaxDays
Outcome == {"ok", "retryable", "final"}

\* The rows of a day: number and cost of all, and of those by complete.
NoRows == [calls |-> 0, cost |-> 0, own |-> 0, ownCost |-> 0]

Init ==
  /\ day = 1
  /\ rows = [d \in Day |-> NoRows]
  /\ audits = [d \in Day |-> 0]
  /\ alarms = [d \in Day |-> 0]
  /\ pc = [c \in Caller |-> "idle"]
  /\ elapsed = [c \in Caller |-> 0]
  /\ attempts = [c \in Caller |-> 0]
  /\ outcome = [c \in Caller |-> "ok"]
  /\ noticeDay = [c \in Caller |-> 1]
  /\ begun = 0
  /\ batched = 0

----------------------------------------------------------------------------
(* service.py                                                              *)

\* Mutant of OverCircuit: the cap itself is still admitted.
OverCircuitLate(r) == r.calls > CallCap \/ r.cost > CostCap

\* _over_circuit: a cap is reached by the rows of the day.
OverCircuit(r) == r.calls >= CallCap \/ r.cost >= CostCap

Goto(c, step) == pc' = [pc EXCEPT ![c] = step]

\* A call is over and its locals are gone.
Done(c) ==
  /\ Goto(c, "idle")
  /\ elapsed' = [elapsed EXCEPT ![c] = 0]
  /\ attempts' = [attempts EXCEPT ![c] = 0]
  /\ outcome' = [outcome EXCEPT ![c] = "ok"]

\* complete up to the call: one SELECT sums the day, and the call goes out or
\* the breaker is written down.
Check(c) ==
  /\ pc[c] = "idle"
  /\ begun < MaxCalls
  /\ begun' = begun + 1
  /\ Goto(c, IF OverCircuit(rows[day]) THEN "breaking" ELSE "calling")
  /\ UNCHANGED <<day, rows, audits, alarms, gateway, noticeDay, batched>>

\* Mutant of FirstToday: the notice goes out for each audit row.
FirstTodayAlways(d) == TRUE

\* _audit_circuit looks for an audit row of the same day.
FirstToday(d) == audits[d] = 0

\* The transaction of _audit_circuit.  It asks for the day again: a call
\* refused before midnight may be written down after it.
Break(c) ==
  /\ pc[c] = "breaking"
  /\ audits' = [audits EXCEPT ![day] = @ + 1]
  /\ noticeDay' = [noticeDay EXCEPT ![c] = day]
  /\ Goto(c, IF FirstToday(day) THEN "alarming" ELSE "idle")
  /\ UNCHANGED <<day, rows, alarms, gateway, begun, batched>>

\* The notice goes out after the transaction.
Alarm(c) ==
  /\ pc[c] = "alarming"
  /\ alarms' = [alarms EXCEPT ![noticeDay[c]] = @ + 1]
  /\ Goto(c, "idle")
  /\ UNCHANGED <<day, rows, audits, gateway, noticeDay, begun, batched>>

\* A call that failed costs nothing.
CostOf(o) == IF o = "ok" THEN Price ELSE 0

\* The day's rows with one more, written by complete or by the batch.
OwnRow(r, cost) == [calls |-> r.calls + 1, cost |-> r.cost + cost,
                    own |-> r.own + 1, ownCost |-> r.ownCost + cost]
BatchRow(r, cost) == [calls |-> r.calls + 1, cost |-> r.cost + cost,
                      own |-> r.own, ownCost |-> r.ownCost]

\* log_call: a row of the day it is written on, failed calls included.
Log(c) ==
  /\ pc[c] = "logging"
  /\ rows' = [rows EXCEPT ![day] = OwnRow(@, CostOf(outcome[c]))]
  /\ Done(c)
  /\ UNCHANGED <<day, audits, alarms, noticeDay, begun, batched>>

\* The transaction of log_call fails: the call leaves no row.
LogFails(c) ==
  /\ pc[c] = "logging"
  /\ Done(c)
  /\ UNCHANGED <<day, rows, audits, alarms, noticeDay, begun, batched>>

----------------------------------------------------------------------------
(* gateway.py                                                              *)

\* The timeout of the next attempt: what is left of the deadline, or the
\* floor.
Timeout(e) == IF Hard - e > Floor THEN Hard - e ELSE Floor

\* Mutants of Retries: no look at the time left, or at the attempts made.
RetriesForever(o, n, e) == o = "retryable" /\ Hard - e >= MinRetry
RetriesAnyway(o, n, e) == o = "retryable" /\ n < MaxAttempts

\* A rate limit, a server error or a network error is tried again while
\* there is time; a timeout, a bad answer and the rest are not.
Retries(o, n, e) ==
  /\ o = "retryable"
  /\ n < MaxAttempts
  /\ Hard - e >= MinRetry

\* One HTTP attempt.  The timeout holds for each wait on the socket, not for
\* the attempt: reading an answer that comes in drops takes any time.
Attempt(c) ==
  /\ pc[c] = "calling"
  /\ \E spent \in 0 .. MaxTime, o \in Outcome :
       LET e == elapsed[c] + spent
           n == attempts[c] + 1
       IN  /\ elapsed' = [elapsed EXCEPT ![c] = e]
           /\ attempts' = [attempts EXCEPT ![c] = n]
           /\ outcome' = [outcome EXCEPT ![c] = o]
           /\ Goto(c, IF Retries(o, n, e) THEN "calling" ELSE "logging")
  /\ UNCHANGED <<day, rows, audits, alarms, noticeDay, begun, batched>>

----------------------------------------------------------------------------
(* Around them.                                                            *)

\* qwen_copy of the batch: a call of the gateway and its row, no breaker.
Batch ==
  /\ batched < MaxBatch
  /\ batched' = batched + 1
  /\ \E o \in {"ok", "final"} :
       rows' = [rows EXCEPT ![day] = BatchRow(@, CostOf(o))]
  /\ UNCHANGED <<day, audits, alarms, pc, gateway, noticeDay, begun>>

\* The API process is killed: its threads end where they are.
Crash ==
  /\ \E c \in Caller : pc[c] # "idle"
  /\ pc' = [c \in Caller |-> "idle"]
  /\ elapsed' = [c \in Caller |-> 0]
  /\ attempts' = [c \in Caller |-> 0]
  /\ outcome' = [c \in Caller |-> "ok"]
  /\ UNCHANGED <<day, rows, audits, alarms, noticeDay, begun, batched>>

Midnight ==
  /\ day < MaxDays
  /\ day' = day + 1
  /\ UNCHANGED <<rows, audits, alarms, pc, gateway, noticeDay, begun,
                 batched>>

\* The bounds are used up.
Rest ==
  /\ day = MaxDays /\ begun = MaxCalls /\ batched = MaxBatch
  /\ \A c \in Caller : pc[c] = "idle"
  /\ UNCHANGED vars

Next ==
  \/ \E c \in Caller : \/ Check(c) \/ Break(c) \/ Alarm(c)
                       \/ Attempt(c) \/ Log(c) \/ LogFails(c)
  \/ Batch \/ Crash \/ Midnight \/ Rest

Spec == Init /\ [][Next]_vars

----------------------------------------------------------------------------
(* Correctness.                                                            *)

Rows == [calls : Nat, cost : Nat, own : Nat, ownCost : Nat]

TypeOK ==
  /\ day \in Day
  /\ rows \in [Day -> Rows]
  /\ audits \in [Day -> Nat]
  /\ alarms \in [Day -> Nat]
  /\ pc \in [Caller -> {"idle", "calling", "logging", "breaking", "alarming"}]
  /\ elapsed \in [Caller -> Nat]
  /\ attempts \in [Caller -> 0 .. MaxAttempts]
  /\ outcome \in [Caller -> Outcome]
  /\ noticeDay \in [Caller -> Day]
  /\ begun \in 0 .. MaxCalls
  /\ batched \in 0 .. MaxBatch

\* Threads whose call may still leave a row.
InFlight == {c \in Caller : pc[c] \in {"calling", "logging"}}

\* However the looks at the day and the rows of other threads, of the batch
\* and of midnight interleave, the breaker lets the application pass its caps
\* by less than one call per thread, counting the calls that are out
\* (service.py checks before a call of seconds and writes after it).
OvershootBounded ==
  /\ rows[day].own + Cardinality(InFlight) <= CallCap - 1 + Cardinality(Caller)
  /\ rows[day].ownCost + Price * Cardinality(InFlight)
       <= CostCap - 1 + Price * Cardinality(Caller)

\* No attempt, a retry included, is given a timeout beyond what is left of the
\* deadline, although a timeout is never less than the floor: the retry adds
\* no deadline of its own.  It is a timeout for each wait, so the call may
\* still pass the deadline.
WaitsFitDeadline ==
  \A c \in Caller :
    pc[c] = "calling" => elapsed[c] + Timeout(elapsed[c]) <= Hard

\* What the header of gateway.py says (gateway.py:12): a logical call, its retry
\* included, takes no longer than the deadline.
CallTimeBounded == \A c \in Caller : elapsed[c] <= Hard

\* A day is announced at most once, by whichever thread wrote its first audit
\* row, and only when that day or an earlier one reached a cap: a call refused
\* before midnight may use up the notice of the next day.
AnnouncedOnce ==
  \A d \in Day :
    /\ alarms[d] + Cardinality({c \in Caller : pc[c] = "alarming"
                                               /\ noticeDay[c] = d}) <= 1
    /\ audits[d] > 0 => \E p \in 1 .. d : OverCircuit(rows[p])
=============================================================================
