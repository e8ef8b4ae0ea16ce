------------------------------ MODULE Forwarder ------------------------------
(***************************************************************************)
(* The copy of the events table that src/app/core/umami.py keeps at Umami. *)
(*                                                                         *)
(* Handlers insert events in their transactions.  After a write, and at    *)
(* start-up, a thread is started that reads the cursor, selects the events *)
(* after it, sends them one by one and writes the cursor back; any number  *)
(* of such threads run at once.  All threads of the process share one      *)
(* database connection and read without its lock, so a forwarder also      *)
(* selects events of a transaction that is not committed.                  *)
(*                                                                         *)
(* The ids of a transaction that is rolled back are given out again: the   *)
(* AUTOINCREMENT counter is a table row and is rolled back with it.  An    *)
(* INSERT OR IGNORE that is ignored uses up an id, so ids have gaps.       *)
(***************************************************************************)
EXTENDS Integers, Sequences, FiniteSets

CONSTANTS Event,         \* events the handlers insert (client_event_id)
          NoEvent,       \* stands where an id was used up without a row
          Thread,        \* forwarding threads that run at once
          Batch,         \* config umami.batch
          MaxRepeats,    \* bound: inserts that are ignored
          MaxRollbacks,  \* bound: transactions that are rolled back
          MaxFailures    \* bound: sends and cursor writes that fail, restarts

ASSUME ForwarderAssumption ==
  /\ NoEvent \notin Event
  /\ Batch \in Nat \ {0}
  /\ MaxRepeats \in Nat
  /\ MaxRollbacks \in Nat
  /\ MaxFailures \in Nat

VARIABLES
  committed,   \* table events: what has the id i at position i
  open,        \* what the transaction under way inserted, <<>> if none
  cursor,      \* config umami.cursor: the id forwarded last
  delivered,   \* rows Umami received
  rolledBack,  \* rows that existed in a transaction that was rolled back
  pc,          \* what each thread does next
  base,        \* the cursor each thread read
  todo,        \* the rows each thread selected and has not sent
  last,        \* last_ok of each thread, 0 for None
  overlapped,  \* a thread was started while another ran
  repeats,     \* up to MaxRepeats
  rollbacks,   \* up to MaxRollbacks
  failures     \* up to MaxFailures

vars == <<committed, open, cursor, delivered, rolledBack, pc, base, todo,
          last, overlapped, repeats, rollbacks, failures>>
threads == <<pc, base, todo, last, overlapped>>
bounds == <<repeats, rollbacks, failures>>

Entry == Event \cup {NoEvent}
Row == [id : Nat \ {0}, event : Entry]
Stage == {"idle", "select", "send", "save"}

Init ==
  /\ committed = <<>>
  /\ open = <<>>
  /\ cursor = 0
  /\ delivered = {}
  /\ rolledBack = {}
  /\ pc = [f \in Thread |-> "idle"]
  /\ base = [f \in Thread |-> 0]
  /\ todo = [f \in Thread |-> {}]
  /\ last = [f \in Thread |-> 0]
  /\ overlapped = FALSE
  /\ repeats = 0
  /\ rollbacks = 0
  /\ failures = 0

----------------------------------------------------------------------------
(* Transactions of the handlers; tx() lets one run at a time.              *)

\* What a SELECT on the shared connection sees.
Visible == committed \o open

Inserted(s) == {s[i] : i \in DOMAIN s} \ {NoEvent}

\* The ids given out for good, and in the transaction under way.
CommittedRows == {[id |-> i, event |-> committed[i]] : i \in DOMAIN committed}

OpenRows == {[id |-> Len(committed) + i, event |-> open[i]] :
               i \in DOMAIN open}

Insert(e) ==
  /\ e \notin Inserted(Visible)
  /\ open' = Append(open, e)
  /\ UNCHANGED <<committed, cursor, delivered, rolledBack, threads, bounds>>

\* INSERT OR IGNORE of an event that is in the table already (a repeated
\* jump or batch) inserts nothing and uses up an id.
InsertAgain ==
  /\ Inserted(Visible) # {}
  /\ repeats < MaxRepeats
  /\ repeats' = repeats + 1
  /\ open' = Append(open, NoEvent)
  /\ UNCHANGED <<committed, cursor, delivered, rolledBack, threads, rollbacks,
                 failures>>

Commit ==
  /\ open # <<>>
  /\ committed' = Visible
  /\ open' = <<>>
  /\ UNCHANGED <<cursor, delivered, rolledBack, threads, bounds>>

Rollback ==
  /\ open # <<>>
  /\ rollbacks < MaxRollbacks
  /\ rollbacks' = rollbacks + 1
  /\ rolledBack' = rolledBack \cup OpenRows
  /\ open' = <<>>
  /\ UNCHANGED <<committed, cursor, delivered, threads, repeats, failures>>

----------------------------------------------------------------------------
(* forward_pending                                                         *)

Stop(f) == /\ pc' = [pc EXCEPT ![f] = "idle"]
           /\ base' = [base EXCEPT ![f] = 0]
           /\ todo' = [todo EXCEPT ![f] = {}]
           /\ last' = [last EXCEPT ![f] = 0]
           /\ UNCHANGED overlapped

\* A thread is started after a write, also one that inserted nothing new,
\* and at start-up.  It reads the configuration.
Start(f) ==
  /\ pc[f] = "idle"
  /\ pc' = [pc EXCEPT ![f] = "select"]
  /\ base' = [base EXCEPT ![f] = cursor]
  /\ overlapped' = (overlapped \/ \E g \in Thread : pc[g] # "idle")
  /\ UNCHANGED <<committed, open, cursor, delivered, rolledBack, todo, last,
                 bounds>>

\* Visible rows from the id n on.
RowsFrom(n) == {r \in CommittedRows \cup OpenRows :
                  r.event # NoEvent /\ r.id >= n}

\* ORDER BY id LIMIT batch: the first of the rows, as a set of one.
Firsts(rows) ==
  {b \in SUBSET rows :
     /\ Cardinality(b) <= Batch
     /\ b = rows \/ Cardinality(b) = Batch
     /\ \A r \in b, s \in rows \ b : r.id < s.id}

\* Mutant of Fetched: id >= cursor.
FetchedFrom(f) == Firsts(RowsFrom(base[f]))

\* WHERE id > cursor.
Fetched(f) == Firsts(RowsFrom(base[f] + 1))

Select(f) ==
  /\ pc[f] = "select"
  /\ \E rows \in Fetched(f) :
       IF rows = {}
       THEN Stop(f)
       ELSE /\ todo' = [todo EXCEPT ![f] = rows]
            /\ pc' = [pc EXCEPT ![f] = "send"]
            /\ UNCHANGED <<base, last, overlapped>>
  /\ UNCHANGED <<committed, open, cursor, delivered, rolledBack, bounds>>

\* Rows are sent in the order of their ids.
IsNext(f, r) == r \in todo[f] /\ \A s \in todo[f] : r.id <= s.id

Send(f) ==
  /\ pc[f] = "send"
  /\ \E r \in todo[f] :
       /\ IsNext(f, r)
       /\ delivered' = delivered \cup {r}
       /\ todo' = [todo EXCEPT ![f] = @ \ {r}]
       /\ last' = [last EXCEPT ![f] = r.id]
  /\ UNCHANGED <<committed, open, cursor, rolledBack, pc, base, overlapped,
                 bounds>>

\* The send raises, before or after Umami took the event; the rest of the
\* batch is left for the next thread.
SendFails(f) ==
  /\ pc[f] = "send"
  /\ failures < MaxFailures
  /\ failures' = failures + 1
  /\ \E r \in todo[f] :
       IsNext(f, r) /\ delivered' \in {delivered, delivered \cup {r}}
  /\ pc' = [pc EXCEPT ![f] = "save"]
  /\ UNCHANGED <<committed, open, cursor, rolledBack, base, todo, last,
                 overlapped, repeats, rollbacks>>

SentAll(f) ==
  /\ pc[f] = "send"
  /\ todo[f] = {}
  /\ pc' = [pc EXCEPT ![f] = "save"]
  /\ UNCHANGED <<committed, open, cursor, delivered, rolledBack, base, todo,
                 last, overlapped, bounds>>

\* Mutant of LastOk: the cursor moves past the whole batch.
LastOfBatch(f) ==
  CHOOSE n \in {r.id : r \in todo[f]} \cup {last[f]} :
    \A r \in todo[f] : r.id <= n

\* The id of the last row that was sent.
LastOk(f) == last[f]

\* The whole configuration value is written back with the new cursor; what
\* the cursor has become since it was read is not looked at.  The write
\* waits for the transaction under way.
Save(f) ==
  /\ pc[f] = "save"
  /\ IF LastOk(f) > base[f] THEN open = <<>> /\ cursor' = LastOk(f)
                            ELSE UNCHANGED cursor
  /\ Stop(f)
  /\ UNCHANGED <<committed, open, delivered, rolledBack, bounds>>

\* The write of the cursor raises and the thread ends without a word.
SaveFails(f) ==
  /\ pc[f] = "save"
  /\ LastOk(f) > base[f]
  /\ open = <<>>
  /\ failures < MaxFailures
  /\ failures' = failures + 1
  /\ Stop(f)
  /\ UNCHANGED <<committed, open, cursor, delivered, rolledBack, repeats,
                 rollbacks>>

----------------------------------------------------------------------------
\* The process dies and is started again: threads and the transaction under
\* way are gone.
Crash ==
  /\ failures < MaxFailures
  /\ failures' = failures + 1
  /\ open' = <<>>
  /\ rolledBack' = rolledBack \cup OpenRows
  /\ pc' = [f \in Thread |-> "idle"]
  /\ base' = [f \in Thread |-> 0]
  /\ todo' = [f \in Thread |-> {}]
  /\ last' = [f \in Thread |-> 0]
  /\ UNCHANGED <<committed, cursor, delivered, overlapped, repeats, rollbacks>>

\* A forwarding thread goes on.
Proceed(f) == Select(f) \/ Send(f) \/ SentAll(f) \/ Save(f)

Next ==
  \/ \E e \in Event : Insert(e)
  \/ InsertAgain \/ Commit \/ Rollback \/ Crash
  \/ \E f \in Thread : Start(f) \/ Proceed(f) \/ SendFails(f) \/ SaveFails(f)

Spec == Init /\ [][Next]_vars

\* Transactions end, threads are started again and again, and a thread that
\* was started goes on (a send has a timeout).
FairSpec == /\ Spec
            /\ WF_vars(Commit)
            /\ \A f \in Thread : WF_vars(Start(f)) /\ WF_vars(Proceed(f))

----------------------------------------------------------------------------
(* Correctness.                                                            *)

\* A batch holds only rows after the cursor its thread read.
AfterBase(f) == pc[f] \in {"send", "save"} => \A r \in todo[f] : r.id > base[f]

\* The type invariant, with what a batch is: at most Batch rows after the
\* cursor it was selected from.
TypeOK ==
  /\ committed \in Seq(Entry)
  /\ open \in Seq(Entry)
  /\ cursor \in Nat
  /\ delivered \subseteq Row
  /\ rolledBack \subseteq Row
  /\ pc \in [Thread -> Stage]
  /\ base \in [Thread -> Nat]
  /\ todo \in [Thread -> SUBSET Row]
  /\ last \in [Thread -> Nat]
  /\ \A f \in Thread : /\ IsFiniteSet(todo[f]) /\ Cardinality(todo[f]) <= Batch
                       /\ AfterBase(f)
  /\ overlapped \in BOOLEAN
  /\ repeats \in Nat /\ rollbacks \in Nat
  /\ failures \in Nat

\* The cursor stands only for what was sent: every id up to it is a gap or
\* the id of a row Umami received, in the table or in a transaction that was
\* rolled back.  So whatever overlaps, fails or crashes, an event below the
\* cursor can be missing at Umami only if its id was used before in a
\* transaction that was rolled back (umami.py: the cursor stops at the last
\* success).
CursorCovers ==
  \A i \in 1 .. cursor :
    \E r \in CommittedRows \cup rolledBack :
      r.id = i /\ (r.event = NoEvent \/ r \in delivered)

\* Every committed event reaches Umami, if transactions are not rolled back by
\* their handlers, threads keep being started and sends fail only finitely
\* often, although a slower thread may move the cursor back and the process
\* may restart (after a rollback an id is given out twice, and the cursor may
\* be past it).
AllDelivered ==
  [](rollbacks = 0) =>
    \A e \in Event :
      e \in Inserted(committed) ~> \E r \in delivered : r.event = e

\* While no threads have overlapped and nothing has failed, no row is sent
\* twice, so duplicates at Umami come from overlap, failures and restarts
\* alone.
SendsOnce ==
  [][\A f \in Thread :
       pc'[f] = "send" /\ ~overlapped /\ failures = 0 =>
         \A r \in todo[f] \ todo'[f] : r \notin delivered]_vars
=============================================================================
