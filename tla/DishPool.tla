------------------------------ MODULE DishPool ------------------------------
(***************************************************************************)
(* The pool of dishes with a text: batch of src/app/cron/batch.py produces *)
(* a batch of inactive rows, one transaction each, and the operator        *)
(* activates it with activate_batch of src/app/admin.py, which takes the   *)
(* rows of all other batches offline.  A row is unique by time slot, tags  *)
(* and dish (migration 0003), and a batch leaves the rows of an older one  *)
(* as they are.                                                            *)
(*                                                                         *)
(* The crontab starts a batch each week and nothing keeps two apart.       *)
(* Every item gets a text, from the LLM or from a template.                *)
(*                                                                         *)
(* Names that any specification has begin with Pool: AdminProofs extends   *)
(* this module and LinkStatus.                                             *)
(***************************************************************************)
EXTENDS Naturals, FiniteSets

CONSTANTS Item,    \* time slot, tags and dish
          Batch,   \* bound: batches
          NoBatch

ASSUME PoolAssumption == IsFiniteSet(Item) /\ NoBatch \notin Batch

VARIABLES
  status,    \* batch_runs.status, or none
  todo,      \* the items a running batch has before it
  items_out, \* the rows its process has counted, saved when it ends
  owner,     \* dish_pool.batch_id of the row of an item, or NoBatch
  active,    \* the items with active = 1
  alive,     \* the batches whose process runs
  shown,     \* the last batch activated, for the properties
  whole      \* it was complete when it was activated, for the properties

run == <<status, todo, items_out, alive>>
last == <<shown, whole>>
pool == <<status, todo, items_out, owner, active, alive, shown, whole>>

Rows(b) == {i \in Item : owner[i] = b}

PoolInit ==
  /\ status = [b \in Batch |-> "none"]
  /\ todo = [b \in Batch |-> {}]
  /\ items_out = [b \in Batch |-> 0]
  /\ owner = [i \in Item |-> NoBatch]
  /\ active = {}
  /\ alive = {}
  /\ shown = NoBatch /\ whole = FALSE

\* The row of batch_runs, then the dishes the library has for each slot and
\* pair of tags.
Start(b) ==
  /\ status[b] = "none"
  /\ status' = [status EXCEPT ![b] = "running"]
  /\ alive' = alive \cup {b}
  /\ \E items \in SUBSET Item : todo' = [todo EXCEPT ![b] = items]
  /\ UNCHANGED <<items_out, owner, active, last>>

\* Mutant of Inserted: INSERT OR REPLACE, active like the old pool.
InsertedActive(b, i) ==
  /\ owner' = [owner EXCEPT ![i] = b]
  /\ active' = active \cup {i}
  /\ items_out' = [items_out EXCEPT ![b] = @ + 1]

\* INSERT OR IGNORE and changes().
Inserted(b, i) ==
  IF owner[i] = NoBatch
    THEN /\ owner' = [owner EXCEPT ![i] = b]
         /\ items_out' = [items_out EXCEPT ![b] = @ + 1]
         /\ UNCHANGED active
    ELSE UNCHANGED <<owner, items_out, active>>

Produce(b) ==
  /\ b \in alive
  /\ \E i \in todo[b] :
       /\ todo' = [todo EXCEPT ![b] = @ \ {i}]
       /\ Inserted(b, i)
  /\ UNCHANGED <<status, alive, last>>

\* Mutant of Finish: a status of its own.
FinishDone(b) ==
  /\ b \in alive /\ todo[b] = {}
  /\ status' = [status EXCEPT ![b] = "done"]
  /\ alive' = alive \ {b}
  /\ UNCHANGED <<todo, items_out, owner, active, last>>

\* The last transaction, whatever the status has become.
Finish(b) ==
  /\ b \in alive /\ todo[b] = {}
  /\ status' = [status EXCEPT ![b] = "staged"]
  /\ alive' = alive \ {b}
  /\ UNCHANGED <<todo, items_out, owner, active, last>>

\* The process dies: the batch stays running.
PoolCrash(b) ==
  /\ b \in alive
  /\ alive' = alive \ {b}
  /\ todo' = [todo EXCEPT ![b] = {}]
  /\ UNCHANGED <<status, items_out, owner, active, last>>

\* The rows of the batch come online, those of the others go.
Shown(b) == Rows(b)

\* Any batch there is, whatever its status.
Activate(b) ==
  /\ status[b] # "none"
  /\ active' = Shown(b)
  /\ status' = [status EXCEPT ![b] = "active"]
  /\ shown' = b /\ whole' = (b \notin alive)
  /\ UNCHANGED <<todo, items_out, owner, alive>>

PoolNext == \E b \in Batch : \/ Start(b) \/ Produce(b) \/ Finish(b)
                             \/ PoolCrash(b) \/ Activate(b)

PoolSpec == PoolInit /\ [][PoolNext]_pool

----------------------------------------------------------------------------
(* Correctness.                                                            *)

PoolTypeOK ==
  /\ status \in [Batch -> {"none", "running", "staged", "active"}]
  /\ todo \in [Batch -> SUBSET Item]
  /\ items_out \in [Batch -> 0 .. Cardinality(Item)]
  /\ owner \in [Item -> Batch \cup {NoBatch}]
  /\ active \subseteq Item /\ alive \subseteq Batch
  /\ shown \in Batch \cup {NoBatch} /\ whole \in BOOLEAN

\* The users see one batch: nothing before the first activation, then rows of
\* the batch activated last and of no other, whatever batches are produced
\* meanwhile; all of its rows, if it was not being produced when it was
\* activated (the old pool goes offline with the activation, admin.py).  And
\* a batch has as many rows as it counted, the number the operator goes by:
\* nothing takes a row from it or leaves one uncounted.
PoolIsOneBatch ==
  /\ active \subseteq Rows(shown)
  /\ shown = NoBatch => active = {}
  /\ whole => active = Rows(shown)
  /\ \A b \in Batch : items_out[b] = Cardinality(Rows(b))
=============================================================================
