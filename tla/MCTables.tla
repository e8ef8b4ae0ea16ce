------------------------------ MODULE MCTables ------------------------------
(***************************************************************************)
(* Three small components at once: the links entry, the pool of dishes and *)
(* the recovery code of an identity.  They share no variable and no step   *)
(* of one reads another's, so each is explored while the others are where  *)
(* they began.                                                             *)
(***************************************************************************)
EXTENDS LinkStatus, DishPool, Recovery

TablesInit == Init /\ PoolInit /\ RecoveryInit

LinkStep(A) == A /\ PoolInit /\ RecoveryInit /\ UNCHANGED <<pool, recovery>>

\* Nobody is working on the entry: with the operator's changes used up and
\* JSON null in it the probe does not run either.
LinksRest == ~Busy /\ UNCHANGED vars

TablesNext ==
  \/ LinkStep(Next)
  \/ LinkStep(LinksRest)
  \/ PoolNext /\ Init /\ RecoveryInit /\ UNCHANGED <<vars, recovery>>
  \/ RecoveryNext /\ Init /\ PoolInit /\ UNCHANGED <<vars, pool>>

TablesVars == <<vars, pool, recovery>>

\* The crontab starts a probe every day, and every request of it has a timeout.
TablesSpec ==
  /\ TablesInit /\ [][TablesNext]_TablesVars
  /\ WF_TablesVars(LinkStep(ProbeRead))
  /\ WF_TablesVars(LinkStep(ProbeLook))
  /\ WF_TablesVars(LinkStep(ProbeCommit))
=============================================================================
