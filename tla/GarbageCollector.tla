-------------------------- MODULE GarbageCollector --------------------------
(***************************************************************************)
(* Which revisions a ReleaseManager no longer needs: the default strategy  *)
(* of controllers/garbagecollector.  An incarnation is a record; these     *)
(* operators read its state, and `expired`: its TTL since the commit is up *)
(* (an incarnation without a Revision has the zero commit time and is      *)
(* always expired).  The list comes newest first.                          *)
(***************************************************************************)
EXTENDS Integers, Sequences, FiniteSets, SequencesExt

CONSTANT MinimumRetired  \* how many retired revisions are kept for rollbacks

ASSUME MinimumRetiredAssumption == MinimumRetired \in Nat

Disposable == {"retired", "deleting", "deleted", "failed"}

RetiredAmong(c, sorted, n) == {m \in 1 .. n : c[sorted[m]].state = "retired"}

\* The first MinimumRetired retired incarnations of the list.
KeptForRollback(c, sorted) ==
  {sorted[n] : n \in {n \in RetiredAmong(c, sorted, Len(sorted)) :
                       Cardinality(RetiredAmong(c, sorted, n - 1)) < MinimumRetired}}

\* Mutant: the budget is not consulted.
GarbageUnbudgeted(c, expired, sorted) ==
  {t \in ToSet(sorted) : t \in expired /\ c[t].state \in Disposable}

\* Mutant: an incarnation on its way to retirement is garbage already.
GarbageWhileRetiring(c, expired, sorted) ==
  {t \in ToSet(sorted) : /\ t \notin KeptForRollback(c, sorted)
                         /\ t \in expired
                         /\ c[t].state \in Disposable \cup {"retiring", "failing"}}

Garbage(c, expired, sorted) ==
  {t \in ToSet(sorted) : /\ t \notin KeptForRollback(c, sorted)
                         /\ t \in expired
                         /\ c[t].state \in Disposable}

\* "Don't delete all the revisions": the oldest of the list is spared then.
FindGarbage(c, expired, sorted) ==
  LET garbage == Garbage(c, expired, sorted)
  IN  IF garbage = ToSet(sorted) THEN garbage \ {Last(sorted)} ELSE garbage
=============================================================================
