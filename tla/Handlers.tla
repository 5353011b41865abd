------------------------------ MODULE Handlers ------------------------------
(***************************************************************************)
(* The deployment state handlers of controllers/state.go: what one tick of *)
(* DeploymentStateManager decides for an incarnation.  A handler returns   *)
(* the next state and the plans it applies on the way, in order; a plan    *)
(* that fails makes tick return before setState.                           *)
(*                                                                         *)
(* d describes the incarnation as the Deployment interface shows it:       *)
(*   state, cur, peak, elig   its status                                   *)
(*   rev, failed, ext         its Revision: present, Spec.Failed, the test *)
(*   ready                    isDeployed: every desired replica is up      *)
(*   canaryPending            RevisionTarget.IsCanaryPending               *)
(*   late, testLate           the state's 15 minutes, the external test's  *)
(*                            own Timeout, have passed                     *)
(*   permits                  the release schedule is open                 *)
(*   expired                  the TTL since the Revision's creation is up  *)
(***************************************************************************)
EXTENDS Integers, Sequences

States == {"created", "deploying", "deployed", "pendingrelease", "releasing",
           "released", "retiring", "retired", "deleting", "deleted", "failing",
           "failed", "pendingtest", "testing", "tested", "canarying", "canaried",
           "timingout"}

ExternalTestStatuses == {"disabled", "pending", "started", "failed", "succeeded"}

HasFailed(d) == d.rev /\ (d.failed \/ d.ext = "failed")

MarkedAsFailed(d) == d.rev /\ d.failed

\* isTimingOut: only a test that is pending or started has a deadline of its own.
IsTimingOut(d) == d.testLate /\ d.ext \in {"pending", "started"}

Then(state, calls) == [next |-> state, calls |-> calls]
To(state) == Then(state, <<>>)

ToRelease(d) == IF d.canaryPending THEN "canarying" ELSE "pendingrelease"

SchedulePermitsRelease(d) == (d.peak > 0 /\ d.peak > d.canaryPercent) \/ d.permits
-----------------------------------------------------------------------------
\* The timeout of Created never applies: the state has no LastUpdated yet.
Created(d) == To(IF d.rev THEN "deploying" ELSE "deleting")

Deploying(d) ==
  IF ~d.rev THEN To("deleting")
  ELSE IF HasFailed(d) THEN To("failing")
  ELSE Then(IF d.ready THEN "deployed" ELSE IF d.late THEN "timingout" ELSE "deploying",
            <<"sync">>)

\* Mutant: a deployed incarnation does not notice that its Revision is gone.
DeployedForever(d) ==
  IF HasFailed(d) THEN To("failing")
  ELSE IF ~d.ready THEN To("deploying")
  ELSE IF d.elig THEN To(ToRelease(d))
  ELSE To("deployed")

\* Mutant: eligibility is looked at before the external test.
DeployedUntested(d) ==
  IF ~d.rev THEN To("deleting")
  ELSE IF HasFailed(d) THEN To("failing")
  ELSE IF d.elig THEN Then(ToRelease(d), <<"sync">>)
  ELSE Then("deployed", <<"sync">>)

Deployed(d) ==
  IF ~d.rev THEN To("deleting")
  ELSE IF HasFailed(d) THEN To("failing")
  ELSE Then(IF ~d.ready THEN "deploying"
            ELSE IF d.ext = "succeeded" THEN "tested"
            ELSE IF d.ext = "started" THEN "testing"
            ELSE IF d.ext = "pending" THEN "pendingtest"
            ELSE IF d.elig THEN ToRelease(d)
            ELSE IF d.expired THEN "retiring"
            ELSE "deployed",
            <<"sync">>)

PendingTest(d) ==
  IF ~d.rev THEN To("deleting")
  ELSE IF HasFailed(d) THEN To("failing")
  ELSE IF d.ext = "succeeded" THEN To("tested")
  ELSE IF IsTimingOut(d) THEN To("timingout")
  ELSE IF d.ext = "started" THEN To("testing")
  ELSE Then(IF d.late THEN "timingout" ELSE "pendingtest", <<"sync">>)

\* Only a failed test makes a testing revision fail, not Spec.Failed.
Testing(d) ==
  IF ~d.rev THEN To("deleting")
  ELSE IF d.ext = "failed" THEN To("failing")
  ELSE IF d.ext = "succeeded" THEN To("tested")
  ELSE IF IsTimingOut(d) THEN To("timingout")
  ELSE IF d.ext = "pending" THEN To("pendingtest")
  ELSE IF d.ext = "disabled" THEN To("deploying")
  ELSE Then(IF d.late THEN "timingout" ELSE "testing", <<"sync">>)

Tested(d) ==
  IF ~d.rev THEN To("deleting")
  ELSE IF HasFailed(d) THEN To("failing")
  ELSE IF d.ext = "pending" THEN To("pendingtest")
  ELSE IF d.ext # "succeeded" THEN To("testing")
  ELSE IF d.elig THEN To(ToRelease(d))
  ELSE To(IF d.late THEN "timingout" ELSE "tested")

PendingRelease(d) ==
  IF ~d.rev THEN To("deleting")
  ELSE IF MarkedAsFailed(d) THEN To("failing")
  ELSE IF ~d.elig THEN To("retiring")
  ELSE IF SchedulePermitsRelease(d) THEN To("releasing")
  ELSE Then("pendingrelease", <<"sync">>)

\* Also the handler of "released".
Releasing(d) ==
  IF ~d.rev THEN To("deleting")
  ELSE IF MarkedAsFailed(d) THEN To("failing")
  ELSE IF ~d.elig THEN To("retiring")
  ELSE Then(IF d.peak >= 100 THEN "released" ELSE "releasing", <<"sync">>)

Retiring(d) ==
  IF d.cur > 0 THEN To("retiring")
  ELSE IF ~d.rev THEN To("deleting")
  ELSE IF MarkedAsFailed(d) THEN To("failing")
  ELSE IF d.elig THEN To("deploying")
  ELSE Then("retired", <<"retire">>)

Retired(d) ==
  IF ~d.rev THEN To("deleting")
  ELSE IF MarkedAsFailed(d) THEN To("failing")
  ELSE IF d.elig THEN To("deploying")
  ELSE Then("retired", <<"retire">>)

Deleting(d) ==
  IF d.cur > 0 THEN To("deleting")
  ELSE IF d.rev THEN To("deploying")
  ELSE Then("deleted", <<"deleteCanaryRules", "del">>)

Deleted(d) == To(IF d.rev THEN "deploying" ELSE "deleted")

\* Mutant: a failing incarnation does not wait for its traffic to drain.
FailingAtOnce(d) ==
  IF ~d.rev THEN To("deleting")
  ELSE IF ~HasFailed(d) THEN To("deploying")
  ELSE Then("failed", <<"deleteCanaryRules", "retire">>)

Failing(d) ==
  IF d.cur > 0 THEN To("failing")
  ELSE IF ~d.rev THEN To("deleting")
  ELSE IF ~HasFailed(d) THEN To("deploying")
  ELSE Then("failed", <<"deleteCanaryRules", "retire">>)

Failed(d) ==
  IF ~d.rev THEN To("deleting")
  ELSE IF ~HasFailed(d) THEN To("deploying")
  ELSE Then("failed", <<"retire">>)

Canarying(d) ==
  IF ~d.rev THEN To("deleting")
  ELSE IF MarkedAsFailed(d) THEN To("failing")
  ELSE Then(IF d.canaryPending THEN "canarying" ELSE "canaried",
            <<"syncCanaryRules", "sync">>)

\* Mutant: the canary's rules are left in place.
CanariedKeepsRules(d) ==
  IF ~d.rev THEN To("deleting")
  ELSE IF MarkedAsFailed(d) THEN To("failing")
  ELSE Then(IF d.elig THEN "pendingrelease" ELSE "canaried", <<"sync">>)

Canaried(d) ==
  IF ~d.rev THEN To("deleting")
  ELSE IF MarkedAsFailed(d) THEN To("failing")
  ELSE Then(IF d.elig THEN "pendingrelease" ELSE "canaried",
            <<"deleteCanaryRules", "sync">>)

Timingout(d) ==
  To(IF ~d.rev THEN "deleting" ELSE IF HasFailed(d) THEN "failing" ELSE "timingout")
-----------------------------------------------------------------------------
\* The map from states to handlers.
Handle(d) ==
  CASE d.state = "created"               -> Created(d)
    [] d.state = "deploying"             -> Deploying(d)
    [] d.state = "deployed"              -> Deployed(d)
    [] d.state = "pendingtest"           -> PendingTest(d)
    [] d.state = "testing"               -> Testing(d)
    [] d.state = "tested"                -> Tested(d)
    [] d.state = "pendingrelease"        -> PendingRelease(d)
    [] d.state \in {"releasing", "released"} -> Releasing(d)
    [] d.state = "retiring"              -> Retiring(d)
    [] d.state = "retired"               -> Retired(d)
    [] d.state = "deleting"              -> Deleting(d)
    [] d.state = "deleted"               -> Deleted(d)
    [] d.state = "failing"               -> Failing(d)
    [] d.state = "failed"                -> Failed(d)
    [] d.state = "canarying"             -> Canarying(d)
    [] d.state = "canaried"              -> Canaried(d)
    [] d.state = "timingout"             -> Timingout(d)
=============================================================================
