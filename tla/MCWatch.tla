------------------------------- MODULE MCWatch -------------------------------
(* Instances of Watch for TLC: one target of each kind of trouble.          *)
EXTENDS Watch, MCViews

\* What a target of each name can look like.
ViewsOfTarget == [stable |-> StabilityViews, wedging |-> WedgeViews,
                  cronjob |-> CronJobViews, pod |-> PodViews,
                  restarted |-> RestartViews]

TargetViews == [w \in Targets |-> ViewsOfTarget[w]]
=============================================================================
