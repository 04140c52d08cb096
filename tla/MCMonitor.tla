------------------------------ MODULE MCMonitor ------------------------------
(* Instances of Monitor for TLC.                                            *)
EXTENDS Monitor

TwoContexts == <<"east", "west">>

Api == <<"Deployment", "api">>

Web == <<"StatefulSet", "web">>

\* The second context shares namespace and name with the first.
TheWorkloads ==
    [east |-> <<[ns |-> "a", name |-> Api], [ns |-> "b", name |-> Web]>>,
     west |-> <<[ns |-> "b", name |-> Web]>>]

Killed(at) == [finished |-> at, reason |-> "OOMKilled"]

NeverKilled == [finished |-> 0, reason |-> ""]

\* Killed once, too long ago to be told.
Quiet == [status |-> "settled", since |-> 2,
          pods |-> <<[init |-> <<NeverKilled>>, main |-> <<Killed(1)>>]>>]

KilledOnce == [Quiet EXCEPT !.since = 1]

\* Another pod was killed later, in its init container.  When that pod is
\* replaced the freshest termination is the old one again (KilledOnce).
KilledAgain == [KilledOnce EXCEPT !.pods =
                    @ \o <<[init |-> <<Killed(2)>>, main |-> <<NeverKilled>>]>>]

\* One workload may be killed and recover, twice, or fail or be deleted, the
\* other be slow.
TheConditions ==
    Api :> {Quiet, KilledOnce, KilledAgain, [KilledAgain EXCEPT !.status = "failed"], Absent}
    @@ Web :> {Quiet, [Quiet EXCEPT !.status = "progressing"]}

\* Without a budget everywhere, with one that cuts in a fleet.
TheLoops == {<<"contexts", 0>>, <<"cluster", 0>>, <<"cluster", 3>>, <<"cluster", 6>>,
             <<"target", 0>>}

TrimmedLoops == {<<"cluster", 3>>}

TheCauses == Api :> "crash" @@ Web :> "image"

TheEvidence == [crash |-> <<3, 1>>, image |-> <<1>>]
=============================================================================
