------------------------------ MODULE MCCommand ------------------------------
(* Instances of Command for TLC.                                            *)
EXTENDS Command

\* Two contexts; the first has three workloads in two namespaces, two of them of
\* one name, the second one that shares namespace and name with one of them.
TwoContexts == <<"east", "west">>

TheWorkloads ==
    [east |-> <<[ns |-> "a", name |-> <<"Deployment", "api">>],
                [ns |-> "a", name |-> <<"StatefulSet", "api">>],
                [ns |-> "b", name |-> <<"Deployment", "api">>]>>,
     west |-> <<[ns |-> "a", name |-> <<"Deployment", "api">>]>>]

TheResults ==
    {[outcome |-> "settled",     wedgedOut |-> FALSE, restarted |-> TRUE],
     [outcome |-> "progressing", wedgedOut |-> FALSE, restarted |-> FALSE],
     [outcome |-> "failed",      wedgedOut |-> TRUE,  restarted |-> FALSE]}

\* One container of each of two pods crashes, or two containers of one; or the
\* image is missing and the events could not be read.
TheReports ==
    {[findings |-> <<[pod |-> <<"p">>, cause |-> "crash"], [pod |-> <<"p">>, cause |-> "crash"]>>,
      degraded |-> <<>>],
     [findings |-> <<[pod |-> NoPod, cause |-> "image"]>>,
      degraded |-> <<"no events">>]}
=============================================================================
