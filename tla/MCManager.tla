----------------------------- MODULE MCManager -------------------------------
(***************************************************************************)
(* Two replicas with the default durations of main.go, in ticks of five    *)
(* seconds: 60, 40 and 5 seconds; with and without leader election.        *)
(***************************************************************************)
EXTENDS Manager, TLC

CONSTANTS p1, p2

MCFlagChoices == [leaderElect : BOOLEAN, leaseDuration : {12},
                  renewDeadline : {8}, retryPeriod : {1}]

\* The same durations under leader election.
MCElection == {f \in MCFlagChoices : f.leaderElect}
=============================================================================
