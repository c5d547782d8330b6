---------------------------- MODULE MCLeadership ----------------------------
(* An instance of Leadership for TLC.                                       *)
EXTENDS Leadership

CONSTANTS a, b

\* The two replicas of the Deployment.
Replicas == {a, b}

Campaigns == [p \in Replicas |-> [once |-> FALSE, dryRun |-> FALSE, election |-> TRUE]]

\* A rolling update replaces one of the two.
ReplaceOne == {{a}}
============================================================================
