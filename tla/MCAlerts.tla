------------------------------ MODULE MCAlerts ------------------------------
EXTENDS Alerts

CONSTANTS r1, n1, poll, e1, e2

OneHost == [r \in Rules |-> n1]

\* The keys of a rule and those of a node have nothing to do with each other.
OneAtATime == {Rules, Nodes}

=============================================================================
