---------------------------- MODULE MCLearningLoop ----------------------------
EXTENDS LearningLoop

CONSTANTS client, acme

\* One text gives a party away, the others do not.
MCNames == [t \in Texts |-> IF t = client THEN {acme} ELSE {}]
================================================================================
