---------------------------- MODULE MCCommonStorage ----------------------------
EXTENDS CommonStorage, TLC

MCDefaults == [f \in Fields |-> CHOOSE v \in Values : v \notin {Retired, Replacement}]
=============================================================================
