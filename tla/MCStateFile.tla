---------------------------- MODULE MCStateFile ----------------------------
EXTENDS StateFile

CONSTANTS short, full, large

\* A record below the limit of MCStateFile.cfg, one at it and one that is longer.
MCStates == {short, full, large}
MCSize == [s \in MCStates |-> IF s = short THEN 2 ELSE IF s = full THEN 3 ELSE 4]
=============================================================================
