----------------------------- MODULE MCSettings -----------------------------
EXTENDS Settings
CONSTANTS off, on
MCValue == {off, on}
MCAsk == {[[f \in Field |-> Keep] EXCEPT ![g] = on] : g \in Field}
MCDefault == [f \in Field |-> off]
=============================================================================
