-------------------------- MODULE RearControllerMC --------------------------
\* Small instance of RearController for TLC.
EXTENDS RearController

\* One reading per outcome of the limit checks, at the limits' own values.
MCHealthy    == [max |-> 36000, min |-> 36000, pack |-> 7]
MCOver       == [max |-> 42000, min |-> 40000, pack |-> 8]
MCUnder      == [max |-> 30000, min |-> 25000, pack |-> 5]  \* and unbalanced

MCReadings == {MCHealthy, MCOver, MCUnder}

\* Zero, below the match window of a healthy pack (7 V), and a match.
MCBusVoltages == {0, 4, 7}

\* Below the window and a match.
MCTwoBusVoltages == {4, 7}

\* One member of each class the state manager distinguishes.
MCFrontStates == {"BRAKE", "NEUTRAL", "DRIVE"}

\* One that asks for drive and one that asks for neutral.
MCTwoFrontStates == {"NEUTRAL", "DRIVE"}
=============================================================================
