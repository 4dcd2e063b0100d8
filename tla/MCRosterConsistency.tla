------------------------ MODULE MCRosterConsistency ------------------------
(* Instance of the DIP3 roster scenario for TLC: four nodes (the          *)
(* controller and three masternodes), two replacements, two collateral    *)
(* spends reverted one by one on the controller.                          *)
EXTENDS RosterConsistency

MCNumMn == 3
MCReplaceCount == 2
MCSpendCount == 2
MCPaymentRounds == 4
MCSyncTimeout == 2

=============================================================================
