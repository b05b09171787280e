---------------------------- MODULE MCBackupCycle ---------------------------
(* An instance of BackupCycle for TLC.  The workers are interchangeable. *)
EXTENDS BackupCycle, TLC

CONSTANTS w1, w2
OneValue == {"v"}
TwoWorkers == {w1, w2}
None == {}
Nodes == {"n1"}
Workers == Permutations(TwoWorkers)
=============================================================================
