---------------------------- MODULE MCEtcdBackup ----------------------------
(* Instances of EtcdBackup for TLC. *)
EXTENDS EtcdBackup

None == {}
OneValue == {"v"}
=============================================================================
