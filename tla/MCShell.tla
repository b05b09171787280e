------------------------------ MODULE MCShell ------------------------------
(***************************************************************************)
(* One etcd and one TiKV, one workspace name, backups of two instances, one*)
(* of a version that is not supported and one without a header.            *)
(***************************************************************************)
EXTENDS Shell

W == <<"workspace", 0, 0>>
File(instance, version, header) == [instance |-> instance, version |-> version, header |-> header]
ConnectLine(tag, store, dry, auto, force) ==
    [cmd |-> "connect", tag |-> tag, store |-> store, dry |-> dry, auto |-> auto, force |-> force]
LoadLine(file, workspace) == [cmd |-> "load-backup", file |-> file, workspace |-> workspace]

MCLines ==
    { ConnectLine("etcd", "e", FALSE, TRUE, FALSE), ConnectLine("etcd", "e", TRUE, FALSE, FALSE),
      ConnectLine("tikv", "t", FALSE, FALSE, FALSE),
      [cmd |-> "connect-minio"], [cmd |-> "pulsarctl"],
      [cmd |-> "use"], [cmd |-> "find-milvus"], [cmd |-> "dry-mode"], [cmd |-> "show", big |-> TRUE],
      LoadLine(File("a", 1, TRUE), W), LoadLine(File("b", 2, TRUE), W),
      LoadLine(File("a", 3, TRUE), Absent), LoadLine(File("a", 1, FALSE), W),
      [cmd |-> "open-workspace", workspace |-> W],
      [cmd |-> "disconnect", comps |-> <<"tikv", "etcd">>],
      [cmd |-> "disconnect", comps |-> <<"etcd">>],
      [cmd |-> "set-pager"], [cmd |-> "exit"] }

MCApps == {[app |-> "prompt", PAGER |-> "bad"], [app |-> "olc", PAGER |-> ""]}
MCStores == {"e", "t"}
=============================================================================
