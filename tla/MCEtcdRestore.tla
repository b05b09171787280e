---------------------------- MODULE MCEtcdRestore ---------------------------
(* Instances of EtcdRestore for TLC. *)
EXTENDS EtcdRestore

Nodes == {"n1", "n2"}
TwoValues == {"v", "w"}
TwoWorkers == {"w1", "w2"}
FiveEntries == <<Entry(1, "v"), Entry(2, "w"), Entry(3, "v"), Entry(4, "w"), Entry(5, "v")>>
NodeRecs(s) == <<NodeLabel(s), Blob, Blob>>

(* A complete file, one whose keys have no stopper, a wrong count, a file of
   version 1, and every beginning of each. *)
Whole ==
  <<Header(2, 0), Part("etcd", 5)>> \o FiveEntries \o <<Stop, Part("metrics", 0)>> \o
  NodeRecs("n1") \o NodeRecs("n2") \o
  <<Stop, Part("config", 0), NodeLabel("n1"), Blob, Stop, Part("app", 0), Stop>>
NoStopper ==
  <<Header(2, 0), Part("etcd", 5), Entry(1, "v"), Entry(2, "w"), Entry(3, "v"),
    Part("metrics", 0)>> \o NodeRecs("n1") \o <<Stop, Part("config", 0), Stop>>
NoCount == <<Header(2, 0), Part("etcd", 0), Entry(1, "v"), Stop>>
Version1 == <<Header(1, 2), Entry(1, "v"), Entry(2, "w")>>
BadVersion1 == <<Header(1, 0), Entry(1, "v")>>

AllFiles ==
  UNION {{SubSeq(f, 1, n) : n \in 0..Len(f)} :
           f \in {Whole, NoStopper, NoCount, Version1, BadVersion1}}
=============================================================================
