---------------------------- MODULE ShellProofs ----------------------------
(***************************************************************************)
(* Proofs about the shell: what the registered states own stays theirs,    *)
(* and a workspace that names an instance was loaded to the end from its   *)
(* backup, for all command lines, failures, kills and restarts.            *)
(*                                                                         *)
(* The argument. A directory is served by one client at most, because the  *)
(* server locks it: so the directory that a line loads, opens or removes   *)
(* is never that of a registered backup, and a registered backup finds its *)
(* directory as it left it. Within a line, the name of an instance gets    *)
(* into `job` only after all its rows, or from a meta file that vouches    *)
(* for them, and only from there into a meta file.                         *)
(***************************************************************************)
EXTENDS Shell, SequenceTheorems, TLAPS

-----------------------------------------------------------------------------
(* Types. *)

LinesOf(cmds) == {l \in Lines : l.cmd \in cmds}
Instances == {l.file.instance : l \in LinesOf({"load-backup"})}
Names == Instances \cup {Nameless, Garbled, Absent}
Dirs == {l.workspace : l \in LinesOf({"load-backup", "open-workspace"})}
        \cup ({"tmp"} \X Nat \X Nat)
Addresses == Dirs \cup {l.store : l \in LinesOf({"connect"})}

ClientRec == [store : Addresses, open : BOOLEAN, served : BOOLEAN]
DirRec == [rows : {"none", "part", "whole", "short"}, of : Names, meta : Names]
Connected == [kind : {"kv"}, client : Nat]
             \cup [kind : {"instance"}, client : Nat, audited : BOOLEAN]
BackupState == [kind : {"backup"}, client : Nat, dir : Dirs, name : Names, ready : BOOLEAN]
State == [kind : {"core", "minio", "pulsar", "exit"}] \cup Connected \cup BackupState
Job == [client : Nat \cup {Absent}, dir : Dirs \cup {Absent}, name : Names, ready : BOOLEAN,
        comps : Seq(STRING), back : {"start", "print", Absent},
        next : {Absent} \cup [tag : {"etcd"}, state : Connected]]

\* The line is being run, or will be when its pager is there.
Active == pc \in {"pager", "run"}

ShellTypeOK ==
    /\ pc \in {"read", "pager", "run", "drain", "setup", "ended"}
    /\ Active => line \in Lines
    /\ clients \in Seq(ClientRec)
    /\ states \in [DOMAIN states -> State]
    /\ disk \in [DOMAIN disk -> DirRec]
    /\ DOMAIN disk \subseteq Dirs
    /\ job \in Job
    /\ starts \in Nat

-----------------------------------------------------------------------------
(* The inductive invariant. *)

Unnamed == {Absent, Garbled, Nameless}
Loaded(r, name) == r.rows \in {"whole", "short"} /\ r.of = name

\* What a registered backup finds: its server, its directory, and there the
\* rows it is called after.
BackupOk(o, cs, dk, tn, mr) ==
    /\ cs[o.client].served /\ cs[o.client].store = o.dir
    /\ o.dir \in DOMAIN dk
    /\ o.ready \/ dk[o.dir].meta \in {Absent, Garbled} \/ o.dir \in mr
    /\ o.name # Nameless /\ o.dir \notin tn => Loaded(dk[o.dir], o.name)

OwnerOk(o, cs, dk, cr, tn, mr) ==
    /\ o.client \in 1..Len(cs)
    /\ cs[o.client].open \/ o.client \in cr
    /\ IF o.kind = "backup" THEN BackupOk(o, cs, dk, tn, mr) ELSE ~cs[o.client].served

\* Every registered state has what it owns, only the tag etcd has a backup,
\* and what two tags share is known.
RegisteredOk(st, cs, dk, cr, tn, mr) ==
    /\ \A t \in DOMAIN st : Owns(st[t]) =>
          OwnerOk(st[t], cs, dk, cr, tn, mr) /\ (st[t].kind = "backup" => t = "etcd")
    /\ \A s, t \in DOMAIN st :
          s # t /\ Owns(st[s]) /\ Owns(st[t]) /\ st[s].client = st[t].client => st[s].client \in cr

RegisteredInv == RegisteredOk(states, clients, disk, crossed, torn, misread)

RootInv == pc \in {"read", "pager"} => root = Registered

\* The directory of the line is not that of a registered backup.
NotTaken(d) == \A t \in DOMAIN states : states[t].kind = "backup" => states[t].dir # d

Loads == line.cmd \in {"load-backup", "open-workspace"}
InDir == at \in {"restore", "restored", "setup", "meta", "read"} \/ (at = "register" /\ Loads)
Named == at \in {"setup", "meta", "read"} \/ (at = "register" /\ Loads)

ByInv == Active /\ at = "start" =>
    /\ line.cmd = "use" => by \in Registered /\ by.kind = "kv"
    /\ line.cmd = "dry-mode" => by \in Registered /\ by.kind = "instance"
    /\ Loads => job.name = Nameless

DialInv == Active /\ line.cmd = "connect" /\ at \in {"find", "ping", "register"} =>
    job.client \in 1..Len(clients) /\ clients[job.client].open /\ ~clients[job.client].served

NextInv == Active /\ job.next # Absent =>
    /\ at \in {"print", "done"}
    /\ OwnerOk(job.next.state, clients, disk, crossed, torn, misread)

ServeInv == Active /\ at = "serve" =>
    /\ Loads /\ job.name = Nameless
    /\ job.dir # Absent => /\ job.dir \in DOMAIN disk
                           /\ line.cmd = "load-backup" => disk[job.dir].meta = Absent

\* From the start of its server on, the line has the directory for itself.
InDirInv == Active /\ InDir =>
    /\ job.client \in 1..Len(clients)
    /\ clients[job.client].open /\ clients[job.client].served
    /\ clients[job.client].store = job.dir
    /\ job.dir \in DOMAIN disk /\ NotTaken(job.dir)

\* A name is in `job` only after the rows.
NameInv == Active =>
    /\ at \in {"restore", "restored"} =>
          line.cmd = "load-backup" /\ disk[job.dir].meta = Absent /\ job.name = Nameless
    /\ at = "restored" => disk[job.dir].of = line.file.instance
    /\ at \in {"setup", "meta", "read"} => Loads
    /\ Named /\ job.name # Nameless /\ job.dir \notin torn => Loaded(disk[job.dir], job.name)
    /\ at = "register" /\ Loads =>
          job.ready \/ disk[job.dir].meta \in {Absent, Garbled} \/ job.dir \in misread

RemoveInv == Active /\ at = "remove" =>
    /\ job.dir \in DOMAIN disk /\ NotTaken(job.dir)
    /\ job.back \in {"start", "print"}
    /\ job.back = "start" => line.cmd = "disconnect"

\* A directory that names an instance holds it, unless it is being removed.
LoadedInv == \A d \in DOMAIN disk \ torn :
    disk[d].meta \notin Unnamed =>
        Loaded(disk[d], disk[d].meta) \/ (pc = "run" /\ at = "remove" /\ d = job.dir)

ShellInv ==
    /\ ShellTypeOK /\ RegisteredInv /\ RootInv
    /\ ByInv /\ DialInv /\ NextInv /\ ServeInv /\ InDirInv /\ NameInv /\ RemoveInv
    /\ LoadedInv

-----------------------------------------------------------------------------
(* Lemmas on the operators. *)

LEMMA PutFacts ==
    ASSUME NEW S, NEW f, f \in [DOMAIN f -> S], NEW k, NEW v \in S
    PROVE  /\ DOMAIN Put(f, k, v) = DOMAIN f \cup {k}
           /\ Put(f, k, v)[k] = v
           /\ \A x \in DOMAIN f : x # k => Put(f, k, v)[x] = f[x]
           /\ Put(f, k, v) \in [DOMAIN Put(f, k, v) -> S]
BY DEF Put

LEMMA DropFacts ==
    ASSUME NEW S, NEW f, f \in [DOMAIN f -> S], NEW k
    PROVE  /\ DOMAIN Drop(f, k) = DOMAIN f \ {k}
           /\ \A x \in DOMAIN f \ {k} : Drop(f, k)[x] = f[x]
           /\ Drop(f, k) \in [DOMAIN Drop(f, k) -> S]
BY DEF Drop

LEMMA OpenFacts ==
    ASSUME clients \in Seq(ClientRec), NEW a \in Addresses, NEW served \in BOOLEAN
    PROVE  LET cs == Append(clients, Open(a, served))
           IN  /\ cs \in Seq(ClientRec)
               /\ Len(cs) = Len(clients) + 1
               /\ \A c \in 1..Len(clients) : cs[c] = clients[c]
               /\ cs[Len(clients) + 1] = Open(a, served)
<1>1. Open(a, served) \in ClientRec
  BY DEF Open, ClientRec
<1>. QED BY <1>1, AppendProperties

LEMMA ClosedFacts ==
    ASSUME clients \in Seq(ClientRec), NEW c \in 1..Len(clients)
    PROVE  /\ Closed(c) \in Seq(ClientRec)
           /\ Len(Closed(c)) = Len(clients)
           /\ \A i \in 1..Len(clients) : i # c => Closed(c)[i] = clients[i]
           /\ ~Closed(c)[c].served
<1>1. clients[c] \in ClientRec /\ clients \in [1..Len(clients) -> ClientRec] /\ Len(clients) \in Nat
  OBVIOUS
<1>. DEFINE r == [[clients[c] EXCEPT !.open = FALSE] EXCEPT !.served = FALSE]
<1>2. r \in ClientRec /\ ~r.served
  BY <1>1 DEF ClientRec
<1>3. Closed(c) = [clients EXCEPT ![c] = r]
  BY <1>1 DEF Closed
<1>. HIDE DEF r
<1>4. Closed(c) \in [1..Len(clients) -> ClientRec] /\ DOMAIN Closed(c) = 1..Len(clients)
  BY <1>1, <1>2, <1>3
<1>5. Closed(c) \in Seq(ClientRec) /\ Len(Closed(c)) = Len(clients)
  BY <1>1, <1>4
<1>. QED BY <1>1, <1>2, <1>3, <1>5

-----------------------------------------------------------------------------
(* The registered states when something around them changes. *)

\* What is added takes nothing from an owner.
LEMMA OwnerKept ==
    ASSUME NEW o, NEW cs, NEW cs2, NEW dk, NEW dk2, NEW cr, NEW cr2, NEW tn, NEW mr, NEW mr2,
           OwnerOk(o, cs, dk, cr, tn, mr),
           Len(cs) \in Nat, Len(cs2) \in Nat, Len(cs) <= Len(cs2),
           cs2[o.client] = cs[o.client], cr \subseteq cr2, mr \subseteq mr2,
           o.kind = "backup" => o.dir \in DOMAIN dk2 /\ dk2[o.dir] = dk[o.dir]
    PROVE  OwnerOk(o, cs2, dk2, cr2, tn, mr2)
<1>1. o.client \in 1..Len(cs2)
  BY DEF OwnerOk
<1>. QED BY <1>1 DEF OwnerOk, BackupOk

LEMMA RegisteredKept ==
    ASSUME NEW st, NEW st2, NEW cs, NEW cs2, NEW dk, NEW dk2, NEW cr, NEW tn, NEW mr, NEW mr2,
           RegisteredOk(st, cs, dk, cr, tn, mr),
           DOMAIN st2 \subseteq DOMAIN st, \A t \in DOMAIN st2 : st2[t] = st[t],
           Len(cs) \in Nat, Len(cs2) \in Nat, Len(cs) <= Len(cs2), mr \subseteq mr2,
           \A t \in DOMAIN st2 : Owns(st2[t]) =>
              \/ cs2[st2[t].client] = cs[st2[t].client]
              \/ st2[t].client \in cr /\ st2[t].kind # "backup" /\ ~cs2[st2[t].client].served,
           \A t \in DOMAIN st2 : st2[t].kind = "backup" =>
              st2[t].dir \in DOMAIN dk2 /\ dk2[st2[t].dir] = dk[st2[t].dir]
    PROVE  RegisteredOk(st2, cs2, dk2, cr, tn, mr2)
<1>1. ASSUME NEW t \in DOMAIN st2, Owns(st2[t])
      PROVE  OwnerOk(st2[t], cs2, dk2, cr, tn, mr2) /\ (st2[t].kind = "backup" => t = "etcd")
  <2>1. OwnerOk(st2[t], cs, dk, cr, tn, mr) /\ (st2[t].kind = "backup" => t = "etcd")
    BY <1>1 DEF RegisteredOk
  <2>2. CASE cs2[st2[t].client] = cs[st2[t].client]
    <3>1. st2[t].kind = "backup" => st2[t].dir \in DOMAIN dk2 /\ dk2[st2[t].dir] = dk[st2[t].dir]
      OBVIOUS
    <3>. QED BY <2>1, <2>2, <3>1, OwnerKept
  <2>3. CASE st2[t].client \in cr /\ st2[t].kind # "backup" /\ ~cs2[st2[t].client].served
    BY <2>1, <2>3 DEF OwnerOk
  <2>. QED BY <1>1, <2>2, <2>3
<1>2. \A s, t \in DOMAIN st2 :
        s # t /\ Owns(st2[s]) /\ Owns(st2[t]) /\ st2[s].client = st2[t].client => st2[s].client \in cr
  BY DEF RegisteredOk
<1>. QED BY <1>1, <1>2 DEF RegisteredOk

\* SetTagNext
LEMMA RegisteredSet ==
    ASSUME ShellTypeOK, RegisteredInv, NEW tag, NEW o \in State, SetTagNext(tag, o),
           Owns(o) => OwnerOk(o, clients, disk, crossed, torn, misread),
           o.kind = "backup" => tag = "etcd",
           UNCHANGED <<clients, disk, torn, misread>>
    PROVE  /\ RegisteredInv'
           /\ states' \in [DOMAIN states' -> State]
           /\ crossed \subseteq crossed'
           /\ \A t \in DOMAIN states' : states'[t] = o \/ (t \in DOMAIN states /\ states'[t] = states[t])
<1>1. states' = Put(states, tag, o) /\ states \in [DOMAIN states -> State]
  BY DEF SetTagNext, ShellTypeOK
<1>2. /\ DOMAIN states' = DOMAIN states \cup {tag}
      /\ states'[tag] = o
      /\ \A x \in DOMAIN states : x # tag => states'[x] = states[x]
      /\ states' \in [DOMAIN states' -> State]
  BY <1>1 DEF Put
<1>3. crossed \subseteq crossed'
  BY DEF SetTagNext
<1>4. Len(clients) \in Nat
  BY DEF ShellTypeOK
<1>5. ASSUME NEW t \in DOMAIN states', Owns(states'[t])
      PROVE  /\ OwnerOk(states'[t], clients, disk, crossed', torn, misread)
             /\ states'[t].kind = "backup" => t = "etcd"
  <2>1. OwnerOk(states'[t], clients, disk, crossed, torn, misread)
    BY <1>2, <1>5 DEF RegisteredInv, RegisteredOk
  <2>2. states'[t].kind = "backup" => states'[t].dir \in DOMAIN disk
    BY <2>1 DEF OwnerOk, BackupOk
  <2>3. OwnerOk(states'[t], clients, disk, crossed', torn, misread)
    BY <2>1, <2>2, <1>3, <1>4, OwnerKept
  <2>. QED BY <1>2, <1>5, <2>3 DEF RegisteredInv, RegisteredOk
<1>6. ASSUME NEW s \in DOMAIN states', NEW t \in DOMAIN states', s # t,
             Owns(states'[s]), Owns(states'[t]), states'[s].client = states'[t].client
      PROVE  states'[s].client \in crossed'
  <2>1. CASE s = tag
    BY <1>2, <1>6, <2>1 DEF SetTagNext
  <2>2. CASE t = tag
    BY <1>2, <1>6, <2>2 DEF SetTagNext
  <2>3. CASE s # tag /\ t # tag
    BY <1>2, <1>3, <1>6, <2>3 DEF RegisteredInv, RegisteredOk
  <2>. QED BY <2>1, <2>2, <2>3
<1>7. RegisteredOk(states', clients, disk, crossed', torn, misread)
  BY <1>5, <1>6 DEF RegisteredOk
<1>8. RegisteredInv'
  BY <1>7 DEF RegisteredInv
<1>9. ASSUME NEW t \in DOMAIN states'
      PROVE  states'[t] = o \/ (t \in DOMAIN states /\ states'[t] = states[t])
  BY <1>2
<1>. QED BY <1>2, <1>3, <1>8, <1>9

-----------------------------------------------------------------------------
(* The steps. *)

LEMMA InitHolds == Init => ShellInv
<1>. SUFFICES ASSUME Init PROVE ShellInv
  OBVIOUS
<1>1. ShellTypeOK
  BY DEF Init, ShellTypeOK, Active, NoJob, Job, Names
<1>2. RegisteredInv
  BY DEF Init, RegisteredInv, RegisteredOk
<1>3. RootInv
  BY DEF Init, RootInv, Registered, Range
<1>4. ByInv /\ DialInv /\ NextInv /\ ServeInv /\ InDirInv /\ NameInv /\ RemoveInv
  BY DEF Init, ByInv, DialInv, NextInv, ServeInv, InDirInv, NameInv, RemoveInv, Active
<1>5. LoadedInv
  BY DEF Init, LoadedInv
<1>. QED BY <1>1, <1>2, <1>3, <1>4, <1>5 DEF ShellInv

\* The parts of the invariant about the line, as it is run.
LineInv == ByInv /\ DialInv /\ NextInv /\ ServeInv /\ InDirInv /\ NameInv /\ RemoveInv

\* Steps that change only how far the program is around the line.
LEMMA AroundStep ==
    ASSUME ShellInv, StartPager \/ PagerExits \/ Drain \/ Interrupt \/ StoreComesOrGoes
    PROVE  ShellInv'
<1>1. /\ UNCHANGED <<line, by, at, job, states, root, clients, disk, crossed, torn, misread, starts>>
      /\ Active' => Active
      /\ pc' \in {"read", "pager"} => pc \in {"read", "pager"}
      /\ pc = "run" => pc' = "run"
      /\ pc' \in {"read", "pager", "run", "drain", "setup", "ended"}
  BY DEF ShellInv, ShellTypeOK, StartPager, PagerExits, Drain, Interrupt, StoreComesOrGoes, Active,
         running, bounds, history
<1>2. ShellTypeOK'
  BY <1>1 DEF ShellInv, ShellTypeOK
<1>3. RegisteredInv'
  BY <1>1 DEF ShellInv, RegisteredInv
<1>4. RootInv'
  BY <1>1 DEF ShellInv, RootInv, Registered
<1>5. LineInv'
  BY <1>1 DEF ShellInv, LineInv, ByInv, DialInv, NextInv, ServeInv, InDirInv, NameInv, RemoveInv,
         Registered, Loads, InDir, Named, NotTaken
<1>6. LoadedInv'
  BY <1>1 DEF ShellInv, LoadedInv
<1>. QED BY <1>2, <1>3, <1>4, <1>5, <1>6 DEF ShellInv, LineInv

LEMMA ReadLineStep ==
    ASSUME ShellInv, ReadLine
    PROVE  ShellInv'
<1>1. PICK l \in Lines :
        /\ line' = l
        /\ \/ \E o \in Runners(l) : by' = o /\ at' = "start"
           \/ by' = Absent /\ at' = "done"
        /\ job' = [NoJob EXCEPT !.comps = IF l.cmd = "disconnect" THEN l.comps ELSE <<>>]
  BY DEF ReadLine
<1>2. /\ pc = "read" /\ pc' \in {"pager", "run"}
      /\ UNCHANGED <<states, root, clients, disk, crossed, torn, misread, starts>>
  BY DEF ReadLine, AfterRead, history
<1>3. job' \in Job /\ job'.next = Absent /\ job'.name = Nameless
  <2>. DEFINE comps == IF l.cmd = "disconnect" THEN l.comps ELSE <<>>
  <2>1. comps \in Seq(STRING)
    <3>1. <<>> \in Seq(STRING) /\ (l.cmd = "disconnect" => l.comps \in Seq(STRING))
      BY LinesAssumption
    <3>. QED BY <3>1
  <2>. HIDE DEF comps
  <2>2. NoJob \in Job
    BY DEF NoJob, Job, Names
  <2>3. job' = [NoJob EXCEPT !.comps = comps]
    BY <1>1 DEF comps
  <2>. QED BY <2>1, <2>2, <2>3 DEF NoJob, Job
<1>4. ShellTypeOK'
  BY <1>1, <1>2, <1>3 DEF ShellInv, ShellTypeOK
<1>5. RegisteredInv'
  BY <1>2 DEF ShellInv, RegisteredInv
<1>6. RootInv'
  BY <1>2 DEF ShellInv, RootInv, Registered
<1>7. ByInv'
  <2>1. root = Registered
    BY <1>2 DEF ShellInv, RootInv
  <2>. QED BY <1>1, <1>2, <1>3, <2>1 DEF ByInv, Runners, Registered, Loads
<1>8. (DialInv /\ NextInv /\ ServeInv /\ InDirInv /\ NameInv /\ RemoveInv)'
  BY <1>1, <1>3 DEF DialInv, NextInv, ServeInv, InDirInv, NameInv, RemoveInv, InDir, Named
<1>9. LoadedInv'
  BY <1>1, <1>2 DEF ShellInv, LoadedInv
<1>. QED BY <1>4, <1>5, <1>6, <1>7, <1>8, <1>9 DEF ShellInv

\* The line only goes on to print what it has to say.
LEMMA Prints ==
    ASSUME ShellInv, pc = "run", at # "remove", at' \in {"print", "done"},
           UNCHANGED <<pc, line, job, states, clients, disk, crossed, torn, misread, starts>>
    PROVE  ShellInv'
<1>1. ShellTypeOK'
  BY DEF ShellInv, ShellTypeOK, Active
<1>2. RegisteredInv' /\ RootInv'
  BY DEF ShellInv, RegisteredInv, RootInv
<1>3. NextInv'
  BY DEF ShellInv, NextInv, Active
<1>4. (ByInv /\ DialInv /\ ServeInv /\ InDirInv /\ NameInv /\ RemoveInv)'
  BY DEF ByInv, DialInv, ServeInv, InDirInv, NameInv, RemoveInv, InDir, Named
<1>5. LoadedInv'
  BY DEF ShellInv, LoadedInv
<1>. QED BY <1>1, <1>2, <1>3, <1>4, <1>5 DEF ShellInv

\* The steps that do, always.
LEMMA PrintStep ==
    ASSUME ShellInv, PrintOutput \/ DialFails \/ SetEnvCommand \/ FindMilvusCommand \/ ShowCommand
    PROVE  ShellInv'
<1>1. /\ pc = "run" /\ at # "remove" /\ at' \in {"print", "done"}
      /\ UNCHANGED <<pc, line, job, states, clients, disk, crossed, torn, misread, starts>>
  BY DEF PrintOutput, DialFails, SetEnvCommand, FindMilvusCommand, ShowCommand, Running, GoTo,
         bounds, history
<1>. QED BY <1>1, Prints

LEMMA FindStep ==
    ASSUME ShellInv, FindInstance \/ Ping
    PROVE  ShellInv'
<1>1. /\ pc = "run" /\ line.cmd = "connect" /\ at \in {"find", "ping"}
      /\ at' \in {"ping", "register", "print"}
      /\ UNCHANGED <<pc, line, job, states, clients, disk, crossed, torn, misread, starts>>
  BY DEF FindInstance, Ping, Running, GoTo, AfterFind, history
<1>2. CASE at' = "print"
  BY <1>1, <1>2, Prints
<1>3. CASE at' \in {"ping", "register"}
  <2>1. ShellTypeOK'
    BY <1>1 DEF ShellInv, ShellTypeOK, Active
  <2>2. RegisteredInv' /\ RootInv'
    BY <1>1 DEF ShellInv, RegisteredInv, RootInv
  <2>3. DialInv'
    BY <1>1 DEF ShellInv, DialInv, Active
  <2>4. NextInv'
    BY <1>1 DEF ShellInv, NextInv, Active
  <2>5. (ByInv /\ ServeInv /\ InDirInv /\ NameInv /\ RemoveInv)'
    BY <1>1, <1>3 DEF ByInv, ServeInv, InDirInv, NameInv, RemoveInv, InDir, Named, Loads
  <2>6. LoadedInv'
    BY <1>1 DEF ShellInv, LoadedInv
  <2>. QED BY <2>1, <2>2, <2>3, <2>4, <2>5, <2>6 DEF ShellInv
<1>. QED BY <1>1, <1>2, <1>3

\* No line is run after the step.
LEMMA Rests ==
    ASSUME ShellInv, ShellTypeOK', RegisteredInv', RootInv', ~Active', LoadedInv'
    PROVE  ShellInv'
<1>1. (ByInv /\ DialInv /\ NextInv /\ ServeInv /\ InDirInv /\ NameInv /\ RemoveInv)'
  BY DEF ByInv, DialInv, NextInv, ServeInv, InDirInv, NameInv, RemoveInv
<1>. QED BY <1>1 DEF ShellInv

LEMMA ProcessStep ==
    ASSUME ShellInv, Process
    PROVE  ShellInv'
<1>1. /\ pc = "run" /\ at = "done" /\ pc' = "drain"
      /\ UNCHANGED <<line, at, job, clients, disk, torn, misread, starts>>
  BY DEF Process, running, bounds
<1>2. /\ RegisteredInv'
      /\ states' \in [DOMAIN states' -> State]
  <2>1. CASE job.next = Absent
    <3>1. UNCHANGED <<states, crossed>>
      BY <2>1 DEF Process
    <3>. QED BY <1>1, <3>1 DEF ShellInv, RegisteredInv, ShellTypeOK
  <2>2. CASE job.next # Absent
    <3>1. SetTagNext(job.next.tag, job.next.state)
      BY <2>2 DEF Process
    <3>2. job.next.state \in Connected
      BY <2>2 DEF ShellInv, ShellTypeOK, Job
    <3>3. job.next.state \in State /\ job.next.state.kind # "backup"
      BY <3>2 DEF State, Connected
    <3>4. OwnerOk(job.next.state, clients, disk, crossed, torn, misread)
      BY <1>1, <2>2 DEF ShellInv, NextInv, Active
    <3>. QED BY <1>1, <3>1, <3>3, <3>4, RegisteredSet DEF ShellInv
  <2>. QED BY <2>1, <2>2
<1>3. ShellTypeOK'
  BY <1>1, <1>2 DEF ShellInv, ShellTypeOK, Active
<1>4. RootInv' /\ ~Active' /\ LoadedInv'
  BY <1>1 DEF ShellInv, RootInv, Active, LoadedInv
<1>. QED BY <1>2, <1>3, <1>4, Rests

LEMMA SetupStep ==
    ASSUME ShellInv, SetupCommands
    PROVE  ShellInv'
<1>1. /\ pc = "setup" /\ pc' \in {"ended", "read"} /\ job' = NoJob /\ root' = Registered
      /\ UNCHANGED <<states, clients, disk, crossed, torn, misread, starts>>
  BY DEF SetupCommands, bounds, history
<1>2. NoJob \in Job
  BY DEF NoJob, Job, Names
<1>3. ShellTypeOK'
  BY <1>1, <1>2 DEF ShellInv, ShellTypeOK, Active
<1>4. RegisteredInv' /\ ~Active' /\ LoadedInv'
  BY <1>1 DEF ShellInv, RegisteredInv, Active, LoadedInv
<1>5. RootInv'
  BY <1>1 DEF RootInv, Registered
<1>. QED BY <1>3, <1>4, <1>5, Rests

\* Kill, Panic and Restart: a directory whose removal is cut short is torn.
LEMMA EndStep ==
    ASSUME ShellInv, Kill \/ Panic \/ Restart
    PROVE  ShellInv'
<1>1. /\ Forget /\ pc' \in {"ended", "read"} /\ UNCHANGED <<disk, misread>>
      /\ starts' \in {starts, starts + 1}
  BY DEF Kill, Panic, Restart, bounds
<1>2. NoJob \in Job
  BY DEF NoJob, Job, Names
<1>3. states' = <<>> /\ clients' = <<>> /\ job' = NoJob /\ root' = {}
      /\ torn' = torn \cup (IF at = "remove" THEN {job.dir} ELSE {})
  BY <1>1 DEF Forget
<1>4. ShellTypeOK'
  BY <1>1, <1>2, <1>3 DEF ShellInv, ShellTypeOK, Active
<1>5. RegisteredInv' /\ RootInv'
  BY <1>3 DEF RegisteredInv, RegisteredOk, RootInv, Registered, Range
<1>6. ~Active' /\ LoadedInv'
  BY <1>1, <1>3 DEF ShellInv, Active, LoadedInv
<1>. QED BY <1>4, <1>5, <1>6, Rests

LEMMA DialStep ==
    ASSUME ShellInv, DialTiKV \/ DialEtcd
    PROVE  ShellInv'
<1>1. /\ pc = "run" /\ line.cmd = "connect" /\ at = "start"
      /\ at' \in {"find", "ping", "register"}
      /\ clients' = Append(clients, Open(line.store, FALSE))
      /\ job' = [job EXCEPT !.client = Len(clients) + 1]
      /\ UNCHANGED <<pc, line, states, disk, crossed, torn, misread, starts>>
  BY DEF DialTiKV, DialEtcd, Dialled, Running, AfterFind, history
<1>2. line \in Lines /\ clients \in Seq(ClientRec) /\ job \in Job
  BY <1>1 DEF ShellInv, ShellTypeOK, Active
<1>3. line.store \in Addresses
  BY <1>1, <1>2 DEF Addresses, LinesOf
<1>4. /\ clients' \in Seq(ClientRec)
      /\ Len(clients') = Len(clients) + 1
      /\ \A c \in 1..Len(clients) : clients'[c] = clients[c]
      /\ clients'[Len(clients) + 1] = Open(line.store, FALSE)
  BY <1>1, <1>2, <1>3, OpenFacts
<1>5. Len(clients) \in Nat /\ Len(clients) <= Len(clients')
  BY <1>2, <1>4
<1>6. job' \in Job /\ job'.client = Len(clients) + 1 /\ job'.next = job.next
  BY <1>1, <1>2, <1>5 DEF Job
<1>7. ShellTypeOK'
  BY <1>1, <1>4, <1>6 DEF ShellInv, ShellTypeOK, Active
<1>8. RegisteredInv'
  <2>1. ASSUME NEW t \in DOMAIN states, Owns(states[t])
        PROVE  /\ clients'[states[t].client] = clients[states[t].client]
               /\ states[t].kind = "backup" => states[t].dir \in DOMAIN disk
    BY <1>4, <2>1 DEF ShellInv, RegisteredInv, RegisteredOk, OwnerOk, BackupOk
  <2>2. \A t \in DOMAIN states : states[t].kind = "backup" => states[t].dir \in DOMAIN disk
    BY <2>1 DEF Owns
  <2>3. RegisteredOk(states, clients', disk, crossed, torn, misread)
    BY <1>4, <1>5, <2>1, <2>2, RegisteredKept DEF ShellInv, RegisteredInv
  <2>. QED BY <1>1, <2>3 DEF RegisteredInv
<1>9. RootInv'
  BY <1>1 DEF RootInv
<1>10. DialInv'
  BY <1>4, <1>5, <1>6 DEF DialInv, Open
<1>11. NextInv'
  BY <1>1, <1>6 DEF ShellInv, NextInv, Active
<1>12. (ByInv /\ ServeInv /\ InDirInv /\ NameInv /\ RemoveInv)'
  BY <1>1 DEF ByInv, ServeInv, InDirInv, NameInv, RemoveInv, InDir, Named, Loads
<1>13. LoadedInv'
  BY <1>1 DEF ShellInv, LoadedInv
<1>. QED BY <1>7, <1>8, <1>9, <1>10, <1>11, <1>12, <1>13 DEF ShellInv

\* A state is registered, and the line goes on to print.
LEMMA Registers ==
    ASSUME ShellInv, pc = "run", at # "remove", at' = "print", job.next = Absent,
           UNCHANGED <<pc, line, job, clients, disk, torn, misread, starts>>,
           RegisteredInv', states' \in [DOMAIN states' -> State]
    PROVE  ShellInv'
<1>1. ShellTypeOK'
  BY DEF ShellInv, ShellTypeOK, Active
<1>2. RootInv' /\ NextInv'
  BY DEF RootInv, NextInv
<1>3. (ByInv /\ DialInv /\ ServeInv /\ InDirInv /\ NameInv /\ RemoveInv)'
  BY DEF ByInv, DialInv, ServeInv, InDirInv, NameInv, RemoveInv, InDir, Named
<1>4. LoadedInv'
  BY DEF ShellInv, LoadedInv
<1>. QED BY <1>1, <1>2, <1>3, <1>4 DEF ShellInv

LEMMA ConnectStep ==
    ASSUME ShellInv, Connect
    PROVE  ShellInv'
<1>1. /\ pc = "run" /\ line.cmd = "connect" /\ at = "register" /\ at' = "print"
      /\ UNCHANGED <<pc, line, job, clients, disk, torn, misread, starts>>
  BY DEF Connect, Running
<1>2. PICK audited \in BOOLEAN :
        \/ SetTagNext(line.tag, KV(job.client))
        \/ SetTagNext(line.tag, Instance(job.client, audited))
  BY DEF Connect
<1>3. /\ job.client \in 1..Len(clients) /\ clients[job.client].open /\ ~clients[job.client].served
      /\ job.next = Absent
  BY <1>1 DEF ShellInv, DialInv, NextInv, Active
<1>4. job.client \in Nat
  BY <1>3 DEF ShellInv, ShellTypeOK
<1>5. ASSUME NEW o \in {KV(job.client), Instance(job.client, audited)}
      PROVE  /\ o \in State /\ o.kind # "backup"
             /\ OwnerOk(o, clients, disk, crossed, torn, misread)
  BY <1>3, <1>4 DEF KV, Instance, State, Connected, OwnerOk
<1>6. RegisteredInv' /\ states' \in [DOMAIN states' -> State]
  <2>1. PICK o \in {KV(job.client), Instance(job.client, audited)} : SetTagNext(line.tag, o)
    BY <1>2
  <2>. QED BY <1>1, <1>5, <2>1, RegisteredSet DEF ShellInv
<1>. QED BY <1>1, <1>3, <1>6, Registers

\* States that own nothing.
LEMMA SimpleStep ==
    ASSUME ShellInv, ConnectMinioCommand \/ PulsarctlCommand \/ ExitCommand
    PROVE  ShellInv'
<1>1. /\ pc = "run" /\ at = "start" /\ at' = "print"
      /\ UNCHANGED <<pc, line, job, clients, disk, torn, misread, starts>>
  BY DEF ConnectMinioCommand, PulsarctlCommand, ExitCommand, Running, bounds
<1>2. \/ UNCHANGED <<states, crossed>>
      \/ \E k \in {"minio", "pulsar", "exit"} : SetTagNext(k, Simple(k))
  BY DEF ConnectMinioCommand, PulsarctlCommand, ExitCommand
<1>3. CASE UNCHANGED <<states, crossed>>
  BY <1>1, <1>3, Prints
<1>4. ASSUME NEW k \in {"minio", "pulsar", "exit"}, SetTagNext(k, Simple(k))
      PROVE  ShellInv'
  <2>1. Simple(k) \in State /\ ~Owns(Simple(k)) /\ Simple(k).kind # "backup"
    BY DEF Simple, State, Owns
  <2>2. RegisteredInv' /\ states' \in [DOMAIN states' -> State]
    BY <1>1, <1>4, <2>1, RegisteredSet DEF ShellInv
  <2>3. job.next = Absent
    BY <1>1 DEF ShellInv, NextInv, Active
  <2>. QED BY <1>1, <2>2, <2>3, Registers
<1>. QED BY <1>2, <1>3, <1>4

\* A command of a connected store leaves what comes next.
LEMMA UseStep ==
    ASSUME ShellInv, UseCommand \/ DryModeCommand
    PROVE  ShellInv'
<1>1. /\ pc = "run" /\ at = "start" /\ at' = "print"
      /\ UNCHANGED <<pc, line, states, clients, disk, crossed, torn, misread, starts>>
  BY DEF UseCommand, DryModeCommand, Running, GoTo, history
<1>2. CASE job' = job
  BY <1>1, <1>2, Prints
<1>3. CASE job' # job
  <2>1. by \in Registered /\ Owns(by) /\ by.kind # "backup"
    BY <1>1 DEF UseCommand, DryModeCommand, Running, ShellInv, ByInv, Active, Owns
  <2>2. PICK t \in DOMAIN states : by = states[t]
    BY <2>1 DEF Registered, Range
  <2>3. /\ by.client \in 1..Len(clients)
        /\ clients[by.client].open \/ by.client \in crossed
        /\ ~clients[by.client].served
    BY <2>1, <2>2 DEF ShellInv, RegisteredInv, RegisteredOk, OwnerOk
  <2>4. by.client \in Nat
    BY <2>3 DEF ShellInv, ShellTypeOK
  <2>5. PICK o : /\ job' = [job EXCEPT !.next = [tag |-> "etcd", state |-> o]]
                 /\ o = KV(by.client) \/ \E audited \in BOOLEAN : o = Instance(by.client, audited)
    BY <1>3 DEF UseCommand, DryModeCommand
  <2>6. o \in Connected /\ OwnerOk(o, clients, disk, crossed, torn, misread)
    BY <2>3, <2>4, <2>5 DEF KV, Instance, Connected, OwnerOk
  <2>7. job' \in Job /\ job'.next.state = o
    BY <2>5, <2>6 DEF ShellInv, ShellTypeOK, Job
  <2>8. ShellTypeOK'
    BY <1>1, <2>7 DEF ShellInv, ShellTypeOK, Active
  <2>9. RegisteredInv' /\ RootInv'
    BY <1>1 DEF ShellInv, RegisteredInv, RootInv
  <2>10. NextInv'
    BY <1>1, <2>6, <2>7 DEF NextInv
  <2>11. (ByInv /\ DialInv /\ ServeInv /\ InDirInv /\ NameInv /\ RemoveInv)'
    BY <1>1 DEF ByInv, DialInv, ServeInv, InDirInv, NameInv, RemoveInv, InDir, Named
  <2>12. LoadedInv'
    BY <1>1 DEF ShellInv, LoadedInv
  <2>. QED BY <2>8, <2>9, <2>10, <2>11, <2>12 DEF ShellInv
<1>. QED BY <1>2, <1>3

-----------------------------------------------------------------------------
(* Loading and opening: the line changes a directory of its own. *)

LEMMA OwnerFacts ==
    ASSUME ShellInv, NEW t \in DOMAIN states, Owns(states[t])
    PROVE  /\ states[t].client \in 1..Len(clients)
           /\ states[t].kind # "backup" => ~clients[states[t].client].served
           /\ states[t].kind = "backup" =>
                 /\ clients[states[t].client].served
                 /\ clients[states[t].client].store = states[t].dir
                 /\ states[t].dir \in DOMAIN disk
BY DEF ShellInv, RegisteredInv, RegisteredOk, OwnerOk, BackupOk

\* The registered states do not notice what happens to a directory that none
\* of them has.
LEMMA OtherDir ==
    ASSUME ShellInv, NEW d, NotTaken(d),
           \A x \in DOMAIN disk \ {d} : x \in DOMAIN disk' /\ disk'[x] = disk[x],
           \A t \in DOMAIN states : Owns(states[t]) =>
              clients'[states[t].client] = clients[states[t].client],
           Len(clients') \in Nat, Len(clients) <= Len(clients'),
           UNCHANGED <<states, crossed, torn>>, misread \subseteq misread'
    PROVE  RegisteredInv'
<1>1. ASSUME NEW t \in DOMAIN states, states[t].kind = "backup"
      PROVE  states[t].dir \in DOMAIN disk' /\ disk'[states[t].dir] = disk[states[t].dir]
  <2>1. states[t].dir \in DOMAIN disk /\ states[t].dir # d
    BY <1>1, OwnerFacts DEF Owns, NotTaken
  <2>. QED BY <2>1
<1>2. Len(clients) \in Nat
  BY DEF ShellInv, ShellTypeOK
<1>3. RegisteredOk(states, clients', disk', crossed, torn, misread')
  BY <1>1, <1>2, RegisteredKept DEF ShellInv, RegisteredInv
<1>. QED BY <1>3 DEF RegisteredInv

LEMMA OpenBackupStep ==
    ASSUME ShellInv, OpenBackup
    PROVE  ShellInv'
<1>1. CASE GoTo("print") /\ UNCHANGED job
  <2>1. /\ pc = "run" /\ at = "start" /\ at' = "print"
        /\ UNCHANGED <<pc, line, job, states, clients, disk, crossed, torn, misread, starts>>
    BY <1>1 DEF OpenBackup, Running, GoTo, history
  <2>. QED BY <2>1, Prints
<1>2. CASE ~(GoTo("print") /\ UNCHANGED job)
  <2>1. /\ pc = "run" /\ line.cmd = "load-backup" /\ at = "start" /\ at' = "serve"
        /\ UNCHANGED <<pc, line, states, clients, crossed, torn, misread, starts>>
        /\ disk' = IF job'.dir = Absent THEN disk ELSE DirOrCreate(job'.dir)
        /\ \E made \in BOOLEAN :
              job' = [job EXCEPT !.dir = IF made THEN WorkspaceFolder(line.workspace) ELSE Absent]
    BY <1>2 DEF OpenBackup, Running, history
  <2>2. /\ job \in Job /\ line \in Lines /\ disk \in [DOMAIN disk -> DirRec]
        /\ DOMAIN disk \subseteq Dirs
    BY <2>1 DEF ShellInv, ShellTypeOK, Active
  <2>3. PICK d : /\ job' = [job EXCEPT !.dir = d]
                 /\ d = Absent \/ (d = line.workspace /\ d \notin DOMAIN disk)
    BY <2>1 DEF WorkspaceFolder
  <2>4. line.workspace \in Dirs
    BY <2>1, <2>2 DEF Dirs, LinesOf
  <2>5. job' \in Job /\ job'.dir = d /\ job'.name = job.name /\ job'.next = job.next
    BY <2>2, <2>3, <2>4 DEF Job
  <2>6. /\ d # Absent => d \notin DOMAIN disk /\ d \in DOMAIN disk' /\ disk'[d] = NewDir
        /\ \A x \in DOMAIN disk : x \in DOMAIN disk' /\ disk'[x] = disk[x]
        /\ \A x \in DOMAIN disk' : x \in DOMAIN disk \/ (x = d /\ d # Absent)
        /\ disk' \in [DOMAIN disk' -> DirRec] /\ DOMAIN disk' \subseteq Dirs
    <3>1. CASE d = Absent
      BY <2>1, <2>2, <2>5, <3>1
    <3>2. CASE d # Absent
      <4>1. disk' = Put(disk, d, NewDir) /\ NewDir \in DirRec
        BY <2>1, <2>3, <2>5, <3>2 DEF DirOrCreate, NewDir, DirRec, Names
      <4>. QED BY <2>2, <2>3, <2>4, <3>2, <4>1 DEF Put
    <3>. QED BY <3>1, <3>2
  <2>7. ShellTypeOK'
    BY <2>1, <2>5, <2>6 DEF ShellInv, ShellTypeOK, Active
  <2>8. RegisteredInv'
    <3>1. \A t \in DOMAIN states : states[t].kind = "backup" => states[t].dir \in DOMAIN disk
      BY OwnerFacts DEF Owns
    <3>2. Len(clients) \in Nat
      BY DEF ShellInv, ShellTypeOK
    <3>3. RegisteredOk(states, clients, disk', crossed, torn, misread)
      BY <2>6, <3>1, <3>2, RegisteredKept DEF ShellInv, RegisteredInv
    <3>. QED BY <2>1, <3>3 DEF RegisteredInv
  <2>9. RootInv' /\ NextInv'
    BY <2>1, <2>5 DEF ShellInv, RootInv, NextInv, Active
  <2>10. ServeInv'
    <3>1. job.name = Nameless
      BY <2>1 DEF ShellInv, ByInv, Active, Loads
    <3>. QED BY <2>1, <2>5, <2>6, <3>1 DEF ServeInv, Loads, NewDir
  <2>11. (ByInv /\ DialInv /\ InDirInv /\ NameInv /\ RemoveInv)'
    BY <2>1 DEF ByInv, DialInv, InDirInv, NameInv, RemoveInv, InDir, Named
  <2>12. LoadedInv'
    <3>1. ASSUME NEW x \in DOMAIN disk' \ torn', disk'[x].meta \notin Unnamed
          PROVE  x \in DOMAIN disk /\ disk'[x] = disk[x]
      BY <2>6, <3>1 DEF NewDir, Unnamed
    <3>. QED BY <2>1, <3>1 DEF ShellInv, LoadedInv
  <2>. QED BY <2>7, <2>8, <2>9, <2>10, <2>11, <2>12 DEF ShellInv
<1>. QED BY <1>1, <1>2

LEMMA OpenWorkspaceStep ==
    ASSUME ShellInv, OpenWorkspace
    PROVE  ShellInv'
<1>1. /\ pc = "run" /\ line.cmd = "open-workspace" /\ at = "start"
      /\ UNCHANGED <<pc, line, states, clients, disk, crossed, torn, misread, starts>>
  BY DEF OpenWorkspace, Running, GoTo, history
<1>2. CASE line.workspace \notin DOMAIN disk
  <2>1. at' = "print" /\ job' = job
    BY <1>2 DEF OpenWorkspace, GoTo
  <2>. QED BY <1>1, <2>1, Prints
<1>3. CASE line.workspace \in DOMAIN disk
  <2>1. at' = "serve" /\ job' = [job EXCEPT !.dir = line.workspace]
    BY <1>3 DEF OpenWorkspace, GoTo
  <2>2. job \in Job /\ line.workspace \in Dirs
    BY <1>3 DEF ShellInv, ShellTypeOK
  <2>3. /\ job' \in Job /\ job'.dir = line.workspace
        /\ job'.name = job.name /\ job'.next = job.next
    BY <2>1, <2>2 DEF Job
  <2>4. ShellTypeOK'
    BY <1>1, <2>3 DEF ShellInv, ShellTypeOK, Active
  <2>5. RegisteredInv' /\ RootInv' /\ NextInv'
    BY <1>1, <2>3 DEF ShellInv, RegisteredInv, RootInv, NextInv, Active
  <2>6. ServeInv'
    <3>1. job.name = Nameless
      BY <1>1 DEF ShellInv, ByInv, Active, Loads
    <3>. QED BY <1>1, <1>3, <2>1, <2>3, <3>1 DEF ServeInv, Loads
  <2>7. (ByInv /\ DialInv /\ InDirInv /\ NameInv /\ RemoveInv)'
    BY <2>1 DEF ByInv, DialInv, InDirInv, NameInv, RemoveInv, InDir, Named
  <2>8. LoadedInv'
    BY <1>1 DEF ShellInv, LoadedInv
  <2>. QED BY <2>4, <2>5, <2>6, <2>7, <2>8 DEF ShellInv
<1>. QED BY <1>2, <1>3

LEMMA StartEmbedEtcdStep ==
    ASSUME ShellInv, StartEmbedEtcd
    PROVE  ShellInv'
<1>. DEFINE dir == IF job.dir = Absent THEN TempDir ELSE job.dir
            c == Len(clients) + 1
<1>1. /\ pc = "run" /\ at = "serve" /\ ~Served(dir)
      /\ UNCHANGED <<pc, line, states, crossed, torn, misread, starts>>
  BY DEF StartEmbedEtcd, history
<1>2. CASE at' = "print" /\ UNCHANGED <<disk, clients, job>>
  BY <1>1, <1>2, Prints
<1>3. CASE ~(at' = "print" /\ UNCHANGED <<disk, clients, job>>)
  <2>1. /\ disk' = IF job.dir = Absent THEN Put(disk, dir, NewDir) ELSE disk
        /\ clients' = Append(clients, Open(dir, TRUE))
        /\ job' = [job EXCEPT !.dir = dir, !.client = c]
        /\ at' = IF line.cmd = "load-backup" THEN "restore" ELSE "setup"
    BY <1>3 DEF StartEmbedEtcd
  <2>2. /\ clients \in Seq(ClientRec) /\ Len(clients) \in Nat /\ starts \in Nat
        /\ disk \in [DOMAIN disk -> DirRec] /\ DOMAIN disk \subseteq Dirs /\ job \in Job
    BY DEF ShellInv, ShellTypeOK
  <2>3. /\ Loads /\ job.name = Nameless
        /\ job.dir # Absent => /\ job.dir \in DOMAIN disk
                               /\ line.cmd = "load-backup" => disk[job.dir].meta = Absent
    BY <1>1 DEF ShellInv, ServeInv, Active
  <2>4. dir \in Dirs
    BY <2>2, <2>3 DEF TempDir, Dirs
  <2>. HIDE DEF dir, c
  <2>5. /\ clients' \in Seq(ClientRec)
        /\ Len(clients') = c /\ c \in Nat /\ c \in 1..Len(clients')
        /\ \A i \in 1..Len(clients) : clients'[i] = clients[i]
        /\ clients'[c] = Open(dir, TRUE)
    <3>1. dir \in Addresses
      BY <2>4 DEF Addresses
    <3>2. /\ clients' \in Seq(ClientRec)
          /\ Len(clients') = c
          /\ \A i \in 1..Len(clients) : clients'[i] = clients[i]
          /\ clients'[c] = Open(dir, TRUE)
      BY <2>1, <2>2, <3>1, OpenFacts DEF c
    <3>3. c \in Nat /\ c \in 1..c
      BY <2>2 DEF c
    <3>. QED BY <3>2, <3>3
  <2>6. /\ job' \in Job /\ job'.dir = dir /\ job'.client = c
        /\ job'.name = Nameless /\ job'.next = job.next
    BY <2>1, <2>2, <2>3, <2>4, <2>5 DEF Job
  <2>7. /\ dir \in DOMAIN disk'
        /\ \A x \in DOMAIN disk \ {dir} : x \in DOMAIN disk' /\ disk'[x] = disk[x]
        /\ \A x \in DOMAIN disk' : x = dir \/ x \in DOMAIN disk
        /\ disk' \in [DOMAIN disk' -> DirRec] /\ DOMAIN disk' \subseteq Dirs
        /\ (disk'[dir] = disk[dir] /\ dir \in DOMAIN disk) \/ disk'[dir] = NewDir
        /\ line.cmd = "load-backup" => disk'[dir].meta = Absent
    <3>1. CASE job.dir = Absent
      <4>1. disk' = Put(disk, dir, NewDir) /\ NewDir \in DirRec /\ NewDir.meta = Absent
        BY <2>1, <3>1 DEF NewDir, DirRec, Names
      <4>. QED BY <2>2, <2>4, <4>1 DEF Put
    <3>2. CASE job.dir # Absent
      BY <2>1, <2>2, <2>3, <3>2 DEF dir
    <3>. QED BY <3>1, <3>2
  <2>8. NotTaken(dir)
    <3>1. ASSUME NEW t \in DOMAIN states, states[t].kind = "backup"
          PROVE  states[t].dir # dir
      <4>1. /\ states[t].client \in 1..Len(clients) /\ clients[states[t].client].served
            /\ clients[states[t].client].store = states[t].dir
        BY <3>1, OwnerFacts DEF Owns
      <4>2. DOMAIN clients = 1..Len(clients)
        BY <2>2
      <4>. QED BY <1>1, <4>1, <4>2 DEF Served
    <3>. QED BY <3>1 DEF NotTaken
  <2>9. ShellTypeOK'
    BY <1>1, <2>5, <2>6, <2>7 DEF ShellInv, ShellTypeOK, Active
  <2>10. RegisteredInv'
    <3>1. \A t \in DOMAIN states : Owns(states[t]) =>
              clients'[states[t].client] = clients[states[t].client]
      BY <2>5, OwnerFacts
    <3>2. Len(clients') \in Nat /\ Len(clients) <= Len(clients')
      BY <2>2, <2>5 DEF c
    <3>. QED BY <1>1, <2>7, <2>8, <3>1, <3>2, OtherDir
  <2>11. RootInv' /\ NextInv'
    BY <1>1, <2>6 DEF ShellInv, RootInv, NextInv, Active
  <2>12. InDirInv'
    BY <1>1, <2>5, <2>6, <2>7, <2>8 DEF InDirInv, Open, NotTaken
  <2>13. NameInv'
    BY <1>1, <2>1, <2>3, <2>6, <2>7 DEF NameInv, Named, Loads
  <2>14. (ByInv /\ DialInv /\ ServeInv /\ RemoveInv)'
    BY <2>1 DEF ByInv, DialInv, ServeInv, RemoveInv
  <2>15. LoadedInv'
    <3>1. ASSUME NEW x \in DOMAIN disk' \ torn', disk'[x].meta \notin Unnamed
          PROVE  x \in DOMAIN disk /\ disk'[x] = disk[x]
      BY <2>7, <3>1 DEF NewDir, Unnamed
    <3>. QED BY <1>1, <3>1 DEF ShellInv, LoadedInv
  <2>. QED BY <2>9, <2>10, <2>11, <2>12, <2>13, <2>14, <2>15 DEF ShellInv
<1>. QED BY <1>2, <1>3

\* A load that fails closes what it started, and nothing else.
LEMMA GivesUp ==
    ASSUME ShellInv, pc = "run", at \in {"restore", "restored"},
           CloseBackup(job.client, job.dir, "print"),
           UNCHANGED <<pc, line, states, disk, crossed, torn, misread, starts>>
    PROVE  ShellInv'
<1>1. /\ job.client \in 1..Len(clients) /\ clients[job.client].served
      /\ clients[job.client].store = job.dir
      /\ job.dir \in DOMAIN disk /\ NotTaken(job.dir)
  BY DEF ShellInv, InDirInv, Active, InDir
<1>2. /\ clients' = Closed(job.client) /\ at' = "remove"
      /\ job' = [job EXCEPT !.dir = job.dir, !.back = "print"]
  BY DEF CloseBackup
<1>3. job \in Job /\ clients \in Seq(ClientRec) /\ Len(clients) \in Nat
  BY DEF ShellInv, ShellTypeOK
<1>4. job' \in Job /\ job'.dir = job.dir /\ job'.back = "print" /\ job'.next = job.next
  BY <1>2, <1>3 DEF Job
<1>5. /\ clients' \in Seq(ClientRec) /\ Len(clients') = Len(clients)
      /\ \A i \in 1..Len(clients) : i # job.client => clients'[i] = clients[i]
  BY <1>1, <1>2, <1>3, ClosedFacts
<1>6. ShellTypeOK'
  BY <1>4, <1>5 DEF ShellInv, ShellTypeOK, Active
<1>7. RegisteredInv'
  <2>1. ASSUME NEW t \in DOMAIN states, Owns(states[t])
        PROVE  clients'[states[t].client] = clients[states[t].client]
    <3>1. states[t].client \in 1..Len(clients) /\ states[t].client # job.client
      BY <1>1, <2>1, OwnerFacts DEF NotTaken
    <3>. QED BY <1>5, <3>1
  <2>. QED BY <1>1, <1>3, <1>5, <2>1, OtherDir
<1>8. RootInv' /\ NextInv'
  BY <1>4 DEF ShellInv, RootInv, NextInv, Active
<1>9. RemoveInv'
  BY <1>1, <1>4 DEF RemoveInv, NotTaken
<1>10. (ByInv /\ DialInv /\ ServeInv /\ InDirInv /\ NameInv)'
  BY <1>2 DEF ByInv, DialInv, ServeInv, InDirInv, NameInv, InDir, Named
<1>11. LoadedInv'
  BY DEF ShellInv, LoadedInv
<1>. QED BY <1>6, <1>7, <1>8, <1>9, <1>10, <1>11 DEF ShellInv

\* A line that has its server goes on, and changes at most its directory.
LEMMA InPlace ==
    ASSUME ShellInv, pc = "run", InDir, Loads, NEW r \in DirRec,
           disk' = [disk EXCEPT ![job.dir] = r],
           job' \in Job, job'.dir = job.dir, job'.client = job.client, job'.next = job.next,
           at' \in {"restored", "setup", "meta", "read", "register"},
           UNCHANGED <<pc, line, states, clients, crossed, torn, starts>>,
           misread \subseteq misread',
           NameInv',
           r.meta \notin Unnamed /\ job.dir \notin torn => Loaded(r, r.meta)
    PROVE  ShellInv'
<1>1. /\ job.client \in 1..Len(clients)
      /\ clients[job.client].open /\ clients[job.client].served
      /\ clients[job.client].store = job.dir
      /\ job.dir \in DOMAIN disk /\ NotTaken(job.dir)
  BY DEF ShellInv, InDirInv, Active
<1>2. /\ disk \in [DOMAIN disk -> DirRec] /\ DOMAIN disk \subseteq Dirs
      /\ Len(clients) \in Nat
  BY DEF ShellInv, ShellTypeOK
<1>3. /\ DOMAIN disk' = DOMAIN disk /\ disk'[job.dir] = r
      /\ \A x \in DOMAIN disk \ {job.dir} : disk'[x] = disk[x]
      /\ disk' \in [DOMAIN disk' -> DirRec]
  BY <1>1, <1>2
<1>4. ShellTypeOK'
  BY <1>2, <1>3 DEF ShellInv, ShellTypeOK, Active
<1>5. RegisteredInv'
  BY <1>1, <1>2, <1>3, OtherDir
<1>6. RootInv' /\ NextInv'
  BY DEF ShellInv, RootInv, NextInv, Active, InDir
<1>7. InDirInv'
  BY <1>1, <1>3 DEF InDirInv, NotTaken
<1>8. (ByInv /\ DialInv /\ ServeInv /\ RemoveInv)'
  BY DEF ByInv, DialInv, ServeInv, RemoveInv, Loads
<1>9. LoadedInv'
  <2>1. ASSUME NEW x \in DOMAIN disk' \ torn', disk'[x].meta \notin Unnamed
        PROVE  Loaded(disk'[x], disk'[x].meta)
    <3>1. CASE x = job.dir
      BY <1>3, <2>1, <3>1
    <3>2. CASE x # job.dir
      BY <1>3, <2>1, <3>2 DEF ShellInv, LoadedInv, InDir
    <3>. QED BY <3>1, <3>2
  <2>. QED BY <2>1 DEF LoadedInv
<1>. QED BY <1>4, <1>5, <1>6, <1>7, <1>8, <1>9 DEF ShellInv

LEMMA RestoreStep ==
    ASSUME ShellInv, Restore
    PROVE  ShellInv'
<1>1. /\ pc = "run" /\ line.cmd = "load-backup" /\ at = "restore"
      /\ UNCHANGED <<pc, line, states, crossed, torn, misread, starts>>
  BY DEF Restore, Running, bounds, history
<1>2. CASE line.file.version \notin {1, 2}
  <2>1. CloseBackup(job.client, job.dir, "print") /\ UNCHANGED disk
    BY <1>2 DEF Restore
  <2>. QED BY <1>1, <2>1, GivesUp
<1>3. CASE line.file.version \in {1, 2}
  <2>. DEFINE r == [disk[job.dir] EXCEPT !.rows = "part", !.of = line.file.instance]
  <2>1. /\ disk' = [disk EXCEPT ![job.dir] = r]
        /\ at' = "restored" /\ UNCHANGED <<clients, job>>
    BY <1>3 DEF Restore
  <2>2. /\ job.dir \in DOMAIN disk /\ disk[job.dir] \in DirRec /\ job \in Job
        /\ disk \in [DOMAIN disk -> DirRec]
        /\ disk[job.dir].meta = Absent /\ job.name = Nameless
        /\ line \in Lines
    BY <1>1 DEF ShellInv, ShellTypeOK, InDirInv, InDir, NameInv, Active
  <2>3. line.file.instance \in Names
    BY <1>1, <2>2 DEF Names, Instances, LinesOf
  <2>4. r \in DirRec /\ r.meta = Absent /\ r.of = line.file.instance
    BY <2>2, <2>3 DEF DirRec
  <2>. HIDE DEF r
  <2>5. disk'[job.dir] = r
    BY <2>1, <2>2
  <2>6. NameInv'
    BY <1>1, <2>1, <2>2, <2>4, <2>5 DEF NameInv, Named
  <2>7. InDir /\ Loads /\ (r.meta \notin Unnamed => FALSE)
    BY <1>1, <2>4 DEF InDir, Loads, Unnamed
  <2>. QED BY <1>1, <2>1, <2>2, <2>4, <2>6, <2>7, InPlace
<1>. QED BY <1>2, <1>3

LEMMA NoPartsStep ==
    ASSUME ShellInv, NoParts
    PROVE  ShellInv'
<1>1. /\ pc = "run" /\ line.cmd = "load-backup" /\ at = "restore" /\ at' = "setup"
      /\ UNCHANGED <<pc, line, job, states, clients, disk, crossed, torn, misread, starts>>
  BY DEF NoParts, Running, GoTo, history
<1>2. /\ job.dir \in DOMAIN disk /\ disk[job.dir] \in DirRec /\ job \in Job
      /\ disk \in [DOMAIN disk -> DirRec]
      /\ disk[job.dir].meta = Absent /\ job.name = Nameless
  BY <1>1 DEF ShellInv, ShellTypeOK, InDirInv, InDir, NameInv, Active
<1>3. disk' = [disk EXCEPT ![job.dir] = disk[job.dir]]
  BY <1>1, <1>2
<1>4. NameInv'
  BY <1>1, <1>2 DEF NameInv, Named, Loads
<1>5. InDir /\ Loads /\ disk[job.dir].meta \in Unnamed
  BY <1>1, <1>2 DEF InDir, Loads, Unnamed
<1>. QED BY <1>1, <1>2, <1>3, <1>4, <1>5, InPlace

LEMMA RestoredStep ==
    ASSUME ShellInv, Restored
    PROVE  ShellInv'
<1>1. /\ pc = "run" /\ line.cmd = "load-backup" /\ at = "restored"
      /\ UNCHANGED <<pc, line, states, clients, crossed, torn, misread, starts>>
      /\ job' = [job EXCEPT !.name = line.file.instance, !.ready = TRUE]
      /\ at' = "setup"
  BY DEF Restored, Running, history
<1>2. PICK rows \in {"whole", "short"} : disk' = [disk EXCEPT ![job.dir].rows = rows]
  BY DEF Restored
<1>. DEFINE r == [disk[job.dir] EXCEPT !.rows = rows]
<1>3. /\ job.dir \in DOMAIN disk /\ disk[job.dir] \in DirRec /\ job \in Job
      /\ disk \in [DOMAIN disk -> DirRec]
      /\ disk[job.dir].meta = Absent /\ disk[job.dir].of = line.file.instance
      /\ line \in Lines
  BY <1>1 DEF ShellInv, ShellTypeOK, InDirInv, InDir, NameInv, Active
<1>4. line.file.instance \in Names
  BY <1>1, <1>3 DEF Names, Instances, LinesOf
<1>5. r \in DirRec /\ r.meta = Absent /\ Loaded(r, line.file.instance)
  BY <1>2, <1>3, <1>4 DEF DirRec, Loaded
<1>6. /\ job' \in Job /\ job'.dir = job.dir /\ job'.client = job.client
      /\ job'.next = job.next /\ job'.name = line.file.instance
  BY <1>1, <1>3, <1>4 DEF Job
<1>7. disk' = [disk EXCEPT ![job.dir] = r]
  BY <1>2, <1>3
<1>. HIDE DEF r
<1>8. disk'[job.dir] = r
  BY <1>3, <1>7
<1>9. NameInv'
  BY <1>1, <1>5, <1>6, <1>8 DEF NameInv, Named, Loads
<1>10. InDir /\ Loads /\ r.meta \in Unnamed
  BY <1>1, <1>5 DEF InDir, Loads, Unnamed
<1>. QED BY <1>1, <1>5, <1>6, <1>7, <1>9, <1>10, InPlace

LEMMA RestoreFailsStep ==
    ASSUME ShellInv, RestoreFails
    PROVE  ShellInv'
<1>1. /\ pc = "run" /\ line.cmd = "load-backup" /\ at = "restored"
      /\ UNCHANGED <<pc, line, states, disk, crossed, torn, misread, starts>>
      /\ CloseBackup(job.client, job.dir, "print")
  BY DEF RestoreFails, Running, history
<1>. QED BY <1>1, GivesUp

\* What a line in its directory has from the invariant.
LEMMA NamedFacts ==
    ASSUME ShellInv, pc = "run", at \in {"setup", "meta", "read"}
    PROVE  /\ InDir /\ Loads
           /\ job.dir \in DOMAIN disk /\ disk[job.dir] \in DirRec /\ job \in Job
           /\ disk \in [DOMAIN disk -> DirRec]
           /\ disk = [disk EXCEPT ![job.dir] = disk[job.dir]]
           /\ job.name # Nameless /\ job.dir \notin torn => Loaded(disk[job.dir], job.name)
           /\ disk[job.dir].meta \notin Unnamed /\ job.dir \notin torn =>
                 Loaded(disk[job.dir], disk[job.dir].meta)
<1>1. InDir /\ Loads /\ Named
  BY DEF InDir, Named, ShellInv, NameInv, Active
<1>2. /\ job.dir \in DOMAIN disk /\ job \in Job
      /\ disk \in [DOMAIN disk -> DirRec]
      /\ job.name # Nameless /\ job.dir \notin torn => Loaded(disk[job.dir], job.name)
  BY <1>1 DEF ShellInv, ShellTypeOK, InDirInv, NameInv, Active
<1>3. disk[job.dir].meta \notin Unnamed /\ job.dir \notin torn =>
        Loaded(disk[job.dir], disk[job.dir].meta)
  BY <1>2 DEF ShellInv, LoadedInv
<1>. QED BY <1>1, <1>2, <1>3

LEMMA SyncStep ==
    ASSUME ShellInv, SyncWorkspaceInfo
    PROVE  ShellInv'
<1>1. /\ pc = "run" /\ at = "setup"
      /\ UNCHANGED <<pc, line, job, states, clients, crossed, torn, misread, starts>>
  BY DEF SyncWorkspaceInfo, history
<1>2. CASE at' = "print" /\ UNCHANGED disk
  BY <1>1, <1>2, Prints
<1>3. CASE at' = "read" /\ UNCHANGED disk
  <2>1. NameInv'
    BY <1>1, <1>3, NamedFacts DEF NameInv, Named, Loads
  <2>. QED BY <1>1, <1>3, <2>1, NamedFacts, InPlace
<1>4. CASE at' = "meta" /\ disk' = [disk EXCEPT ![job.dir].meta = Garbled]
  <2>. DEFINE r == [disk[job.dir] EXCEPT !.meta = Garbled]
  <2>1. disk' = [disk EXCEPT ![job.dir] = r]
    BY <1>4
  <2>2. /\ r \in DirRec /\ r.meta \in Unnamed
        /\ r.rows = disk[job.dir].rows /\ r.of = disk[job.dir].of
    BY <1>1, NamedFacts DEF DirRec, Names, Unnamed
  <2>. HIDE DEF r
  <2>3. disk'[job.dir] = r
    BY <1>1, <2>1, NamedFacts
  <2>4. NameInv'
    BY <1>1, <1>4, <2>2, <2>3, NamedFacts DEF NameInv, Named, Loads, Loaded
  <2>. QED BY <1>1, <1>4, <2>1, <2>2, <2>4, NamedFacts, InPlace
<1>. QED BY <1>2, <1>3, <1>4 DEF SyncWorkspaceInfo

LEMMA WriteMetaStep ==
    ASSUME ShellInv, WriteWorkspaceMeta
    PROVE  ShellInv'
<1>1. /\ pc = "run" /\ at = "meta" /\ at' = "read"
      /\ UNCHANGED <<pc, line, job, states, clients, crossed, torn, misread, starts>>
  BY DEF WriteWorkspaceMeta, history
<1>2. CASE UNCHANGED disk
  <2>1. NameInv'
    BY <1>1, <1>2, NamedFacts DEF NameInv, Named, Loads
  <2>. QED BY <1>1, <1>2, <2>1, NamedFacts, InPlace
<1>3. CASE disk' = [disk EXCEPT ![job.dir].meta = job.name]
  <2>. DEFINE r == [disk[job.dir] EXCEPT !.meta = job.name]
  <2>1. disk' = [disk EXCEPT ![job.dir] = r]
    BY <1>3
  <2>2. /\ r \in DirRec /\ r.meta = job.name
        /\ r.rows = disk[job.dir].rows /\ r.of = disk[job.dir].of
    <3>1. disk[job.dir] \in DirRec /\ job.name \in Names
      BY <1>1, NamedFacts DEF Job
    <3>. QED BY <3>1 DEF DirRec
  <2>. HIDE DEF r
  <2>3. disk'[job.dir] = r
    BY <1>1, <2>1, NamedFacts
  <2>4. NameInv'
    BY <1>1, <2>2, <2>3, NamedFacts DEF NameInv, Named, Loads, Loaded
  <2>5. r.meta \notin Unnamed /\ job.dir \notin torn => Loaded(r, r.meta)
    BY <1>1, <2>2, NamedFacts DEF Unnamed, Loaded
  <2>. QED BY <1>1, <2>1, <2>2, <2>4, <2>5, NamedFacts, InPlace
<1>. QED BY <1>2, <1>3 DEF WriteWorkspaceMeta

LEMMA ReadMetaStep ==
    ASSUME ShellInv, ReadWorkspaceMeta
    PROVE  ShellInv'
<1>. DEFINE meta == disk[job.dir].meta
<1>1. /\ pc = "run" /\ at = "read" /\ at' = "register"
      /\ UNCHANGED <<pc, line, states, clients, disk, crossed, torn, starts>>
  BY DEF ReadWorkspaceMeta
<1>2. \/ /\ meta \notin {Absent, Garbled}
         /\ job' = [job EXCEPT !.name = meta, !.ready = TRUE] /\ misread' = misread
      \/ meta \in {Absent, Garbled} /\ UNCHANGED <<job, misread>>
      \/ UNCHANGED job /\ misread' = misread \cup {job.dir}
  BY DEF ReadWorkspaceMeta
<1>3. /\ job \in Job /\ disk[job.dir] \in DirRec /\ InDir /\ Loads
      /\ disk = [disk EXCEPT ![job.dir] = disk[job.dir]]
      /\ job.name # Nameless /\ job.dir \notin torn => Loaded(disk[job.dir], job.name)
      /\ meta \notin Unnamed /\ job.dir \notin torn => Loaded(disk[job.dir], meta)
  BY <1>1, NamedFacts
<1>4. meta \in Names
  BY <1>3 DEF DirRec
<1>. HIDE DEF meta
<1>5. /\ job' \in Job /\ job'.dir = job.dir /\ job'.client = job.client /\ job'.next = job.next
      /\ job'.name = job.name \/ (job'.name = meta /\ meta \notin {Absent, Garbled})
      /\ job'.ready \/ meta \in {Absent, Garbled} \/ job.dir \in misread'
  <2>1. CASE /\ meta \notin {Absent, Garbled}
             /\ job' = [job EXCEPT !.name = meta, !.ready = TRUE] /\ misread' = misread
    BY <1>3, <1>4, <2>1 DEF Job
  <2>2. CASE meta \in {Absent, Garbled} /\ UNCHANGED <<job, misread>>
    BY <1>3, <2>2
  <2>3. CASE UNCHANGED job /\ misread' = misread \cup {job.dir}
    BY <1>3, <2>3
  <2>. QED BY <1>2, <2>1, <2>2, <2>3
<1>6. misread \subseteq misread'
  BY <1>2
<1>7. NameInv'
  BY <1>1, <1>3, <1>5 DEF NameInv, Named, Loads, Unnamed, meta
<1>8. disk[job.dir].meta \notin Unnamed /\ job.dir \notin torn =>
        Loaded(disk[job.dir], disk[job.dir].meta)
  BY <1>3 DEF meta
<1>. QED BY <1>1, <1>3, <1>5, <1>6, <1>7, <1>8, InPlace

LEMMA ShowBackupStep ==
    ASSUME ShellInv, ShowBackup
    PROVE  ShellInv'
<1>. DEFINE o == Backup(job.client, job.dir, job.name, job.ready)
<1>1. /\ pc = "run" /\ at = "register" /\ at' = "print" /\ Loads
      /\ SetTagNext("etcd", o)
      /\ UNCHANGED <<pc, line, job, clients, disk, torn, misread, starts>>
  BY DEF ShowBackup, Loads, bounds
<1>2. InDir /\ Named /\ Active
  BY <1>1 DEF InDir, Named, Active
<1>3. /\ job.client \in 1..Len(clients)
      /\ clients[job.client].open /\ clients[job.client].served
      /\ clients[job.client].store = job.dir /\ job.dir \in DOMAIN disk
      /\ job.name # Nameless /\ job.dir \notin torn => Loaded(disk[job.dir], job.name)
      /\ job.ready \/ disk[job.dir].meta \in {Absent, Garbled} \/ job.dir \in misread
      /\ job.next = Absent
  BY <1>1, <1>2 DEF ShellInv, InDirInv, NameInv, NextInv
<1>4. /\ job.client \in Nat /\ job.dir \in Dirs /\ job.name \in Names /\ job.ready \in BOOLEAN
  BY <1>3 DEF ShellInv, ShellTypeOK, Job
<1>5. o \in State /\ OwnerOk(o, clients, disk, crossed, torn, misread)
  BY <1>3, <1>4 DEF Backup, State, BackupState, OwnerOk, BackupOk
<1>. HIDE DEF o
<1>6. RegisteredInv' /\ states' \in [DOMAIN states' -> State]
  BY <1>1, <1>5, RegisteredSet DEF ShellInv
<1>. QED BY <1>1, <1>3, <1>6, Registers

-----------------------------------------------------------------------------
(* Disconnecting. *)

\* A state leaves its tag and closes its client, if it does.
LEMMA Leaves ==
    ASSUME ShellInv, NEW tag \in DOMAIN states,
           states' = Disconnected(tag), UNCHANGED <<disk, crossed, torn, misread>>,
           \/ clients' = clients
           \/ Owns(states[tag]) /\ clients' = Closed(states[tag].client)
    PROVE  /\ RegisteredInv' /\ clients' \in Seq(ClientRec)
           /\ states' \in [DOMAIN states' -> State]
           /\ states[tag].kind = "backup" =>
                 \A t \in DOMAIN states' : states'[t].kind # "backup"
<1>1. /\ states \in [DOMAIN states -> State] /\ clients \in Seq(ClientRec)
      /\ Len(clients) \in Nat
  BY DEF ShellInv, ShellTypeOK
<1>2. /\ DOMAIN states' = DOMAIN states \ {tag}
      /\ \A t \in DOMAIN states' : states'[t] = states[t]
      /\ states' \in [DOMAIN states' -> State]
  BY <1>1 DEF Disconnected, Drop
<1>3. /\ clients' \in Seq(ClientRec) /\ Len(clients') = Len(clients)
      /\ \A i \in 1..Len(clients) :
            clients'[i] = clients[i] \/ (Owns(states[tag]) /\ i = states[tag].client /\ ~clients'[i].served)
  <2>1. CASE clients' = clients
    BY <1>1, <2>1
  <2>2. CASE Owns(states[tag]) /\ clients' = Closed(states[tag].client)
    <3>1. states[tag].client \in 1..Len(clients)
      BY <2>2, OwnerFacts
    <3>. QED BY <1>1, <2>2, <3>1, ClosedFacts
  <2>. QED BY <2>1, <2>2
<1>4. ASSUME NEW t \in DOMAIN states', Owns(states'[t])
      PROVE  \/ clients'[states'[t].client] = clients[states'[t].client]
             \/ /\ states'[t].client \in crossed /\ states'[t].kind # "backup"
                /\ ~clients'[states'[t].client].served
  <2>1. t \in DOMAIN states /\ t # tag /\ states'[t] = states[t] /\ Owns(states[t])
    BY <1>2, <1>4
  <2>2. states[t].client \in 1..Len(clients)
    BY <2>1, OwnerFacts
  <2>3. CASE clients'[states[t].client] # clients[states[t].client]
    <3>1. /\ Owns(states[tag]) /\ states[t].client = states[tag].client
          /\ ~clients'[states[t].client].served
      BY <1>3, <2>2, <2>3
    <3>2. states[t].client \in crossed
      BY <2>1, <3>1 DEF ShellInv, RegisteredInv, RegisteredOk
    <3>3. states[t].kind # "backup"
      <4>1. CASE states[tag].kind = "backup"
        BY <2>1, <4>1, <3>1 DEF ShellInv, RegisteredInv, RegisteredOk
      <4>2. CASE states[tag].kind # "backup"
        BY <2>1, <3>1, <4>2, OwnerFacts
      <4>. QED BY <4>1, <4>2
    <3>. QED BY <2>1, <3>1, <3>2, <3>3
  <2>. QED BY <2>1, <2>3
<1>5. \A t \in DOMAIN states' : states'[t].kind = "backup" => states'[t].dir \in DOMAIN disk
  BY <1>2, OwnerFacts DEF Owns
<1>6. RegisteredOk(states', clients', disk, crossed, torn, misread)
  BY <1>1, <1>2, <1>3, <1>4, <1>5, RegisteredKept DEF ShellInv, RegisteredInv
<1>7. RegisteredInv'
  BY <1>6 DEF RegisteredInv
<1>8. states[tag].kind = "backup" => \A t \in DOMAIN states' : states'[t].kind # "backup"
  BY <1>2 DEF ShellInv, RegisteredInv, RegisteredOk, Owns
<1>. QED BY <1>2, <1>3, <1>7, <1>8

LEMMA DisconnectStep ==
    ASSUME ShellInv, DisconnectCommand
    PROVE  ShellInv'
<1>1. /\ pc = "run" /\ line.cmd = "disconnect" /\ at = "start"
      /\ UNCHANGED <<pc, line, disk, crossed, torn, misread, starts>>
  BY DEF DisconnectCommand, Running, bounds, history
<1>2. job \in Job /\ job.comps \in Seq(STRING) /\ job.next = Absent
  BY <1>1 DEF ShellInv, ShellTypeOK, Job, NextInv, Active
<1>3. CASE job.comps = <<>>
  BY <1>1, <1>3, Prints DEF DisconnectCommand
<1>4. CASE job.comps # <<>>
  <2>. DEFINE tag == Head(job.comps)
              rest == [job EXCEPT !.comps = Tail(@)]
  <2>1. Tail(job.comps) \in Seq(STRING)
    BY <1>2, <1>4, HeadTailProperties
  <2>2. rest \in Job /\ rest.next = Absent
    BY <1>2, <2>1 DEF Job
  <2>3. CASE tag \notin DOMAIN states
    <3>1. job' = rest /\ UNCHANGED <<at, states, clients>>
      BY <1>4, <2>3 DEF DisconnectCommand
    <3>. HIDE DEF tag, rest
    <3>2. ShellTypeOK'
      BY <1>1, <2>2, <3>1 DEF ShellInv, ShellTypeOK, Active
    <3>3. RegisteredInv' /\ RootInv' /\ NextInv'
      BY <1>1, <2>2, <3>1 DEF ShellInv, RegisteredInv, RootInv, NextInv, Active
    <3>4. (ByInv /\ DialInv /\ ServeInv /\ InDirInv /\ NameInv /\ RemoveInv)'
      BY <1>1, <3>1 DEF ByInv, DialInv, ServeInv, InDirInv, NameInv, RemoveInv, InDir, Named, Loads
    <3>5. LoadedInv'
      BY <1>1, <3>1 DEF ShellInv, LoadedInv
    <3>. QED BY <3>2, <3>3, <3>4, <3>5 DEF ShellInv
  <2>4. CASE tag \in DOMAIN states
    <3>. DEFINE o == states[tag]
    <3>1. /\ states' = Disconnected(tag)
          /\ CASE o.kind = "kv" ->
                    clients' = Closed(o.client) /\ job' = rest /\ UNCHANGED at
               [] o.kind = "backup" ->
                    /\ clients' = Closed(o.client)
                    /\ job' = [rest EXCEPT !.dir = o.dir, !.back = "start"]
                    /\ at' = "remove"
               [] OTHER -> job' = rest /\ UNCHANGED <<at, clients>>
      BY <1>4, <2>4 DEF DisconnectCommand
    <3>. HIDE DEF rest, tag
    <3>2. \/ clients' = clients \/ (Owns(o) /\ clients' = Closed(o.client))
      BY <3>1 DEF Owns
    <3>3. \/ job' = rest /\ at' = "start"
          \/ /\ o.kind = "backup" /\ at' = "remove"
             /\ job' = [rest EXCEPT !.dir = o.dir, !.back = "start"]
      BY <1>1, <3>1
    <3>. HIDE DEF o
    <3>4. /\ RegisteredInv' /\ clients' \in Seq(ClientRec)
          /\ states' \in [DOMAIN states' -> State]
          /\ o.kind = "backup" => \A t \in DOMAIN states' : states'[t].kind # "backup"
      BY <1>1, <2>4, <3>1, <3>2, Leaves DEF o
    <3>5. o.kind = "backup" => o.dir \in DOMAIN disk /\ o.dir \in Dirs
      BY <2>4, OwnerFacts DEF o, Owns, ShellInv, ShellTypeOK
    <3>6. /\ job' \in Job /\ job'.next = Absent
          /\ at' = "remove" => job'.dir = o.dir /\ job'.back = "start" /\ o.kind = "backup"
      <4>1. CASE job' = rest /\ at' = "start"
        BY <2>2, <4>1
      <4>2. CASE /\ o.kind = "backup" /\ at' = "remove"
                 /\ job' = [rest EXCEPT !.dir = o.dir, !.back = "start"]
        BY <2>2, <3>5, <4>2 DEF Job
      <4>. QED BY <3>3, <4>1, <4>2
    <3>7. ShellTypeOK'
      BY <1>1, <3>4, <3>6 DEF ShellInv, ShellTypeOK, Active
    <3>8. RootInv' /\ NextInv'
      BY <1>1, <3>6 DEF RootInv, NextInv
    <3>9. RemoveInv'
      <4>1. at' = "remove" => NotTaken(job.dir)'
        BY <3>4, <3>6 DEF NotTaken
      <4>. QED BY <1>1, <3>5, <3>6, <4>1 DEF RemoveInv
    <3>10. (ByInv /\ DialInv /\ ServeInv /\ InDirInv /\ NameInv)'
      BY <1>1, <3>3 DEF ByInv, DialInv, ServeInv, InDirInv, NameInv, InDir, Named, Loads
    <3>11. LoadedInv'
      BY <1>1 DEF ShellInv, LoadedInv
    <3>. QED BY <3>4, <3>7, <3>8, <3>9, <3>10, <3>11 DEF ShellInv
  <2>. QED BY <2>3, <2>4
<1>. QED BY <1>3, <1>4

LEMMA RemoveAllStep ==
    ASSUME ShellInv, RemoveAll
    PROVE  ShellInv'
<1>1. /\ pc = "run" /\ at = "remove"
      /\ UNCHANGED <<pc, line, job, states, clients, crossed, torn, misread, starts>>
  BY DEF RemoveAll, bounds, history
<1>2. /\ job.dir \in DOMAIN disk /\ NotTaken(job.dir)
      /\ job.back \in {"start", "print"}
      /\ job.back = "start" => line.cmd = "disconnect"
      /\ job.next = Absent
      /\ disk \in [DOMAIN disk -> DirRec] /\ DOMAIN disk \subseteq Dirs /\ Len(clients) \in Nat
  BY <1>1 DEF ShellInv, ShellTypeOK, RemoveInv, NextInv, Active
<1>3. \/ disk' = Drop(disk, job.dir) /\ at' = job.back
      \/ /\ at' = at
         /\ \/ disk' = [disk EXCEPT ![job.dir].rows = "none"]
            \/ disk' = [disk EXCEPT ![job.dir].meta = Absent]
  BY <1>1 DEF RemoveAll
<1>4. /\ disk' \in [DOMAIN disk' -> DirRec] /\ DOMAIN disk' \subseteq Dirs
      /\ DOMAIN disk \ {job.dir} \subseteq DOMAIN disk' /\ DOMAIN disk' \subseteq DOMAIN disk
      /\ \A x \in DOMAIN disk \ {job.dir} : disk'[x] = disk[x]
      /\ job.dir \in DOMAIN disk' \/ at' = job.back
      /\ job.dir \in DOMAIN disk' => at' = at
      /\ at' = at \/ at' = job.back
  <2>1. CASE disk' = Drop(disk, job.dir) /\ at' = job.back
    BY <1>2, <2>1 DEF Drop
  <2>2. ASSUME NEW r \in DirRec, disk' = [disk EXCEPT ![job.dir] = r], at' = at
        PROVE  <1>4!:
    BY <1>2, <2>2
  <2>3. disk[job.dir] \in DirRec
    BY <1>2
  <2>4. CASE at' = at /\ disk' = [disk EXCEPT ![job.dir].rows = "none"]
    <3>1. [disk[job.dir] EXCEPT !.rows = "none"] \in DirRec
      BY <2>3 DEF DirRec
    <3>. QED BY <2>2, <2>4, <3>1
  <2>5. CASE at' = at /\ disk' = [disk EXCEPT ![job.dir].meta = Absent]
    <3>1. [disk[job.dir] EXCEPT !.meta = Absent] \in DirRec
      BY <2>3 DEF DirRec, Names
    <3>. QED BY <2>2, <2>5, <3>1
  <2>. QED BY <1>3, <2>1, <2>4, <2>5
<1>5. ShellTypeOK'
  BY <1>1, <1>4 DEF ShellInv, ShellTypeOK, Active
<1>6. RegisteredInv'
  BY <1>1, <1>2, <1>4, OtherDir
<1>7. RootInv' /\ NextInv'
  BY <1>1, <1>2 DEF RootInv, NextInv
<1>8. RemoveInv'
  BY <1>1, <1>2, <1>4 DEF RemoveInv, NotTaken
<1>9. (ByInv /\ DialInv /\ ServeInv /\ InDirInv /\ NameInv)'
  BY <1>1, <1>2, <1>4 DEF ByInv, DialInv, ServeInv, InDirInv, NameInv, InDir, Named, Loads
<1>10. LoadedInv'
  <2>1. ASSUME NEW x \in DOMAIN disk' \ torn', disk'[x].meta \notin Unnamed, x # job.dir
        PROVE  Loaded(disk'[x], disk'[x].meta)
    BY <1>1, <1>4, <2>1 DEF ShellInv, LoadedInv
  <2>. QED BY <1>1, <1>4, <2>1 DEF LoadedInv
<1>. QED BY <1>5, <1>6, <1>7, <1>8, <1>9, <1>10 DEF ShellInv

-----------------------------------------------------------------------------
(* The theorems. *)

LEMMA StepHolds == ShellInv /\ [Next]_vars => ShellInv'
<1>. SUFFICES ASSUME ShellInv, [Next]_vars PROVE ShellInv'
  OBVIOUS
<1>1. CASE Next
  BY <1>1, AroundStep, ReadLineStep, PrintStep, FindStep, ProcessStep, SetupStep, EndStep, DialStep,
     ConnectStep, SimpleStep, UseStep, OpenBackupStep, OpenWorkspaceStep, StartEmbedEtcdStep,
     RestoreStep, NoPartsStep, RestoredStep, RestoreFailsStep, SyncStep, WriteMetaStep, ReadMetaStep, ShowBackupStep,
     DisconnectStep, RemoveAllStep
     DEF Next, Command
<1>2. CASE UNCHANGED vars
  <2>1. UNCHANGED <<pc, line, by, at, job, states, root, clients, disk, crossed, torn, misread, starts>>
    BY <1>2 DEF vars, running, bounds, history
  <2>2. (ShellTypeOK /\ RegisteredInv /\ RootInv)'
    BY <2>1 DEF ShellInv, ShellTypeOK, Active, RegisteredInv, RootInv, Registered
  <2>3. LineInv'
    BY <2>1 DEF ShellInv, LineInv, ByInv, DialInv, NextInv, ServeInv, InDirInv, NameInv, RemoveInv,
           Active, Registered, Loads, InDir, Named, NotTaken
  <2>4. LoadedInv'
    BY <2>1 DEF ShellInv, LoadedInv
  <2>. QED BY <2>2, <2>3, <2>4 DEF ShellInv, LineInv
<1>. QED BY <1>1, <1>2

\* The inductive invariant: what a registered state owns is there, the line
\* has the directory it works on for itself, and a name follows its rows.
THEOREM ShellInvariance == Spec => []ShellInv
<1>1. Init => ShellInv
  BY InitHolds
<1>2. ShellInv /\ [Next]_vars => ShellInv'
  BY StepHolds
<1>. QED BY <1>1, <1>2, PTL DEF Spec

\* At every prompt the commands are those of the connected states, and each
\* of them finds its client open, its server running and its directory, but
\* for the shared clients and unreadable meta files that StatesUsable names.
THEOREM StatesStayUsable == Spec => []StatesUsable
<1>1. ShellInv => StatesUsable
  <2>. SUFFICES ASSUME ShellInv, pc = "read" PROVE StatesUsable
    BY DEF StatesUsable
  <2>1. root = Registered
    BY DEF ShellInv, RootInv
  <2>2. ASSUME NEW o \in Registered, Owns(o)
        PROVE  OwnerOk(o, clients, disk, crossed, torn, misread)
    BY <2>2 DEF ShellInv, RegisteredInv, RegisteredOk, Registered, Range
  <2>. QED BY <2>1, <2>2 DEF StatesUsable, OwnerOk, BackupOk
<1>. QED BY <1>1, ShellInvariance, PTL

\* Whatever fails, is interrupted or killed during load-backup and
\* open-workspace, a workspace that names an instance was loaded to the end
\* from a backup of that instance, unless its removal was cut short.
THEOREM WorkspacesStayLoaded == Spec => []WorkspacesLoaded
<1>1. ShellInv => WorkspacesLoaded
  <2>. SUFFICES ASSUME ShellInv PROVE WorkspacesLoaded
    OBVIOUS
  <2>1. \A d \in DOMAIN disk \ torn :
          disk[d].meta \notin {Absent, Garbled, Nameless} /\ at # "remove" =>
              disk[d].rows \in {"whole", "short"} /\ disk[d].of = disk[d].meta
    BY DEF ShellInv, LoadedInv, Loaded, Unnamed
  <2>2. ASSUME NEW o \in Registered, o.kind = "backup", o.name # Nameless, o.dir \notin torn
        PROVE  disk[o.dir].rows \in {"whole", "short"} /\ disk[o.dir].of = o.name
    BY <2>2 DEF ShellInv, RegisteredInv, RegisteredOk, Registered, Range, Owns, OwnerOk, BackupOk, Loaded
  <2>. QED BY <2>1, <2>2 DEF WorkspacesLoaded
<1>. QED BY <1>1, ShellInvariance, PTL

=============================================================================
