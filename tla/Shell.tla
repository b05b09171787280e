------------------------------- MODULE Shell -------------------------------
(***************************************************************************)
(* The shell: a line is read, run by the state that offers its command,    *)
(* and the commands of all connected states are merged again. States are   *)
(* kept by tag and own what they connected to: a client of a meta store,   *)
(* or an embedded etcd with its directory, which holds a loaded backup.    *)
(*                                                                         *)
(* One line runs at a time; beside it run the pager that shows its output, *)
(* the user who interrupts it, stores that become unreachable and a kill   *)
(* of the process between any two steps, of which only the disk survives.  *)
(***************************************************************************)
EXTENDS Naturals, Sequences, Functions

CONSTANTS
    Apps,           \* how the program may be started: [app, PAGER]
    Lines,          \* command lines: [cmd, ...] with the parameters that matter
    Stores,         \* addresses of meta stores
    MaxLines,       \* bound: lines in a behaviour
    MaxFaults,      \* bound: failing calls and stores that come or go
    MaxStarts,      \* bound: starts of the program after the first
    Absent

\* `disconnect` takes the names of components.
ASSUME LinesAssumption == \A l \in Lines : l.cmd = "disconnect" => l.comps \in Seq(STRING)

VARIABLES
    app,        \* which BApp reads the lines: "prompt", "simple" or "olc"
    PAGER,      \* "", "good", or "bad": set in the environment, cannot be started
    pc,         \* "read", "pager", "run", "drain", "setup" or "ended"
    line, by,   \* the line being processed and the state that runs it
    at,         \* where in the command the line is
    job,        \* what the command has made so far
    sigint,     \* Ctrl-C has been pressed during this line
    pager,      \* "off", "running", "gone" or "failed"
    states,     \* tag -> state
    root,       \* the states whose commands are merged in the root command
    clients,    \* every client of a meta store that the program has opened
    disk,       \* directory -> [rows, of, meta]; rows: "none", "part", "whole", or
                \* "short": loaded to the end, and entries of the file are missing
    up,         \* the stores that can be reached
    lines, faults, starts,
    (* history *)
    crossed,    \* clients that two tags have shared
    torn,       \* directories whose removal was cut short
    misread     \* directories whose meta file was there and could not be read

session == <<app, PAGER>>
history == <<crossed, torn, misread>>
bounds == <<lines, faults, starts>>
running == <<line, by, at, job, sigint>>
vars == <<session, pc, running, pager, states, root, clients, disk, up, bounds, history>>

-----------------------------------------------------------------------------
(* States. The kvConnectedState inside an InstanceState is KV(client).     *)

Core == [kind |-> "core"]
KV(c) == [kind |-> "kv", client |-> c]
Instance(c, audited) == [kind |-> "instance", client |-> c, audited |-> audited]
Backup(c, d, name, ready) ==
    [kind |-> "backup", client |-> c, dir |-> d, name |-> name, ready |-> ready]
Simple(tag) == [kind |-> tag]

Nameless == ""      \* instanceName before SetInstance
Garbled == "?"      \* a meta file that does not parse

Owns(o) == o.kind \in {"kv", "instance", "backup"}
Registered == Range(states)

\* Each state adds the commands its methods define.
Runners(l) ==
    CASE l.cmd \in {"use", "find-milvus"} -> {o \in root : o.kind = "kv"}
      [] l.cmd = "dry-mode" -> {o \in root : o.kind = "instance"}
      [] l.cmd = "show" -> {o \in root : o.kind \in {"instance", "backup"}}
      [] OTHER -> {Core}

Open(store, served) == [store |-> store, open |-> TRUE, served |-> served]
Closed(c) == [clients EXCEPT ![c].open = FALSE, ![c].served = FALSE]
\* An etcd server locks the directory it serves.
Served(d) == \E c \in DOMAIN clients : clients[c].served /\ clients[c].store = d

Fault == faults < MaxFaults /\ faults' = faults + 1
NoFault == UNCHANGED faults
\* A call that the environment may fail.
Outcome(ok) == IF ok THEN NoFault ELSE Fault

Put(f, k, v) == [x \in DOMAIN f \cup {k} |-> IF x = k THEN v ELSE f[x]]
Drop(f, k) == [x \in DOMAIN f \ {k} |-> f[x]]

NoJob == [client |-> Absent, dir |-> Absent, name |-> Nameless, ready |-> FALSE,
          comps |-> <<>>, back |-> Absent, next |-> Absent]

SetTagNext(tag, o) ==
    /\ states' = Put(states, tag, o)
    /\ crossed' = crossed \cup (IF Owns(o) /\ \E t \in DOMAIN states \ {tag} :
                                      Owns(states[t]) /\ states[t].client = o.client
                                THEN {o.client} ELSE {})

-----------------------------------------------------------------------------
(* The loop of the application. *)

Init ==
    /\ \E a \in Apps : app = a.app /\ PAGER = a.PAGER
    /\ pc = "read" /\ line = Absent /\ by = Absent /\ at = Absent /\ job = NoJob
    /\ sigint = FALSE /\ pager = "off"
    /\ states = <<>> /\ root = {} /\ clients = <<>>
    /\ disk = <<>> /\ up = Stores
    /\ lines = 0 /\ faults = 0 /\ starts = 0
    /\ crossed = {} /\ torn = {} /\ misread = {}

\* promptExecute looks for a pager; the simple and the one-line program have none.
AfterRead == IF app = "prompt" /\ PAGER # "" THEN "pager" ELSE "run"

\* promptExecute, simpleApp.Run and olcApp.Run up to Process. A line that no
\* merged command matches ends with an error that is ignored.
ReadLine ==
    /\ pc = "read" /\ lines < MaxLines
    /\ \E l \in Lines :
        /\ line' = l
        /\ lines' = lines + 1
        /\ \/ \E o \in Runners(l) : by' = o /\ at' = "start"
           \/ Runners(l) = {} /\ by' = Absent /\ at' = "done"
        /\ job' = [NoJob EXCEPT !.comps = IF l.cmd = "disconnect" THEN l.comps ELSE <<>>]
    /\ pc' = AfterRead
    /\ sigint' = FALSE /\ pager' = "off"
    /\ UNCHANGED <<session, states, root, clients, disk, up, faults, starts, history>>

\* os.Stdout becomes a pipe. A pager that cannot be started leaves it so,
\* with nobody at the other end.
StartPager ==
    /\ pc = "pager"
    /\ \/ pc' = "run" /\ pager' = (IF PAGER = "good" THEN "running" ELSE "failed") /\ NoFault
       \/ pc' = "read" /\ Fault /\ UNCHANGED pager      \* no pipe: the line is not run
    /\ UNCHANGED <<session, running, states, root, clients, disk, up, lines, starts, history>>

\* The goroutine that waits for the pager: it quits at the end of its input,
\* or before.
PagerExits ==
    /\ pager = "running"
    /\ pager' = "gone"
    /\ UNCHANGED <<session, pc, running, states, root, clients, disk, up, bounds, history>>

\* What a command prints fits the buffer of a pipe, or does not: only what
\* reads a meta store has more than a few lines to print.
Big == line.cmd = "show" /\ line.big

PrintOutput ==
    /\ pc = "run" /\ at = "print"
    /\ ~(pager = "failed" /\ Big)
    /\ at' = "done"
    /\ UNCHANGED <<session, pc, line, by, job, sigint, pager, states, root, clients, disk, up,
                   bounds, history>>

\* The end of ApplicationState.Process: a state that the command set as next
\* takes its tag.
Process ==
    /\ pc = "run" /\ at = "done"
    /\ IF job.next = Absent THEN UNCHANGED <<states, crossed>>
       ELSE SetTagNext(job.next.tag, job.next.state)
    /\ pc' = "drain"
    /\ UNCHANGED <<session, running, pager, root, clients, disk, up, bounds, torn, misread>>

\* Mutant: a pager that did not start is waited for.
PagerQuit == pager \in {"off", "gone"}

\* pagerSig is closed when there is no pager, it did not start, or it quit.
PagerDone == pager # "running"

Drain ==
    /\ pc = "drain" /\ PagerDone
    /\ pc' = "setup" /\ pager' = "off"
    /\ UNCHANGED <<session, running, states, root, clients, disk, up, bounds, history>>

IsEnding == "exit" \in DOMAIN states

\* A script does not look at IsEnding.
Ends == IsEnding /\ app # "olc"

\* A new root command gets the commands of every registered state.
SetupCommands ==
    /\ pc = "setup"
    /\ root' = Registered
    /\ pc' = IF Ends THEN "ended" ELSE "read"
    /\ line' = Absent /\ by' = Absent /\ at' = Absent /\ job' = NoJob /\ sigint' = FALSE
    /\ UNCHANGED <<session, pager, states, clients, disk, up, bounds, history>>

Running(cmd, where) == pc = "run" /\ line.cmd = cmd /\ at = where

\* Nothing but the place in the command changes.
GoTo(where) ==
    /\ at' = where
    /\ UNCHANGED <<session, pc, line, by, sigint, pager, states, root, clients, disk, up,
                   lines, starts, history>>

-----------------------------------------------------------------------------
(* connect: a client, the root path if it is to be found, a ping. *)

\* The options of the etcd connection that skip the ping.
AfterFind == IF line.dry \/ line.force THEN "register" ELSE "ping"

\* A TLS configuration that cannot be loaded, an invalid address, or a dial
\* that times out.
DialFails ==
    /\ Running("connect", "start")
    /\ IF line.store \in up THEN Fault ELSE NoFault
    /\ GoTo("print") /\ UNCHANGED job

Dialled(where) ==
    /\ line.store \in up /\ NoFault
    /\ clients' = Append(clients, Open(line.store, FALSE))
    /\ job' = [job EXCEPT !.client = Len(clients) + 1]
    /\ at' = where
    /\ UNCHANGED <<session, pc, line, by, sigint, pager, states, root, disk, up,
                   lines, starts, history>>

DialTiKV ==
    /\ Running("connect", "start") /\ line.tag = "tikv"
    /\ Dialled(IF line.dry THEN "register" ELSE "ping")

DialEtcd ==
    /\ Running("connect", "start") /\ line.tag = "etcd"
    /\ Dialled(IF line.auto THEN "find" ELSE AfterFind)

\* No candidate, or an error: the command returns and the client stays open.
FindInstance ==
    /\ Running("connect", "find")
    /\ \/ line.store \in up /\ ~sigint /\ GoTo(AfterFind)
       \/ (line.store \in up \/ sigint) /\ GoTo("print")
    /\ NoFault /\ UNCHANGED job

\* pingMetaStore within ten seconds; session/id is there, or is not.
Ping ==
    /\ Running("connect", "ping")
    /\ \/ line.store \in up /\ ~sigint /\ GoTo("register")
       \/ GoTo("print")
    /\ NoFault /\ UNCHANGED job

\* getInstanceState; without an audit file the instance is not audited.
Connect ==
    /\ Running("connect", "register")
    /\ \/ line.dry /\ SetTagNext(line.tag, KV(job.client)) /\ NoFault
       \/ ~line.dry /\ \E audited \in BOOLEAN :
            SetTagNext(line.tag, Instance(job.client, audited)) /\ Outcome(audited)
    /\ at' = "print"
    /\ UNCHANGED <<session, pc, line, by, job, sigint, pager, root, clients, disk, up,
                   lines, starts, torn, misread>>

\* A MinioState and a pulsarAdminState have nothing to close.
ConnectMinioCommand ==
    /\ Running("connect-minio", "start")
    /\ \/ SetTagNext("minio", Simple("minio")) /\ NoFault
       \/ UNCHANGED <<states, crossed>> /\ Fault
    /\ at' = "print"
    /\ UNCHANGED <<session, pc, line, by, job, sigint, pager, root, clients, disk, up,
                   lines, starts, torn, misread>>

PulsarctlCommand ==
    /\ Running("pulsarctl", "start")
    /\ \/ SetTagNext("pulsar", Simple("pulsar")) /\ NoFault
       \/ UNCHANGED <<states, crossed>> /\ Fault
    /\ at' = "print"
    /\ UNCHANGED <<session, pc, line, by, job, sigint, pager, root, clients, disk, up,
                   lines, starts, torn, misread>>

ExitCommand ==
    /\ Running("exit", "start")
    /\ SetTagNext("exit", Simple("exit"))
    /\ at' = "print"
    /\ UNCHANGED <<session, pc, line, by, job, sigint, pager, root, clients, disk, up,
                   bounds, torn, misread>>

\* A pager is only set if it is found.
SetEnvCommand ==
    /\ Running("set-pager", "start")
    /\ PAGER' \in {"", "good"}
    /\ at' = "print"
    /\ UNCHANGED <<app, pc, line, by, job, sigint, pager, states, root, clients, disk, up,
                   bounds, history>>

-----------------------------------------------------------------------------
(* The commands of a connected store. They wait without a deadline, and     *)
(* their context does not see the interrupt.                                *)

Client == clients[by.client]
Reachable == Client.served \/ Client.store \in up

UseCommand ==
    /\ Running("use", "start")
    /\ \/ /\ Client.open /\ Reachable
          /\ \E audited \in BOOLEAN :
              /\ job' = [job EXCEPT !.next = [tag |-> "etcd", state |-> Instance(by.client, audited)]]
              /\ Outcome(audited)
       \/ (~Client.open \/ Reachable) /\ UNCHANGED <<job, faults>>
    /\ GoTo("print")

DryModeCommand ==
    /\ Running("dry-mode", "start")
    /\ job' = [job EXCEPT !.next = [tag |-> "etcd", state |-> KV(by.client)]]
    /\ NoFault
    /\ GoTo("print")

FindMilvusCommand ==
    /\ Running("find-milvus", "start")
    /\ ~Client.open \/ Reachable
    /\ UNCHANGED job /\ NoFault
    /\ GoTo("print")

\* Any command that reads the meta store.
ShowCommand ==
    /\ Running("show", "start")
    /\ by.kind = "backup" => by.ready
    /\ ~Client.open \/ Reachable
    /\ UNCHANGED job /\ NoFault
    /\ GoTo("print")

-----------------------------------------------------------------------------
(* load-backup and open-workspace. *)

NewDir == [rows |-> "none", of |-> Absent, meta |-> Absent]

\* checkIsDirOrCreate
DirOrCreate(d) == IF d \in DOMAIN disk THEN disk ELSE Put(disk, d, NewDir)

\* Mutant: a folder that is there already is loaded into.
ExistingFolder(workspace) == workspace

\* createWorkspaceFolder: a folder that is there already is not used.
WorkspaceFolder(workspace) == IF workspace \in DOMAIN disk THEN Absent ELSE workspace

\* openBackupFile and the header; without a workspace folder the backup goes
\* to a temporary directory.
OpenBackup ==
    /\ Running("load-backup", "start")
    /\ \/ GoTo("print") /\ UNCHANGED job /\ (IF line.file.header THEN Fault ELSE NoFault)
       \/ /\ line.file.header
          /\ \E made \in BOOLEAN :
              /\ Outcome(made)
              /\ job' = [job EXCEPT !.dir = IF made THEN WorkspaceFolder(line.workspace) ELSE Absent]
          /\ disk' = IF job'.dir = Absent THEN disk ELSE DirOrCreate(job'.dir)
          /\ at' = "serve"
          /\ UNCHANGED <<session, pc, line, by, sigint, pager, states, root, clients, up,
                         lines, starts, history>>

OpenWorkspace ==
    /\ Running("open-workspace", "start")
    /\ IF line.workspace \in DOMAIN disk
       THEN GoTo("serve") /\ job' = [job EXCEPT !.dir = line.workspace]
       ELSE GoTo("print") /\ UNCHANGED job
    /\ NoFault

\* A temporary directory is new: no other has its name.
TempDir == <<"tmp", starts, Len(clients)>>

\* startEmbedEtcdServer, which waits for the lock of its directory, and
\* getEmbedEtcdInstanceV2, which merges the commands of a state without
\* components.
StartEmbedEtcd ==
    /\ pc = "run" /\ at = "serve"
    /\ LET dir == IF job.dir = Absent THEN TempDir ELSE job.dir
           c == Len(clients) + 1
       IN  /\ ~Served(dir)
           /\ \/ /\ NoFault
                 /\ disk' = IF job.dir = Absent THEN Put(disk, dir, NewDir) ELSE disk
                 /\ clients' = Append(clients, Open(dir, TRUE))
                 /\ job' = [job EXCEPT !.dir = dir, !.client = c]
                 /\ root' = root \cup {Backup(c, dir, Nameless, FALSE)}
                 /\ at' = IF line.cmd = "load-backup" THEN "restore" ELSE "setup"
              \/ /\ Fault /\ at' = "print" /\ UNCHANGED <<disk, clients, job, root>>
    /\ UNCHANGED <<session, pc, line, by, sigint, pager, states, up, lines, starts, history>>

\* embedEtcdMockState.Close: client, server, and then the directory.
CloseBackup(c, d, back) ==
    /\ clients' = Closed(c)
    /\ job' = [job EXCEPT !.dir = d, !.back = back]
    /\ at' = "remove"

\* The first rows are written, unless the version is not supported.
Restore ==
    /\ Running("load-backup", "restore")
    /\ IF line.file.version \in {1, 2}
       THEN /\ disk' = [disk EXCEPT ![job.dir] = [@ EXCEPT !.rows = "part", !.of = line.file.instance]]
            /\ at' = "restored"
            /\ UNCHANGED <<clients, job>>
       ELSE CloseBackup(job.client, job.dir, "print") /\ UNCHANGED disk
    /\ UNCHANGED <<session, pc, line, by, sigint, pager, states, root, up, bounds, history>>

\* The first part header of a version 2 file cannot be read: restoreV2File
\* returns nil before SetInstance, and the command goes on.
NoParts ==
    /\ Running("load-backup", "restore") /\ line.file.version = 2
    /\ Fault
    /\ GoTo("setup") /\ UNCHANGED job

\* restoreFromV1File or restoreV2File ends without an error. Entries that do
\* not parse, batches that MultiSave refuses and those behind an early end of
\* the file are only printed; and a worker that assigns the `err` it shares
\* with the command can take the reader's error away.
Restored ==
    /\ Running("load-backup", "restored")
    /\ \E rows \in {"whole", "short"} :
          disk' = [disk EXCEPT ![job.dir].rows = rows] /\ Outcome(rows = "whole")
    /\ job' = [job EXCEPT !.name = line.file.instance, !.ready = TRUE]
    /\ at' = "setup"
    /\ UNCHANGED <<session, pc, line, by, sigint, pager, states, root, clients, up, lines, starts,
                   history>>

\* It ends with an error: a read, or a Save of version 1, failed.
RestoreFails ==
    /\ Running("load-backup", "restored")
    /\ Fault /\ CloseBackup(job.client, job.dir, "print")
    /\ UNCHANGED <<session, pc, line, by, sigint, pager, states, root, disk, up, lines, starts,
                   history>>

\* syncWorkspaceInfo: a meta file that is not there is created. If it cannot
\* be looked at, the command returns and the server goes on running.
SyncWorkspaceInfo ==
    /\ pc = "run" /\ at = "setup"
    /\ \/ disk[job.dir].meta # Absent /\ at' = "read" /\ NoFault /\ UNCHANGED disk
       \/ /\ disk[job.dir].meta = Absent /\ NoFault
          /\ disk' = [disk EXCEPT ![job.dir].meta = Garbled]
          /\ at' = "meta"
       \/ disk[job.dir].meta = Absent /\ Fault /\ at' = "read" /\ UNCHANGED disk
       \/ Fault /\ at' = "print" /\ UNCHANGED disk
    /\ UNCHANGED <<session, pc, line, by, job, sigint, pager, states, root, clients, up,
                   lines, starts, history>>

WriteWorkspaceMeta ==
    /\ pc = "run" /\ at = "meta"
    /\ \/ disk' = [disk EXCEPT ![job.dir].meta = job.name] /\ NoFault
       \/ UNCHANGED disk /\ Fault
    /\ at' = "read"
    /\ UNCHANGED <<session, pc, line, by, job, sigint, pager, states, root, clients, up,
                   lines, starts, history>>

\* What cannot be read is reported and passed over.
ReadWorkspaceMeta ==
    /\ pc = "run" /\ at = "read"
    /\ LET meta == disk[job.dir].meta
       IN  \/ /\ meta \notin {Absent, Garbled} /\ NoFault
              /\ job' = [job EXCEPT !.name = meta, !.ready = TRUE]
              /\ UNCHANGED misread
           \/ meta \in {Absent, Garbled} /\ NoFault /\ UNCHANGED <<job, misread>>
           \/ meta # Absent /\ Fault /\ UNCHANGED job /\ misread' = misread \cup {job.dir}
    /\ at' = "register"
    /\ UNCHANGED <<session, pc, line, by, sigint, pager, states, root, clients, disk, up,
                   lines, starts, crossed, torn>>

ShowBackup ==
    /\ pc = "run" /\ at = "register" /\ line.cmd \in {"load-backup", "open-workspace"}
    /\ SetTagNext("etcd", Backup(job.client, job.dir, job.name, job.ready))
    /\ at' = "print"
    /\ UNCHANGED <<session, pc, line, by, job, sigint, pager, root, clients, disk, up,
                   bounds, torn, misread>>

-----------------------------------------------------------------------------
(* disconnect *)

\* Mutant: the tag of a closed state is kept.
StillConnected(tag) == states

Disconnected(tag) == Drop(states, tag)

\* One component of the line; the states of stores close their client, an
\* instance only its audit file.
DisconnectCommand ==
    /\ Running("disconnect", "start")
    /\ IF job.comps = <<>>
       THEN at' = "print" /\ UNCHANGED <<job, states, clients>>
       ELSE LET tag == Head(job.comps)
                rest == [job EXCEPT !.comps = Tail(@)]
            IN  IF tag \notin DOMAIN states
                THEN job' = rest /\ UNCHANGED <<at, states, clients>>
                ELSE LET o == states[tag]
                     IN  /\ states' = Disconnected(tag)
                         /\ CASE o.kind = "kv" ->
                                    clients' = Closed(o.client) /\ job' = rest /\ UNCHANGED at
                              [] o.kind = "backup" ->
                                    /\ clients' = Closed(o.client)
                                    /\ job' = [rest EXCEPT !.dir = o.dir, !.back = "start"]
                                    /\ at' = "remove"
                              [] OTHER -> job' = rest /\ UNCHANGED <<at, clients>>
    /\ UNCHANGED <<session, pc, line, by, sigint, pager, root, disk, up, bounds, history>>

\* os.RemoveAll takes the entries of the directory one by one.
RemoveAll ==
    /\ pc = "run" /\ at = "remove"
    /\ LET d == job.dir
       IN  IF disk[d].rows = "none" \/ disk[d].meta = Absent
           THEN disk' = Drop(disk, d) /\ at' = job.back
           ELSE /\ disk' \in {[disk EXCEPT ![d].rows = "none"], [disk EXCEPT ![d].meta = Absent]}
                /\ UNCHANGED at
    /\ UNCHANGED <<session, pc, line, by, job, sigint, pager, states, root, clients, up,
                   bounds, history>>

-----------------------------------------------------------------------------
(* The environment. *)

\* A line that waits for something, and may be interrupted.
Waiting == pc = "run" /\ (at \in {"find", "serve"} \/ (at = "start" /\ by # Core))

\* Ctx: only the context of the application's own commands is bound to SIGINT.
Interrupt ==
    /\ Waiting /\ ~sigint
    /\ sigint' = TRUE
    /\ UNCHANGED <<session, pc, line, by, at, job, pager, states, root, clients, disk, up,
                   bounds, history>>

\* It makes no difference before a line looks at the store.
StoreComesOrGoes ==
    /\ pc = "run" /\ at \in {"start", "find", "ping"}
    /\ Fault
    /\ \E s \in Stores : up' = IF s \in up THEN up \ {s} ELSE up \cup {s}
    /\ UNCHANGED <<session, pc, running, pager, states, root, clients, disk, lines, starts, history>>

\* Nothing is closed, not even at `exit`: only the disk is left.
Forget ==
    /\ torn' = torn \cup (IF at = "remove" THEN {job.dir} ELSE {})
    /\ line' = Absent /\ by' = Absent /\ at' = Absent /\ job' = NoJob /\ sigint' = FALSE
    /\ pager' = "off" /\ states' = <<>> /\ root' = {} /\ clients' = <<>> /\ crossed' = {}

Kill ==
    /\ starts < MaxStarts /\ pc # "ended"
    /\ pc' = "ended" /\ Forget
    /\ UNCHANGED <<session, disk, up, bounds, misread>>

\* The components of a backup that was never given an instance are nil.
Panic ==
    /\ Running("show", "start") /\ by.kind = "backup" /\ ~by.ready
    /\ pc' = "ended" /\ Forget
    /\ UNCHANGED <<session, disk, up, bounds, misread>>

Restart ==
    /\ pc = "ended" /\ starts < MaxStarts
    /\ pc' = "read" /\ Forget
    /\ \E a \in Apps : app' = a.app /\ PAGER' = a.PAGER
    /\ starts' = starts + 1
    /\ UNCHANGED <<disk, up, lines, faults, misread>>

-----------------------------------------------------------------------------

Command ==
    \/ StartPager \/ PrintOutput \/ Process \/ Drain \/ SetupCommands
    \/ DialFails \/ DialTiKV \/ DialEtcd \/ FindInstance \/ Ping \/ Connect
    \/ ConnectMinioCommand \/ PulsarctlCommand \/ ExitCommand \/ SetEnvCommand
    \/ UseCommand \/ DryModeCommand \/ FindMilvusCommand \/ ShowCommand \/ Panic
    \/ OpenBackup \/ OpenWorkspace \/ StartEmbedEtcd
    \/ Restore \/ NoParts \/ Restored \/ RestoreFails
    \/ SyncWorkspaceInfo \/ WriteWorkspaceMeta \/ ReadWorkspaceMeta \/ ShowBackup
    \/ DisconnectCommand \/ RemoveAll

Next == ReadLine \/ Command \/ PagerExits \/ Interrupt \/ StoreComesOrGoes \/ Kill \/ Restart

\* The program goes on with its line, the user quits the pager, and
\* interrupts a line that waits.
Spec ==
    /\ Init /\ [][Next]_vars
    /\ WF_vars(Command) /\ WF_vars(PagerExits) /\ WF_vars(Interrupt)

-----------------------------------------------------------------------------
(* Properties. *)

\* Whenever a line can be read, the commands that it can reach are those of
\* the states that are connected, and each of them works: its client is
\* open, and behind a loaded backup the server runs on a directory that is
\* there, with components to answer. The exceptions: a client that two tags
\* share, which `dry-mode` and `use` of a TiKV connection bring about as
\* they always take the tag etcd, is closed for both by one disconnect; and
\* a backup whose meta file could not be read has no components.
StatesUsable ==
    pc = "read" =>
        /\ root = Registered
        /\ \A o \in Registered : Owns(o) =>
              /\ clients[o.client].open \/ o.client \in crossed
              /\ o.kind = "backup" =>
                    /\ clients[o.client].served /\ o.dir \in DOMAIN disk
                    /\ o.ready \/ disk[o.dir].meta \in {Absent, Garbled} \/ o.dir \in misread

\* A workspace that names an instance was loaded to the end from a backup of
\* that instance, and from no other, whatever was interrupted, killed or
\* reported as failed while it was loaded: the meta file is written last. A
\* removal that was cut short by a kill may leave the name without the rows.
\* What a connected backup calls itself is what it was loaded from. That the
\* end of a load means that no entry is missing is WorkspacesWhole.
WorkspacesLoaded ==
    /\ \A d \in DOMAIN disk \ torn :
          disk[d].meta \notin {Absent, Garbled, Nameless} /\ at # "remove" =>
              disk[d].rows \in {"whole", "short"} /\ disk[d].of = disk[d].meta
    /\ pc = "read" => \A o \in Registered :
          o.kind = "backup" /\ o.name # Nameless /\ o.dir \notin torn =>
              disk[o.dir].rows \in {"whole", "short"} /\ disk[o.dir].of = o.name

\* A backup at the prompt that is called after an instance has every entry of
\* its file: LoadBackupCommand has a branch for a file that could not be
\* restored. It is not taken when restoreEtcdFromBackV2 only prints what failed.
\* The code does not keep it: see the findings.
WorkspacesWhole ==
    pc = "read" => \A o \in Registered :
        o.kind = "backup" /\ o.name # Nameless /\ o.dir \notin torn => disk[o.dir].rows = "whole"

\* The ways a line never comes back, short of a kill: the workspace is served
\* by this very program, nobody reads the pipe that took the place of
\* standard output, or a command of a connected state waits for its store.
Stuck ==
    /\ pc = "run"
    /\ \/ at = "serve" /\ Served(job.dir)
       \/ at = "print" /\ pager = "failed" /\ Big
       \/ at = "start" /\ by # Core /\ Client.open /\ ~Reachable

\* Every line comes back to the prompt, or ends the program, or is stuck in
\* one of those ways; a user who interrupts `connect` gets the prompt back.
LineReturns ==
    pc \in {"pager", "run", "drain", "setup"} ~> (pc \in {"read", "ended"} \/ Stuck)

=============================================================================
