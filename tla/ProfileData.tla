----------------------------- MODULE ProfileData -----------------------------
(***************************************************************************)
(* The files of one profile and the commands that share them: the lock     *)
(* file (runtime_lock.py), the attachment rows and the content-addressed   *)
(* objects they name (tools/attachments.py, tools/object_store.py), the    *)
(* archives (backup.py), the offline export and the deletion of a          *)
(* conversation (data.py), and the emergency stop (cli.py).                *)
(*                                                                         *)
(* A file or directory that may be missing is a set of at most one value.  *)
(* A row <<chat, digest>> stands for one attachment of a conversation and  *)
(* for every other row that carries its chat_id.                           *)
(***************************************************************************)
EXTENDS Integers, FiniteSets

CONSTANTS Proc,        \* operating-system processes running a lemonbot command
          Chat, Digest,
          MaxStarts,   \* bound: commands started
          MaxCrashes,  \* bound: processes killed
          MaxFaults    \* bound: I/O errors met by the file operations

VARIABLES lockPath,    \* inode at paths.lock_file, 0 when there is none
          fd,          \* process -> inode it has open, 0 when none
          holds,       \* processes whose flock is granted
          job, pc,     \* what each process runs and its next step
          mem,         \* process -> the command's local variables
          full,        \* cores whose capacity breaker is latched
          db, objects, \* paths.database and paths.objects
          incoming,    \* digests with an incoming-* temporary in the object store
          archives,    \* finished archives: rows, objs, whole
          estop,       \* paths.emergency_stop_file exists
          starts, crashes, faults,
          stopped,     \* history: a stop succeeded and no reset followed it
          committed,   \* history: rows the core reported stored, not deleted since
          breached,    \* history: two processes held the profile lock at once
          tainted,     \* history: a restore switch was cut short, or its archive was not whole
          crossed      \* history: a resume lifted the stop file of a stop still waiting

lockVars == <<lockPath, fd, holds>>
diskVars == <<db, objects, incoming, archives, estop>>
historyVars == <<stopped, committed, breached, tainted, crossed>>
boundVars == <<starts, crashes, faults>>
profileVars == <<lockVars, job, pc, mem, full, diskVars, boundVars, historyVars>>

ObjectRow == Chat \X Digest
Jobs == {"serve", "backup", "export", "delete", "restore", "outbox", "stop", "resume"}
Empty == [rows |-> {}, objs |-> {}, saved |-> [db |-> {}, objects |-> {}], whole |-> TRUE]
Rows == UNION db
Objects == UNION objects
Inode == 1..(Cardinality(Proc) + 1)

\* A core that passed initialize() and serves.
CoreSteps == {"ready", "rename", "insert"}
Core(p) == job[p] = "serve" /\ pc[p] \in CoreSteps
SwitchSteps == {"move_objects", "install_db", "install_objects",
                "undo_db", "undo_objects", "undo_move"}
Switching(p) == pc[p] \in SwitchSteps
Copying(p) == pc[p] \in {"inventory", "archive"}

Goto(p, step) == pc' = [pc EXCEPT ![p] = step]
Local(p, m) == mem' = [mem EXCEPT ![p] = m]
Fault == faults < MaxFaults /\ faults' = faults + 1

\* A change of the objects under a copy in progress: that archive is not whole.
Tear(p) == [q \in Proc |-> IF q # p /\ Copying(q) THEN [mem[q] EXCEPT !.whole = FALSE]
                           ELSE mem[q]]

ProfileInit ==
    /\ lockPath = 0 /\ fd = [p \in Proc |-> 0] /\ holds = {}
    /\ job = [p \in Proc |-> "serve"] /\ pc = [p \in Proc |-> "idle"]
    /\ mem = [p \in Proc |-> Empty] /\ full = {}
    /\ db = {} /\ objects = {} /\ incoming = {} /\ archives = {} /\ estop = FALSE
    /\ starts = 0 /\ crashes = 0 /\ faults = 0
    /\ stopped = FALSE /\ committed = {} /\ breached = FALSE /\ tainted = FALSE
    /\ crossed = FALSE

-----------------------------------------------------------------------------
(* A command starts. Every one but export and delete runs paths.ensure();   *)
(* those two refuse a profile without a database. Stop writes its file      *)
(* before it tries the lock; backup never takes it.                         *)

Start(p, j) ==
    /\ pc[p] = "idle" /\ starts < MaxStarts
    /\ j \in {"export", "delete"} => db # {}
    /\ starts' = starts + 1
    /\ job' = [job EXCEPT ![p] = j]
    /\ \E a \in IF j = "restore" THEN archives ELSE {Empty} :
          Local(p, [Empty EXCEPT !.rows = a.rows, !.objs = a.objs, !.whole = a.whole])
    /\ objects' = IF j \notin {"export", "delete"} /\ objects = {} THEN {{}} ELSE objects
    /\ estop' = (estop \/ j = "stop")
    /\ Goto(p, IF j = "backup" THEN "snapshot" ELSE "open")
    /\ UNCHANGED <<lockVars, full, db, incoming, archives, crashes, faults, historyVars>>

(* RuntimeLock.__enter__: os.open(O_CREAT), then a flock that does not wait. *)

Open(p) ==
    /\ pc[p] = "open"
    /\ lockPath' = IF lockPath # 0 THEN lockPath
                   ELSE CHOOSE i \in Inode : \A q \in Proc : fd[q] # i
    /\ fd' = [fd EXCEPT ![p] = lockPath']
    /\ Goto(p, "flock")
    /\ UNCHANGED <<holds, job, mem, full, diskVars, boundVars, historyVars>>

FirstStep(j) == CASE j = "serve" -> "initialize"
                  [] j = "export" -> "snapshot"
                  [] j = "delete" -> "erase"
                  [] j = "restore" -> "preserve"
                  [] OTHER -> "persist"

Flock(p) ==
    /\ pc[p] = "flock"
    /\ IF \E q \in holds : fd[q] = fd[p]
       THEN /\ fd' = [fd EXCEPT ![p] = 0] /\ Goto(p, "idle")
            /\ UNCHANGED <<holds, breached>>
       ELSE /\ holds' = holds \cup {p} /\ Goto(p, FirstStep(job[p]))
            /\ breached' = (breached \/ holds # {})
            /\ UNCHANGED fd
    /\ UNCHANGED <<lockPath, job, mem, full, diskVars, boundVars, stopped, committed, tainted,
                   crossed>>

(* RuntimeLock.__exit__: unlock and close, then unlink the path. *)

Unlock(p) ==
    /\ pc[p] = "unlock"
    /\ holds' = holds \ {p} /\ fd' = [fd EXCEPT ![p] = 0]
    /\ Goto(p, "unlink") /\ full' = full \ {p}
    /\ UNCHANGED <<lockPath, job, mem, diskVars, boundVars, historyVars>>

Unlink(p) ==
    /\ pc[p] = "unlink"
    /\ lockPath' = 0 /\ Goto(p, "idle") /\ Local(p, Empty)
    /\ UNCHANGED <<fd, holds, job, full, diskVars, boundVars, historyVars>>

-----------------------------------------------------------------------------
(* The core. initialize() refuses to start under the emergency stop and     *)
(* creates a missing database.                                              *)

Initialize(p) ==
    /\ pc[p] = "initialize"
    /\ IF estop THEN Goto(p, "unlock") /\ UNCHANGED db
       ELSE Goto(p, "ready") /\ db' = IF db = {} THEN {{}} ELSE db
    /\ UNCHANGED <<lockVars, job, mem, full, objects, incoming, archives, estop, boundVars,
                   historyVars>>

\* ingest: the capacity check, then put_bytes to a temporary file, its rename,
\* and only then the row.
Put(p, c, d) ==
    /\ Core(p) /\ pc[p] = "ready" /\ p \notin full
    /\ Local(p, [Empty EXCEPT !.rows = {<<c, d>>}])
    /\ IF d \in Objects THEN Goto(p, "insert") /\ UNCHANGED incoming
       ELSE Goto(p, "rename") /\ incoming' = incoming \cup {d}
    /\ UNCHANGED <<lockVars, job, full, db, objects, archives, estop, boundVars, historyVars>>

PutRefused(p) ==
    /\ Core(p) /\ pc[p] = "ready" /\ p \notin full
    /\ Fault /\ full' = full \cup {p}
    /\ UNCHANGED <<lockVars, job, pc, mem, diskVars, starts, crashes, historyVars>>

Rename(p) ==
    /\ pc[p] = "rename"
    /\ \E r \in mem[p].rows : objects' = {Objects \cup {r[2]}} /\ incoming' = incoming \ {r[2]}
    /\ Goto(p, "insert")
    /\ UNCHANGED <<lockVars, job, mem, full, db, archives, estop, boundVars, historyVars>>

\* A write error removes the temporary file and, when space ran out, latches the breaker.
RenameFails(p) ==
    /\ pc[p] = "rename" /\ Fault
    /\ \E r \in mem[p].rows : incoming' = incoming \ {r[2]}
    /\ full' \in {full, full \cup {p}}
    /\ Local(p, Empty) /\ Goto(p, "ready")
    /\ UNCHANGED <<lockVars, job, db, objects, archives, estop, starts, crashes, historyVars>>

Insert(p) ==
    /\ pc[p] = "insert"
    /\ db' = {Rows \cup mem[p].rows} /\ committed' = committed \cup mem[p].rows
    /\ Local(p, Empty) /\ Goto(p, "ready")
    /\ UNCHANGED <<lockVars, job, full, objects, incoming, archives, estop, boundVars, stopped,
                   breached, tainted, crossed>>

Recheck(p) ==
    /\ Core(p) /\ pc[p] = "ready" /\ p \in full
    /\ full' = full \ {p}
    /\ UNCHANGED <<lockVars, job, pc, mem, diskVars, boundVars, historyVars>>

Shutdown(p) ==
    /\ Core(p) /\ pc[p] = "ready"
    /\ Goto(p, "unlock")
    /\ UNCHANGED <<lockVars, job, mem, full, diskVars, boundVars, historyVars>>

-----------------------------------------------------------------------------
(* create_backup, which backup, export and restore (for the state it is     *)
(* about to replace) all run: database first, then the object inventory,    *)
(* then the archive itself, installed by one rename.                        *)

AfterArchive(j) == CASE j = "backup" -> "idle"
                     [] j = "export" -> "unlock"
                     [] j = "restore" -> "stage"

GiveUpStep(j) == IF j = "backup" THEN "idle" ELSE "unlock"

\* Mutant: the current state is replaced without a copy.
PreserveNever(p) ==
    /\ pc[p] = "preserve" /\ Goto(p, "stage")
    /\ Local(p, [mem[p] EXCEPT !.saved = [db |-> {mem[p].rows}, objects |-> {mem[p].objs}]])
    /\ UNCHANGED <<lockVars, job, full, diskVars, boundVars, historyVars>>

\* Restore keeps the chosen archive in saved while it copies the current state.
Preserve(p) ==
    /\ pc[p] = "preserve"
    /\ IF db = {} THEN Goto(p, "stage") ELSE Goto(p, "snapshot")
    /\ Local(p, [mem[p] EXCEPT !.saved = [db |-> {mem[p].rows}, objects |-> {mem[p].objs}]])
    /\ UNCHANGED <<lockVars, job, full, diskVars, boundVars, historyVars>>

Snapshot(p) ==
    /\ pc[p] = "snapshot"
    /\ IF db = {} THEN Goto(p, GiveUpStep(job[p])) /\ UNCHANGED mem
       ELSE /\ Goto(p, "inventory")
            /\ Local(p, [mem[p] EXCEPT !.rows = Rows,
                                       !.whole = ~\E q \in Proc \ {p} : Switching(q)])
    /\ UNCHANGED <<lockVars, job, full, diskVars, boundVars, historyVars>>

\* An incoming-* file is not content-addressed: the inventory refuses the store.
Inventory(p) ==
    /\ pc[p] = "inventory"
    /\ IF incoming # {} THEN Goto(p, GiveUpStep(job[p])) /\ UNCHANGED mem
       ELSE Goto(p, "archive") /\ Local(p, [mem[p] EXCEPT !.objs = Objects])
    /\ UNCHANGED <<lockVars, job, full, diskVars, boundVars, historyVars>>

\* Mutant: the database copy is taken after the inventory.
ArchiveLateRows(p) ==
    /\ pc[p] = "archive" /\ mem[p].objs \subseteq Objects
    /\ archives' = archives \cup {[rows |-> Rows, objs |-> mem[p].objs, whole |-> mem[p].whole]}
    /\ Goto(p, AfterArchive(job[p]))
    /\ UNCHANGED <<lockVars, job, mem, full, db, objects, incoming, estop, boundVars, historyVars>>

\* Zipping reads the inventoried objects again; one that is gone ends the command.
Archive(p) ==
    /\ pc[p] = "archive"
    /\ IF mem[p].objs \subseteq Objects
       THEN /\ archives' = archives \cup
                  {[rows |-> mem[p].rows, objs |-> mem[p].objs, whole |-> mem[p].whole]}
            /\ Goto(p, AfterArchive(job[p]))
       ELSE Goto(p, GiveUpStep(job[p])) /\ UNCHANGED archives
    /\ UNCHANGED <<lockVars, job, mem, full, db, objects, incoming, estop, boundVars, historyVars>>

CommandFails(p) ==
    /\ pc[p] \in {"initialize", "snapshot", "inventory", "archive", "stage",
                   "erase", "persist"} /\ Fault
    /\ Goto(p, GiveUpStep(job[p]))
    /\ UNCHANGED <<lockVars, job, mem, full, diskVars, starts, crashes, historyVars>>

-----------------------------------------------------------------------------
(* delete_conversation: one transaction takes the rows and decides which    *)
(* objects no other conversation names; they are unlinked after the commit. *)

\* Mutant: the digests of the conversation, shared or not.
UnsharedAll(c) == {r[2] : r \in {x \in Rows : x[1] = c}}

Unshared(c) == {r[2] : r \in {x \in Rows : x[1] = c}} \ {r[2] : r \in {x \in Rows : x[1] # c}}

Erase(p, c) ==
    /\ pc[p] = "erase"
    /\ IF \E r \in Rows : r[1] = c
       THEN /\ db' = {{r \in Rows : r[1] # c}}
            /\ committed' = {r \in committed : r[1] # c}
            /\ Local(p, [Empty EXCEPT !.objs = Unshared(c) \cap Objects])
            /\ Goto(p, "remove")
       ELSE Goto(p, "unlock") /\ UNCHANGED <<db, committed, mem>>
    /\ UNCHANGED <<lockVars, job, full, objects, incoming, archives, estop, boundVars, stopped,
                   breached, tainted, crossed>>

Remove(p) ==
    /\ pc[p] = "remove"
    /\ IF mem[p].objs = {} THEN Goto(p, "unlock") /\ UNCHANGED <<objects, mem>>
       ELSE \E d \in mem[p].objs :
               /\ objects' = {Objects \ {d}}
               /\ mem' = [Tear(p) EXCEPT ![p].objs = @ \ {d}]
               /\ UNCHANGED pc
    /\ UNCHANGED <<lockVars, job, full, db, incoming, archives, estop, boundVars, historyVars>>

RemoveFails(p) ==
    /\ pc[p] = "remove" /\ Fault
    /\ \E d \in mem[p].objs : Local(p, [mem[p] EXCEPT !.objs = @ \ {d}])
    /\ UNCHANGED <<lockVars, job, pc, full, diskVars, starts, crashes, historyVars>>

-----------------------------------------------------------------------------
(* _restore_backup_locked and _atomic_install_restore: stage, move the old  *)
(* database and objects into the rollback directory, install the new ones.  *)

Stage(p) ==
    /\ pc[p] = "stage"
    /\ \E a \in mem[p].saved.db, o \in mem[p].saved.objects :
          Local(p, [Empty EXCEPT !.rows = a, !.objs = o, !.whole = mem[p].whole])
    /\ Goto(p, "move_db")
    /\ UNCHANGED <<lockVars, job, full, diskVars, boundVars, historyVars>>

MoveDb(p) ==
    /\ pc[p] = "move_db"
    /\ db' = {} /\ mem' = [Tear(p) EXCEPT ![p].saved.db = db]
    /\ Goto(p, "move_objects")
    /\ UNCHANGED <<lockVars, job, full, objects, incoming, archives, estop, boundVars, historyVars>>

MoveObjects(p) ==
    /\ pc[p] = "move_objects"
    /\ objects' = {} /\ mem' = [Tear(p) EXCEPT ![p].saved.objects = objects]
    /\ incoming' = {}
    /\ Goto(p, "install_db")
    /\ UNCHANGED <<lockVars, job, full, db, archives, estop, boundVars, historyVars>>

InstallDb(p) ==
    /\ pc[p] = "install_db"
    /\ db' = {mem[p].rows} /\ Goto(p, "install_objects") /\ mem' = Tear(p)
    /\ UNCHANGED <<lockVars, job, full, objects, incoming, archives, estop, boundVars, historyVars>>

\* The last rename; leaving the temporary directory deletes the rollback copy.
InstallObjects(p) ==
    /\ pc[p] = "install_objects"
    /\ objects' = {mem[p].objs}
    /\ tainted' = (tainted \/ \E r \in mem[p].rows : r[2] \notin mem[p].objs)
    /\ mem' = [Tear(p) EXCEPT ![p] = Empty] /\ Goto(p, "unlock")
    /\ UNCHANGED <<lockVars, job, full, db, incoming, archives, estop, boundVars, stopped,
                   committed, breached, crossed>>

SwitchFails(p) ==
    /\ Fault
    /\ \/ pc[p] = "move_db" /\ Goto(p, "unlock")
       \/ pc[p] \in {"move_objects", "install_db"} /\ Goto(p, "undo_objects")
       \/ pc[p] = "install_objects" /\ Goto(p, "undo_db")
    /\ UNCHANGED <<lockVars, job, mem, full, diskVars, starts, crashes, historyVars>>

\* The rollback: new database away, then old objects and old database back.
UndoDb(p) ==
    /\ pc[p] = "undo_db"
    /\ db' = {} /\ Goto(p, "undo_objects") /\ mem' = Tear(p)
    /\ UNCHANGED <<lockVars, job, full, objects, incoming, archives, estop, boundVars, historyVars>>

UndoObjects(p) ==
    /\ pc[p] = "undo_objects"
    /\ objects' = IF mem[p].saved.objects = {} THEN objects ELSE mem[p].saved.objects
    /\ mem' = Tear(p) /\ Goto(p, "undo_move")
    /\ UNCHANGED <<lockVars, job, full, db, incoming, archives, estop, boundVars, historyVars>>

UndoMove(p) ==
    /\ pc[p] = "undo_move"
    /\ db' = IF mem[p].saved.db = {} THEN db ELSE mem[p].saved.db
    /\ mem' = [Tear(p) EXCEPT ![p] = Empty] /\ Goto(p, "unlock")
    /\ UNCHANGED <<lockVars, job, full, objects, incoming, archives, estop, boundVars, historyVars>>

\* A second error ends the rollback, and the temporary directory goes with it.
UndoFails(p) ==
    /\ pc[p] \in {"undo_db", "undo_objects", "undo_move"} /\ Fault
    /\ tainted' = TRUE /\ Local(p, Empty) /\ Goto(p, "unlock")
    /\ UNCHANGED <<lockVars, job, full, diskVars, starts, crashes, stopped, committed, breached,
                   crossed>>

-----------------------------------------------------------------------------
(* stop, resume and the outbox commands: one short transaction under the    *)
(* lock; resume removes the stop file only after the observe boundary is    *)
(* reset.                                                                   *)

\* Mutant: resume removes the stop file before the boundary is reset.
PersistAfterLift(p) ==
    /\ pc[p] = "persist"
    /\ db' = IF db = {} THEN {{}} ELSE db
    /\ stopped' = (stopped \/ job[p] = "stop")
    /\ estop' = (estop /\ job[p] # "resume")
    /\ Goto(p, IF job[p] = "resume" THEN "lift" ELSE "unlock")
    /\ UNCHANGED <<lockVars, job, mem, full, objects, incoming, archives, boundVars,
                   committed, breached, tainted, crossed>>

Persist(p) ==
    /\ pc[p] = "persist"
    /\ db' = IF db = {} THEN {{}} ELSE db
    /\ stopped' = CASE job[p] = "stop" -> TRUE
                    [] job[p] = "resume" -> FALSE
                    [] OTHER -> stopped
    /\ Goto(p, IF job[p] = "resume" THEN "lift" ELSE "unlock")
    /\ UNCHANGED <<lockVars, job, mem, full, objects, incoming, archives, estop, boundVars,
                   committed, breached, tainted, crossed>>

Lift(p) ==
    /\ pc[p] = "lift"
    /\ estop' = FALSE /\ Goto(p, "unlock")
    /\ crossed' = (crossed \/ \E q \in Proc : job[q] = "stop" /\ pc[q] \in {"open", "flock"})
    /\ UNCHANGED <<lockVars, job, mem, full, db, objects, incoming, archives, boundVars,
                   stopped, committed, breached, tainted>>

\* The kernel drops the flock of a killed process; the lock path, its temporary
\* files and a half-done switch stay as they are.
Crash(p) ==
    /\ pc[p] # "idle" /\ crashes < MaxCrashes
    /\ crashes' = crashes + 1
    /\ holds' = holds \ {p} /\ fd' = [fd EXCEPT ![p] = 0]
    /\ Goto(p, "idle") /\ Local(p, Empty) /\ full' = full \ {p}
    /\ tainted' = (tainted \/ Switching(p))
    /\ UNCHANGED <<lockPath, job, diskVars, starts, faults, stopped, committed, breached,
                   crossed>>

ProfileStep(p) ==
    \/ \E j \in Jobs : Start(p, j)
    \/ Open(p) \/ Flock(p) \/ Unlock(p) \/ Unlink(p)
    \/ Initialize(p) \/ Rename(p) \/ RenameFails(p) \/ Insert(p)
    \/ \E c \in Chat, d \in Digest : Put(p, c, d)
    \/ PutRefused(p) \/ Recheck(p) \/ Shutdown(p)
    \/ Preserve(p) \/ Snapshot(p) \/ Inventory(p) \/ Archive(p) \/ CommandFails(p)
    \/ \E c \in Chat : Erase(p, c)
    \/ Remove(p) \/ RemoveFails(p)
    \/ Stage(p) \/ MoveDb(p) \/ MoveObjects(p) \/ InstallDb(p) \/ InstallObjects(p)
    \/ SwitchFails(p) \/ UndoDb(p) \/ UndoObjects(p) \/ UndoMove(p) \/ UndoFails(p)
    \/ Persist(p) \/ Lift(p) \/ Crash(p)

ProfileNext == \E p \in Proc : ProfileStep(p)

ProfileSpec == ProfileInit /\ [][ProfileNext]_profileVars

-----------------------------------------------------------------------------
Digests(rows) == {r[2] : r \in rows}

\* An attachment row always has its object (read_bound would raise otherwise): put_bytes
\* before _insert_sync, and delete_conversation keeps what another conversation names. A
\* restore switch cut short by a kill or by a second error is the exception.
NoDanglingRow ==
    ~breached /\ ~tainted /\ (\A p \in Proc : ~Switching(p)) => Digests(Rows) \subseteq Objects

\* create_backup beside a running core archives every object its database copy names,
\* although the two are read at different moments. Only a deletion or a restore that runs
\* meanwhile (backup takes no lock) can make it miss one.
ArchiveComplete ==
    ~breached /\ ~tainted =>
        \A a \in archives : a.whole => Digests(a.rows) \subseteq a.objs

\* Whatever the core stored and nobody deleted is in the active profile or in an archive,
\* object included, through every failed or killed restore: restore_backup archives the
\* current state before it touches it.
Recoverable ==
    ~breached =>
        \A r \in committed :
            \/ r \in Rows /\ r[2] \in Objects
            \/ \E a \in archives : r \in a.rows /\ r[2] \in a.objs

\* Once emergency-stop reported success no core serves until resume reset the observe
\* boundary, whatever was killed in between; two commands crossing are excluded.
StopHolds == ~breached /\ ~crossed /\ stopped => \A p \in Proc : ~Core(p)

\* The comment on LemonbotRuntime.initialize: "RuntimeLock guarantees this is the only
\* live core for the profile."
OnlyCore == \A p, q \in Proc : Core(p) /\ Core(q) => p = q

-----------------------------------------------------------------------------
(* The inductive invariants.                                                *)

Archives == [rows : SUBSET ObjectRow, objs : SUBSET Digest, whole : BOOLEAN]
Memory == [rows : SUBSET ObjectRow, objs : SUBSET Digest, whole : BOOLEAN,
           saved : [db : SUBSET SUBSET ObjectRow, objects : SUBSET SUBSET Digest]]

CopySteps == {"snapshot", "inventory", "archive"}
StepsOf(j) == CASE j = "serve" -> CoreSteps \cup {"initialize"}
                [] j = "delete" -> {"erase", "remove"}
                [] j = "restore" -> CopySteps \cup SwitchSteps \cup {"preserve", "stage", "move_db"}
                [] j \in {"backup", "export"} -> CopySteps
                [] j = "resume" -> {"persist", "lift"}
                [] OTHER -> {"persist"}
LockSteps == {"open", "flock", "unlock", "unlink"}

\* Each command has its own steps.
StepsOK ==
    /\ holds \subseteq Proc /\ job \in [Proc -> Jobs] /\ DOMAIN pc = Proc
    /\ \A p \in Proc : \/ pc[p] \in StepsOf(job[p]) \cup {"idle"}
                       \/ pc[p] \in LockSteps /\ job[p] # "backup"

\* The values of the files and of the commands.
FilesOK ==
    /\ db \in SUBSET SUBSET ObjectRow /\ objects \in SUBSET SUBSET Digest
    /\ incoming \subseteq Digest /\ archives \subseteq Archives /\ committed \subseteq ObjectRow
    /\ estop \in BOOLEAN /\ stopped \in BOOLEAN

ProfileTypeOK == StepsOK /\ FilesOK /\ mem \in [Proc -> Memory]

\* Every command but backup works under the flock, and only one process has it until the
\* profile lock is breached.
Locked(p) == pc[p] \notin {"idle", "open", "flock", "unlink"} /\ job[p] # "backup"

LockOK ==
    /\ \A p \in Proc : Locked(p) => p \in holds
    /\ ~breached => \A p, q \in holds : p = q

\* What was stored and not deleted is in an archive, or among these rows and objects.
Covered(rows, objs) ==
    \A r \in committed : \/ r \in rows /\ r[2] \in objs
                         \/ \E a \in archives : r \in a.rows /\ r[2] \in a.objs

\* What a command knows of the files while it holds the lock, killed switches or not.
KnowsFiles(p) ==
    /\ pc[p] = "rename" => \A r, s \in mem[p].rows : r = s
    /\ pc[p] = "insert" => Digests(mem[p].rows) \subseteq Objects
    /\ pc[p] = "remove" => mem[p].objs \cap Digests(Rows) = {}
    /\ pc[p] = "inventory" /\ job[p] = "restore" => Covered(mem[p].rows, Objects)
    /\ pc[p] = "archive" /\ job[p] = "restore" => Covered(mem[p].rows, mem[p].objs)
    /\ pc[p] \in SwitchSteps \cup {"stage", "move_db"} => Covered({}, {})

RecoverInv == ~breached => Covered(Rows, Objects) /\ \A p \in Proc : KnowsFiles(p)

\* The old database is whole somewhere between the moves of a switch and of its rollback.
SavedObjects(p) == IF mem[p].saved.objects = {} THEN Objects ELSE UNION mem[p].saved.objects

SwitchOK(p) ==
    /\ Switching(p) => Digests(UNION mem[p].saved.db) \subseteq
                         (IF pc[p] = "undo_move" THEN Objects ELSE SavedObjects(p))
    /\ pc[p] \in {"move_objects", "install_db", "undo_objects", "undo_move"} => db = {}
    /\ pc[p] \in {"move_db", "move_objects"} => mem[p].saved.objects = {}
    /\ pc[p] = "install_objects" => Rows = mem[p].rows

\* What a copy in progress names is still there, unless it was torn.
CopyOK(p) ==
    /\ pc[p] = "inventory" /\ mem[p].whole => Digests(mem[p].rows) \subseteq Objects
    /\ pc[p] = "archive" /\ mem[p].whole => Digests(mem[p].rows) \subseteq mem[p].objs

StoreInv ==
    /\ NoDanglingRow /\ ArchiveComplete
    /\ ~breached /\ ~tainted => \A p \in Proc : SwitchOK(p) /\ CopyOK(p)

\* A stop in force has its file, and no resume is between the boundary and the file.
StopInv ==
    ~breached /\ ~crossed =>
      /\ stopped => estop /\ \A p \in Proc : ~Core(p) /\ pc[p] # "lift"
      /\ \A p \in Proc : job[p] = "stop" /\ pc[p] \in {"open", "flock", "persist"} => estop
=============================================================================
