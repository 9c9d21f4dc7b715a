------------------------- MODULE ProfileDataProofs -------------------------
(***************************************************************************)
(* The files of a profile, for any processes, commands, conversations and  *)
(* objects, and any number of kills and I/O errors.                        *)
(*                                                                         *)
(* The argument is the lock.  A command that holds it is alone with the    *)
(* rows and the objects (Alone), so what it has seen stays true until its  *)
(* next step: QuietStep and LockedStep, and for the backup that takes no   *)
(* lock QuietStore and LockedStore.  What is left is the order of its own  *)
(* steps: objects before rows, the archive before the switch, the database *)
(* moved before its objects and moved back after them.  Unlinking the lock *)
(* path can break the lock itself (OnlyCore): breached records it, and the *)
(* properties are about the executions before that.                        *)
(***************************************************************************)
EXTENDS ProfileData, TLAPS

\* Records of a command: what an update of one field leaves.
LEMMA Fields ==
  ASSUME NEW m \in Memory
  PROVE  /\ \A b \in BOOLEAN : [m EXCEPT !.whole = b] \in Memory
         /\ \A R \in SUBSET ObjectRow : [m EXCEPT !.rows = R] \in Memory
         /\ \A R \in SUBSET ObjectRow, b \in BOOLEAN :
              [m EXCEPT !.rows = R, !.whole = b] \in Memory
         /\ \A O \in SUBSET Digest : [m EXCEPT !.objs = O] \in Memory
         /\ \A R \in SUBSET ObjectRow, O \in SUBSET Digest, b \in BOOLEAN :
              [m EXCEPT !.rows = R, !.objs = O, !.whole = b] \in Memory
         /\ \A D \in SUBSET SUBSET ObjectRow : [m EXCEPT !.saved.db = D] \in Memory
         /\ \A O \in SUBSET SUBSET Digest : [m EXCEPT !.saved.objects = O] \in Memory
         /\ \A D \in SUBSET SUBSET ObjectRow, O \in SUBSET SUBSET Digest :
              [m EXCEPT !.saved = [db |-> D, objects |-> O]] \in Memory
         /\ m.rows \in SUBSET ObjectRow /\ m.objs \in SUBSET Digest /\ m.whole \in BOOLEAN
         /\ m.saved.db \in SUBSET SUBSET ObjectRow /\ m.saved.objects \in SUBSET SUBSET Digest
  BY DEF Memory

\* A command that has just started, or was killed, has written nothing down.
LEMMA EmptyMemory ==
  /\ Empty \in Memory
  /\ Empty.rows = {} /\ Empty.objs = {} /\ Empty.saved.db = {} /\ Empty.saved.objects = {}
  BY DEF Empty, Memory

\* Records of a command: the value an update of a field writes, and those it leaves.
LEMMA Written ==
  ASSUME NEW m \in Memory
  PROVE  /\ \A R : /\ [m EXCEPT !.rows = R].rows = R
                   /\ [m EXCEPT !.rows = R].objs = m.objs
         /\ \A O : /\ [m EXCEPT !.objs = O].objs = O
                   /\ [m EXCEPT !.objs = O].rows = m.rows
                   /\ [m EXCEPT !.objs = O].saved = m.saved
                   /\ [m EXCEPT !.objs = O].whole = m.whole
         /\ \A R, b : /\ [m EXCEPT !.rows = R, !.whole = b].rows = R
                      /\ [m EXCEPT !.rows = R, !.whole = b].saved = m.saved
                      /\ [m EXCEPT !.rows = R, !.whole = b].whole = b
         /\ \A D : /\ [m EXCEPT !.saved.db = D].rows = m.rows
                   /\ [m EXCEPT !.saved.db = D].saved.db = D
                   /\ [m EXCEPT !.saved.db = D].saved.objects = m.saved.objects
         /\ \A O : /\ [m EXCEPT !.saved.objects = O].rows = m.rows
                   /\ [m EXCEPT !.saved.objects = O].objs = m.objs
                   /\ [m EXCEPT !.saved.objects = O].saved.objects = O
                   /\ [m EXCEPT !.saved.objects = O].saved.db = m.saved.db
         /\ \A R, O, b : /\ [m EXCEPT !.rows = R, !.objs = O, !.whole = b].rows = R
                         /\ [m EXCEPT !.rows = R, !.objs = O, !.whole = b].objs = O
                         /\ [m EXCEPT !.rows = R, !.objs = O, !.whole = b].saved = m.saved
  BY DEF Memory

\* What a command writes down is what it then has.
LEMMA LocalWrites ==
  ASSUME mem \in [Proc -> Memory], NEW p \in Proc, NEW m, Local(p, m)
  PROVE  mem'[p] = m
  BY DEF Local

\* Losing objects changes nothing in another command but its whole.
LEMMA TearKeeps ==
  ASSUME mem \in [Proc -> Memory], NEW p \in Proc
  PROVE  /\ Tear(p) \in [Proc -> Memory] /\ Tear(p)[p] = mem[p]
         /\ \A q \in Proc : /\ Tear(p)[q].rows = mem[q].rows
                            /\ Tear(p)[q].objs = mem[q].objs
                            /\ Tear(p)[q].saved = mem[q].saved
                            /\ Tear(p)[q].whole => mem[q].whole
                            /\ q # p /\ Copying(q) => ~Tear(p)[q].whole
  <1>1. Tear(p) \in [Proc -> Memory]
    BY Fields DEF Tear
  <1>2. Tear(p)[p] = mem[p]
    BY DEF Tear
  <1>3. ASSUME NEW q \in Proc
        PROVE  /\ Tear(p)[q].rows = mem[q].rows
               /\ Tear(p)[q].objs = mem[q].objs
               /\ Tear(p)[q].saved = mem[q].saved
               /\ Tear(p)[q].whole => mem[q].whole
               /\ q # p /\ Copying(q) => ~Tear(p)[q].whole
    BY DEF Tear, Memory
  <1> QED
    BY <1>1, <1>2, <1>3

\* A command keeps to its steps, and to the lock.
LEMMA LockKeeps ==
  ASSUME StepsOK, LockOK, NEW p \in Proc, ProfileStep(p)
  PROVE  StepsOK' /\ LockOK'
<1> USE DEF StepsOK, LockOK, Locked, StepsOf, CoreSteps, CopySteps, SwitchSteps, LockSteps, Jobs,
        Goto, Core, lockVars, historyVars
<1>1. ASSUME NEW j \in Jobs, Start(p, j) PROVE StepsOK' /\ LockOK'
  BY <1>1 DEF Start
<1>2. CASE Open(p)
  BY <1>2 DEF Open
<1>3. CASE Flock(p)
  <2>1. CASE \E q \in holds : fd[q] = fd[p]
    BY <1>3, <2>1 DEF Flock
  <2>2. CASE ~\E q \in holds : fd[q] = fd[p]
    <3>1. ~breached' => holds = {}
      BY <1>3, <2>2 DEF Flock
    <3> QED
      BY <1>3, <2>2, <3>1 DEF Flock, FirstStep
  <2> QED
    BY <2>1, <2>2
<1>4. CASE Unlock(p)
  BY <1>4 DEF Unlock
<1>5. CASE Unlink(p)
  BY <1>5 DEF Unlink
<1>6. CASE Initialize(p)
  BY <1>6 DEF Initialize
<1>7. CASE Rename(p)
  BY <1>7 DEF Rename
<1>8. CASE RenameFails(p)
  BY <1>8 DEF RenameFails, Fault
<1>9. CASE Insert(p)
  BY <1>9 DEF Insert
<1>10. ASSUME NEW c \in Chat, NEW d \in Digest, Put(p, c, d) PROVE StepsOK' /\ LockOK'
  BY <1>10 DEF Put
<1>11. CASE PutRefused(p)
  BY <1>11 DEF PutRefused, Fault
<1>12. CASE Recheck(p)
  BY <1>12 DEF Recheck
<1>13. CASE Shutdown(p)
  BY <1>13 DEF Shutdown
<1>14. CASE Preserve(p)
  BY <1>14 DEF Preserve
<1>15. CASE Snapshot(p)
  BY <1>15 DEF Snapshot, GiveUpStep
<1>16. CASE Inventory(p)
  BY <1>16 DEF Inventory, GiveUpStep
<1>17. CASE Archive(p)
  BY <1>17 DEF Archive, AfterArchive, GiveUpStep
<1>18. CASE CommandFails(p)
  BY <1>18 DEF CommandFails, GiveUpStep, Fault
<1>19. ASSUME NEW c \in Chat, Erase(p, c) PROVE StepsOK' /\ LockOK'
  BY <1>19 DEF Erase
<1>20. CASE Remove(p)
  BY <1>20 DEF Remove
<1>21. CASE RemoveFails(p)
  BY <1>21 DEF RemoveFails, Fault
<1>22. CASE Stage(p)
  BY <1>22 DEF Stage
<1>23. CASE MoveDb(p)
  BY <1>23 DEF MoveDb
<1>24. CASE MoveObjects(p)
  BY <1>24 DEF MoveObjects
<1>25. CASE InstallDb(p)
  BY <1>25 DEF InstallDb
<1>26. CASE InstallObjects(p)
  BY <1>26 DEF InstallObjects
<1>27. CASE SwitchFails(p)
  BY <1>27 DEF SwitchFails, Fault
<1>28. CASE UndoDb(p)
  BY <1>28 DEF UndoDb
<1>29. CASE UndoObjects(p)
  BY <1>29 DEF UndoObjects
<1>30. CASE UndoMove(p)
  BY <1>30 DEF UndoMove
<1>31. CASE UndoFails(p)
  BY <1>31 DEF UndoFails, Fault
<1>32. CASE Persist(p)
  BY <1>32 DEF Persist
<1>33. CASE Lift(p)
  BY <1>33 DEF Lift
<1>34. CASE Crash(p)
  BY <1>34 DEF Crash
<1> QED
  BY <1>1, <1>2, <1>3, <1>4, <1>5, <1>6, <1>7, <1>8, <1>9, <1>10, <1>11, <1>12, <1>13,
     <1>14, <1>15, <1>16, <1>17, <1>18, <1>19, <1>20, <1>21, <1>22, <1>23, <1>24, <1>25,
     <1>26, <1>27, <1>28, <1>29, <1>30, <1>31, <1>32, <1>33, <1>34 DEF ProfileStep

\* What a command writes down is a memory of the right type.
LEMMA LocalKeeps ==
  ASSUME mem \in [Proc -> Memory], NEW p \in Proc, NEW m \in Memory, Local(p, m)
  PROVE  mem' \in [Proc -> Memory]
  BY DEF Local

\* Every step writes memories of the right type.
LEMMA MemoryKeeps ==
  ASSUME FilesOK, mem \in [Proc -> Memory], NEW p \in Proc, ProfileStep(p)
  PROVE  mem' \in [Proc -> Memory]
<1>0. /\ mem[p] \in Memory /\ mem[p].rows \in SUBSET ObjectRow /\ mem[p].objs \in SUBSET Digest
      /\ Rows \in SUBSET ObjectRow /\ Objects \in SUBSET Digest
  BY Fields DEF FilesOK, Rows, Objects
<1>1. ASSUME NEW j \in Jobs, Start(p, j) PROVE mem' \in [Proc -> Memory]
  <2>1. PICK a \in IF j = "restore" THEN archives ELSE {Empty} :
            Local(p, [Empty EXCEPT !.rows = a.rows, !.objs = a.objs, !.whole = a.whole])
    BY <1>1 DEF Start
  <2>2. a.rows \in SUBSET ObjectRow /\ a.objs \in SUBSET Digest /\ a.whole \in BOOLEAN
    BY EmptyMemory, Fields DEF FilesOK, Archives
  <2>3. [Empty EXCEPT !.rows = a.rows, !.objs = a.objs, !.whole = a.whole] \in Memory
    BY <2>2, EmptyMemory, Fields
  <2> QED
    BY <2>1, <2>3, LocalKeeps
<1>2. CASE Open(p)
  BY <1>2 DEF Open
<1>3. CASE Flock(p)
  BY <1>3 DEF Flock, FirstStep
<1>4. CASE Unlock(p)
  BY <1>4 DEF Unlock
<1>5. CASE Unlink(p)
  BY <1>5, EmptyMemory, LocalKeeps DEF Unlink
<1>6. CASE Initialize(p)
  BY <1>6 DEF Initialize
<1>7. CASE Rename(p)
  BY <1>7 DEF Rename
<1>8. CASE RenameFails(p)
  BY <1>8, EmptyMemory, LocalKeeps DEF RenameFails
<1>9. CASE Insert(p)
  BY <1>9, EmptyMemory, LocalKeeps DEF Insert
<1>10. ASSUME NEW c \in Chat, NEW d \in Digest, Put(p, c, d) PROVE mem' \in [Proc -> Memory]
  <2>1. {<<c, d>>} \in SUBSET ObjectRow
    BY <1>0 DEF ObjectRow
  <2>2. [Empty EXCEPT !.rows = {<<c, d>>}] \in Memory
    BY <1>0, <2>1, EmptyMemory, Fields
  <2> QED
    BY <1>10, <2>2, LocalKeeps DEF Put
<1>11. CASE PutRefused(p)
  BY <1>11 DEF PutRefused, Fault
<1>12. CASE Recheck(p)
  BY <1>12 DEF Recheck
<1>13. CASE Shutdown(p)
  BY <1>13 DEF Shutdown
<1>14. CASE Preserve(p)
  <2>1. {mem[p].rows} \in SUBSET SUBSET ObjectRow /\ {mem[p].objs} \in SUBSET SUBSET Digest
    BY <1>0
  <2>2. [mem[p] EXCEPT !.saved = [db |-> {mem[p].rows}, objects |-> {mem[p].objs}]] \in Memory
    BY <1>0, <2>1, EmptyMemory, Fields
  <2> QED
    BY <1>14, <2>2, LocalKeeps DEF Preserve
<1>15. CASE Snapshot(p)
  <2> DEFINE b == ~\E q \in Proc \ {p} : Switching(q)
  <2>1. b \in BOOLEAN
    OBVIOUS
  <2> HIDE DEF b
  <2>2. [mem[p] EXCEPT !.rows = Rows, !.whole = b] \in Memory
    BY <1>0, <2>1, Fields
  <2> QED
    BY <1>15, <2>2, LocalKeeps DEF Snapshot, b
<1>16. CASE Inventory(p)
  <2>1. [mem[p] EXCEPT !.objs = Objects] \in Memory
    BY <1>0, Fields
  <2> QED
    BY <1>16, <2>1, LocalKeeps DEF Inventory
<1>17. CASE Archive(p)
  BY <1>17 DEF Archive, AfterArchive, GiveUpStep
<1>18. CASE CommandFails(p)
  BY <1>18 DEF CommandFails, GiveUpStep, Fault
<1>19. ASSUME NEW c \in Chat, Erase(p, c) PROVE mem' \in [Proc -> Memory]
  <2>1. [Empty EXCEPT !.objs = Unshared(c) \cap Objects] \in Memory
    BY <1>0, EmptyMemory, Fields
  <2> QED
    BY <1>19, <2>1, LocalKeeps DEF Erase
<1>20. CASE Remove(p)
  <2>1. ASSUME NEW d, mem' = [Tear(p) EXCEPT ![p].objs = @ \ {d}]
        PROVE  mem' \in [Proc -> Memory]
    <3>1. [mem[p] EXCEPT !.objs = @ \ {d}] \in Memory
      BY <1>0, Fields
    <3>2. mem' = [Tear(p) EXCEPT ![p] = [mem[p] EXCEPT !.objs = @ \ {d}]]
      BY <2>1, TearKeeps
    <3> QED
      BY <3>1, <3>2, TearKeeps
  <2> QED
    BY <1>20, <2>1 DEF Remove
<1>21. CASE RemoveFails(p)
  <2>1. PICK d : Local(p, [mem[p] EXCEPT !.objs = @ \ {d}])
    BY <1>21 DEF RemoveFails
  <2>2. [mem[p] EXCEPT !.objs = @ \ {d}] \in Memory
    BY <1>0, Fields
  <2> QED
    BY <2>1, <2>2, LocalKeeps
<1>22. CASE Stage(p)
  <2>1. PICK a \in mem[p].saved.db, o \in mem[p].saved.objects :
            Local(p, [Empty EXCEPT !.rows = a, !.objs = o, !.whole = mem[p].whole])
    BY <1>22 DEF Stage
  <2>2. a \in SUBSET ObjectRow /\ o \in SUBSET Digest /\ mem[p].whole \in BOOLEAN
    BY <1>0, <2>1, Fields
  <2>3. [Empty EXCEPT !.rows = a, !.objs = o, !.whole = mem[p].whole] \in Memory
    BY <2>2, EmptyMemory, Fields
  <2> QED
    BY <2>1, <2>3, LocalKeeps
<1>23. CASE MoveDb(p)
  <2>1. [mem[p] EXCEPT !.saved.db = db] \in Memory
    BY <1>0, Fields DEF FilesOK
  <2>2. mem' = [Tear(p) EXCEPT ![p] = [mem[p] EXCEPT !.saved.db = db]]
    BY <1>23, TearKeeps DEF MoveDb
  <2> QED
    BY <2>1, <2>2, TearKeeps
<1>24. CASE MoveObjects(p)
  <2>1. [mem[p] EXCEPT !.saved.objects = objects] \in Memory
    BY <1>0, Fields DEF FilesOK
  <2>2. mem' = [Tear(p) EXCEPT ![p] = [mem[p] EXCEPT !.saved.objects = objects]]
    BY <1>24, TearKeeps DEF MoveObjects
  <2> QED
    BY <2>1, <2>2, TearKeeps
<1>25. CASE InstallDb(p)
  BY <1>25, TearKeeps DEF InstallDb
<1>26. CASE InstallObjects(p)
  BY <1>26, TearKeeps, EmptyMemory DEF InstallObjects
<1>27. CASE SwitchFails(p)
  BY <1>27 DEF SwitchFails, Fault
<1>28. CASE UndoDb(p)
  BY <1>28, TearKeeps DEF UndoDb
<1>29. CASE UndoObjects(p)
  BY <1>29, TearKeeps DEF UndoObjects
<1>30. CASE UndoMove(p)
  BY <1>30, TearKeeps, EmptyMemory DEF UndoMove
<1>31. CASE UndoFails(p)
  BY <1>31, EmptyMemory, LocalKeeps DEF UndoFails
<1>32. CASE Persist(p)
  BY <1>32 DEF Persist
<1>33. CASE Lift(p)
  BY <1>33 DEF Lift
<1>34. CASE Crash(p)
  BY <1>34, EmptyMemory, LocalKeeps DEF Crash
<1> QED
  BY <1>1, <1>2, <1>3, <1>4, <1>5, <1>6, <1>7, <1>8, <1>9, <1>10, <1>11, <1>12, <1>13,
     <1>14, <1>15, <1>16, <1>17, <1>18, <1>19, <1>20, <1>21, <1>22, <1>23, <1>24, <1>25,
     <1>26, <1>27, <1>28, <1>29, <1>30, <1>31, <1>32, <1>33, <1>34 DEF ProfileStep

\* Every step writes files of the right type.
LEMMA FilesKeep ==
  ASSUME FilesOK, mem \in [Proc -> Memory], NEW p \in Proc, ProfileStep(p)
  PROVE  FilesOK'
<1>0. /\ mem[p] \in Memory /\ mem[p].rows \in SUBSET ObjectRow /\ mem[p].objs \in SUBSET Digest
      /\ Rows \in SUBSET ObjectRow /\ Objects \in SUBSET Digest
  BY Fields DEF FilesOK, Rows, Objects
<1> USE DEF FilesOK, diskVars, historyVars
<1>1. ASSUME NEW j \in Jobs, Start(p, j) PROVE FilesOK'
  BY <1>1 DEF Start
<1>2. CASE Open(p)
  BY <1>2 DEF Open
<1>3. CASE Flock(p)
  BY <1>3 DEF Flock, FirstStep
<1>4. CASE Unlock(p)
  BY <1>4 DEF Unlock
<1>5. CASE Unlink(p)
  BY <1>5 DEF Unlink
<1>6. CASE Initialize(p)
  BY <1>6 DEF Initialize
<1>7. CASE Rename(p)
  <2>1. PICK r \in mem[p].rows : objects' = {Objects \cup {r[2]}} /\ incoming' = incoming \ {r[2]}
    BY <1>7 DEF Rename
  <2>2. r[2] \in Digest
    <3>1. r \in ObjectRow
      BY <1>0, <2>1, Fields
    <3> QED
      BY <3>1 DEF ObjectRow
  <2>3. Objects \cup {r[2]} \in SUBSET Digest
    BY <1>0, <2>2
  <2> QED
    BY <1>7, <2>1, <2>3 DEF Rename
<1>8. CASE RenameFails(p)
  BY <1>8 DEF RenameFails, Fault
<1>9. CASE Insert(p)
  <2>1. Rows \cup mem[p].rows \in SUBSET ObjectRow /\ mem[p].rows \in SUBSET ObjectRow
    BY <1>0, Fields
  <2> QED
    BY <1>9, <2>1 DEF Insert
<1>10. ASSUME NEW c \in Chat, NEW d \in Digest, Put(p, c, d) PROVE FilesOK'
  BY <1>10 DEF Put
<1>11. CASE PutRefused(p)
  BY <1>11 DEF PutRefused, Fault
<1>12. CASE Recheck(p)
  BY <1>12 DEF Recheck
<1>13. CASE Shutdown(p)
  BY <1>13 DEF Shutdown
<1>14. CASE Preserve(p)
  BY <1>14 DEF Preserve
<1>15. CASE Snapshot(p)
  BY <1>15 DEF Snapshot, GiveUpStep
<1>16. CASE Inventory(p)
  BY <1>16 DEF Inventory, GiveUpStep
<1>17. CASE Archive(p)
  <2>1. [rows |-> mem[p].rows, objs |-> mem[p].objs, whole |-> mem[p].whole] \in Archives
    BY <1>0, Fields DEF Archives
  <2> QED
    BY <1>17, <2>1 DEF Archive
<1>18. CASE CommandFails(p)
  BY <1>18 DEF CommandFails, GiveUpStep, Fault
<1>19. ASSUME NEW c \in Chat, Erase(p, c) PROVE FilesOK'
  <2>1. {r \in Rows : r[1] # c} \in SUBSET ObjectRow
    BY <1>0
  <2> QED
    BY <1>19, <2>1 DEF Erase
<1>20. CASE Remove(p)
  <2>1. \A d : {Objects \ {d}} \in SUBSET SUBSET Digest
    BY <1>0
  <2> QED
    BY <1>20, <2>1 DEF Remove
<1>21. CASE RemoveFails(p)
  BY <1>21 DEF RemoveFails, Fault
<1>22. CASE Stage(p)
  BY <1>22 DEF Stage
<1>23. CASE MoveDb(p)
  BY <1>23 DEF MoveDb
<1>24. CASE MoveObjects(p)
  BY <1>24 DEF MoveObjects
<1>25. CASE InstallDb(p)
  <2>1. {mem[p].rows} \in SUBSET SUBSET ObjectRow /\ {mem[p].objs} \in SUBSET SUBSET Digest
    BY <1>0
  <2> QED
    BY <1>25, <2>1 DEF InstallDb
<1>26. CASE InstallObjects(p)
  <2>1. {mem[p].rows} \in SUBSET SUBSET ObjectRow /\ {mem[p].objs} \in SUBSET SUBSET Digest
    BY <1>0
  <2> QED
    BY <1>26, <2>1 DEF InstallObjects
<1>27. CASE SwitchFails(p)
  BY <1>27 DEF SwitchFails, Fault
<1>28. CASE UndoDb(p)
  BY <1>28 DEF UndoDb
<1>29. CASE UndoObjects(p)
  BY <1>29, <1>0, Fields DEF UndoObjects
<1>30. CASE UndoMove(p)
  BY <1>30, <1>0, Fields DEF UndoMove
<1>31. CASE UndoFails(p)
  BY <1>31 DEF UndoFails, Fault
<1>32. CASE Persist(p)
  BY <1>32 DEF Persist
<1>33. CASE Lift(p)
  BY <1>33 DEF Lift
<1>34. CASE Crash(p)
  BY <1>34 DEF Crash
<1> QED
  BY <1>1, <1>2, <1>3, <1>4, <1>5, <1>6, <1>7, <1>8, <1>9, <1>10, <1>11, <1>12, <1>13,
     <1>14, <1>15, <1>16, <1>17, <1>18, <1>19, <1>20, <1>21, <1>22, <1>23, <1>24, <1>25,
     <1>26, <1>27, <1>28, <1>29, <1>30, <1>31, <1>32, <1>33, <1>34 DEF ProfileStep

---------------------------------------------------------------------------
(* What a step leaves alone.                                               *)

\* The other commands: their steps, and what they have written down but for whole.
OthersStand(p) ==
  \A q \in Proc \ {p} :
    /\ pc'[q] = pc[q] /\ job'[q] = job[q]
    /\ mem'[q].rows = mem[q].rows /\ mem'[q].objs = mem[q].objs
    /\ mem'[q].saved = mem[q].saved /\ (mem'[q].whole => mem[q].whole)

\* No archive is lost, no history is forgotten, and no other command is moved.
LEMMA Frame ==
  ASSUME ProfileTypeOK, NEW p \in Proc, ProfileStep(p)
  PROVE  /\ archives \subseteq archives' /\ (~breached' => ~breached) /\ (~tainted' => ~tainted)
         /\ OthersStand(p)
<1> USE DEF ProfileTypeOK, StepsOK, Goto, OthersStand
<1>1. ASSUME NEW j \in Jobs, Start(p, j) 
      PROVE  /\ archives \subseteq archives'
             /\ (~breached' => ~breached) /\ (~tainted' => ~tainted)
             /\ OthersStand(p)
  BY <1>1 DEF Start, Local, diskVars, historyVars
<1>2. CASE Open(p)
  BY <1>2 DEF Open, Local, diskVars, historyVars
<1>3. CASE Flock(p)
  BY <1>3 DEF Flock, Local, diskVars, historyVars
<1>4. CASE Unlock(p)
  BY <1>4 DEF Unlock, Local, diskVars, historyVars
<1>5. CASE Unlink(p)
  BY <1>5 DEF Unlink, Local, diskVars, historyVars
<1>6. CASE Initialize(p)
  BY <1>6 DEF Initialize, Local, diskVars, historyVars
<1>7. CASE Rename(p)
  BY <1>7 DEF Rename, Local, diskVars, historyVars
<1>8. CASE RenameFails(p)
  BY <1>8 DEF RenameFails, Local, diskVars, historyVars
<1>9. CASE Insert(p)
  BY <1>9 DEF Insert, Local, diskVars, historyVars
<1>10. ASSUME NEW c \in Chat, NEW d \in Digest, Put(p, c, d) 
      PROVE  /\ archives \subseteq archives'
             /\ (~breached' => ~breached) /\ (~tainted' => ~tainted)
             /\ OthersStand(p)
  BY <1>10 DEF Put, Local, diskVars, historyVars
<1>11. CASE PutRefused(p)
  BY <1>11 DEF PutRefused, Local, diskVars, historyVars
<1>12. CASE Recheck(p)
  BY <1>12 DEF Recheck, Local, diskVars, historyVars
<1>13. CASE Shutdown(p)
  BY <1>13 DEF Shutdown, Local, diskVars, historyVars
<1>14. CASE Preserve(p)
  BY <1>14 DEF Preserve, Local, diskVars, historyVars
<1>15. CASE Snapshot(p)
  BY <1>15 DEF Snapshot, Local, diskVars, historyVars
<1>16. CASE Inventory(p)
  BY <1>16 DEF Inventory, Local, diskVars, historyVars
<1>17. CASE Archive(p)
  BY <1>17 DEF Archive, Local, diskVars, historyVars
<1>18. CASE CommandFails(p)
  BY <1>18 DEF CommandFails, Local, diskVars, historyVars
<1>19. ASSUME NEW c \in Chat, Erase(p, c) 
      PROVE  /\ archives \subseteq archives'
             /\ (~breached' => ~breached) /\ (~tainted' => ~tainted)
             /\ OthersStand(p)
  BY <1>19 DEF Erase, Local, diskVars, historyVars
<1>20. CASE Remove(p)
  BY <1>20, TearKeeps DEF Remove, historyVars
<1>21. CASE RemoveFails(p)
  BY <1>21 DEF RemoveFails, Local, diskVars, historyVars
<1>22. CASE Stage(p)
  BY <1>22 DEF Stage, Local, diskVars, historyVars
<1>23. CASE MoveDb(p)
  BY <1>23, TearKeeps DEF MoveDb, historyVars
<1>24. CASE MoveObjects(p)
  BY <1>24, TearKeeps DEF MoveObjects, historyVars
<1>25. CASE InstallDb(p)
  BY <1>25, TearKeeps DEF InstallDb, historyVars
<1>26. CASE InstallObjects(p)
  <2>1. ~tainted' => ~tainted
    BY <1>26 DEF InstallObjects
  <2>2. OthersStand(p)
    BY <1>26, TearKeeps DEF InstallObjects
  <2> QED
    BY <1>26, <2>1, <2>2 DEF InstallObjects
<1>27. CASE SwitchFails(p)
  BY <1>27 DEF SwitchFails, Local, diskVars, historyVars
<1>28. CASE UndoDb(p)
  BY <1>28, TearKeeps DEF UndoDb, historyVars
<1>29. CASE UndoObjects(p)
  BY <1>29, TearKeeps DEF UndoObjects, historyVars
<1>30. CASE UndoMove(p)
  BY <1>30, TearKeeps DEF UndoMove, historyVars
<1>31. CASE UndoFails(p)
  BY <1>31 DEF UndoFails, Local, diskVars, historyVars
<1>32. CASE Persist(p)
  BY <1>32 DEF Persist, Local, diskVars, historyVars
<1>33. CASE Lift(p)
  BY <1>33 DEF Lift, Local, diskVars, historyVars
<1>34. CASE Crash(p)
  BY <1>34 DEF Crash, Local, diskVars, historyVars
<1> QED
  BY <1>1, <1>2, <1>3, <1>4, <1>5, <1>6, <1>7, <1>8, <1>9, <1>10, <1>11, <1>12, <1>13,
     <1>14, <1>15, <1>16, <1>17, <1>18, <1>19, <1>20, <1>21, <1>22, <1>23, <1>24, <1>25,
     <1>26, <1>27, <1>28, <1>29, <1>30, <1>31, <1>32, <1>33, <1>34 DEF ProfileStep

\* Two commands that hold the lock are one.
LEMMA Alone ==
  ASSUME LockOK, ~breached, NEW p \in Proc, NEW q \in Proc, Locked(p), Locked(q)
  PROVE  p = q
  BY DEF LockOK

\* A step that leaves rows and objects alone.
LEMMA QuietStep ==
  ASSUME ProfileTypeOK, RecoverInv, NEW p \in Proc, ProfileStep(p),
         Rows' = Rows, Objects' = Objects, committed' = committed,
         ~breached' => KnowsFiles(p)'
  PROVE  RecoverInv'
<1> SUFFICES ASSUME ~breached'
             PROVE  Covered(Rows, Objects)' /\ \A q \in Proc : KnowsFiles(q)'
  BY DEF RecoverInv
<1>1. /\ ~breached /\ archives \subseteq archives' /\ OthersStand(p)
      /\ Covered(Rows, Objects) /\ \A q \in Proc : KnowsFiles(q)
  BY Frame DEF RecoverInv
<1>2. Covered(Rows, Objects)'
  BY <1>1 DEF Covered
<1>3. ASSUME NEW q \in Proc \ {p} PROVE KnowsFiles(q)'
  <2>1. KnowsFiles(q) /\ pc'[q] = pc[q] /\ job'[q] = job[q] /\ mem'[q].rows = mem[q].rows
        /\ mem'[q].objs = mem[q].objs
    BY <1>1 DEF OthersStand
  <2>2. /\ Covered(mem[q].rows, Objects) => Covered(mem[q].rows, Objects)'
        /\ Covered(mem[q].rows, mem[q].objs) => Covered(mem[q].rows, mem[q].objs)'
        /\ Covered({}, {}) => Covered({}, {})'
    BY <1>1, <2>1 DEF Covered
  <2>3. pc[q] = "remove" => (mem[q].objs \cap Digests(Rows))' = {}
    BY <2>1 DEF KnowsFiles, Digests
  <2> QED
    BY <2>1, <2>2, <2>3 DEF KnowsFiles, Digests
<1> QED
  BY <1>2, <1>3

\* A step of the command that holds the lock: nobody else knows anything of the files.
LEMMA LockedStep ==
  ASSUME ProfileTypeOK, LockOK, RecoverInv, NEW p \in Proc, ProfileStep(p), Locked(p),
         ~breached' => Covered(Rows, Objects)' /\ KnowsFiles(p)'
  PROVE  RecoverInv'
<1> SUFFICES ASSUME ~breached' PROVE \A q \in Proc : KnowsFiles(q)'
  BY DEF RecoverInv
<1>1. ~breached /\ OthersStand(p) /\ StepsOK' /\ LockOK'
  BY Frame, LockKeeps DEF ProfileTypeOK
<1>2. ASSUME NEW q \in Proc \ {p} PROVE KnowsFiles(q)'
  <2>1. ~Locked(q)
    BY <1>1, Alone
  <2>2. ~Locked(q)'
    BY <1>1, <2>1 DEF OthersStand, Locked
  <2> QED
    BY <1>1, <2>2 DEF KnowsFiles, StepsOK, Locked, StepsOf, CoreSteps, CopySteps, SwitchSteps,
       LockSteps, Jobs
<1> QED
  BY <1>2

\* The steps before which a command has seen the files.
KnowSteps ==
  SwitchSteps \cup
  {"rename", "insert", "remove", "inventory", "archive", "stage", "move_db"}

\* A command elsewhere claims nothing of the files.
LEMMA Ignorant == ASSUME NEW p \in Proc, pc'[p] \notin KnowSteps PROVE KnowsFiles(p)'
  BY DEF KnowSteps, KnowsFiles

\* A switch: everything is in an archive, wherever the moves have come.
LEMMA SwitchStep ==
  ASSUME ProfileTypeOK, LockOK, RecoverInv, NEW p \in Proc, ProfileStep(p),
         pc[p] \in SwitchSteps \cup {"move_db"}, pc'[p] \in SwitchSteps \cup {"unlock"},
         committed' = committed
  PROVE  RecoverInv'
<1>1. Locked(p)
  BY DEF ProfileTypeOK, StepsOK, Locked, StepsOf, CoreSteps, CopySteps, SwitchSteps, LockSteps,
     Jobs
<1> SUFFICES ASSUME ~breached' PROVE Covered(Rows, Objects)' /\ KnowsFiles(p)'
  BY <1>1, LockedStep
<1>2. ~breached /\ archives \subseteq archives'
  BY Frame
<1>3. Covered({}, {})
  BY <1>2 DEF RecoverInv, KnowsFiles
<1>4. Covered({}, {})' /\ Covered(Rows, Objects)'
  BY <1>2, <1>3 DEF Covered
<1> QED
  BY <1>4 DEF KnowsFiles, SwitchSteps

\* Recoverable is kept, with what it rests on.
LEMMA RecoverKeeps ==
  ASSUME ProfileTypeOK, LockOK, RecoverInv, NEW p \in Proc, ProfileStep(p)
  PROVE  RecoverInv'
<1>0. mem \in [Proc -> Memory] /\ mem[p] \in Memory /\ StepsOK
  BY DEF ProfileTypeOK
<1> USE <1>0 DEF Goto
<1>1. ASSUME NEW j \in Jobs, Start(p, j) PROVE RecoverInv'
  <2>1. Rows' = Rows /\ Objects' = Objects /\ committed' = committed
    BY <1>1 DEF Start, Rows, Objects, diskVars, historyVars
  <2>2. pc'[p] \notin KnowSteps
    BY <1>1 DEF Start, KnowSteps, SwitchSteps, StepsOK
  <2> QED
    BY <2>1, <2>2, Ignorant, QuietStep
<1>2. CASE Open(p)
  <2>1. Rows' = Rows /\ Objects' = Objects /\ committed' = committed
    BY <1>2 DEF Open, Rows, Objects, diskVars, historyVars
  <2>2. pc'[p] \notin KnowSteps
    BY <1>2 DEF Open, KnowSteps, SwitchSteps, StepsOK
  <2> QED
    BY <2>1, <2>2, Ignorant, QuietStep
<1>3. CASE Flock(p)
  <2>1. Rows' = Rows /\ Objects' = Objects /\ committed' = committed
    BY <1>3 DEF Flock, Rows, Objects, diskVars, historyVars
  <2>2. pc'[p] \notin KnowSteps
    BY <1>3 DEF Flock, KnowSteps, SwitchSteps, StepsOK, FirstStep
  <2> QED
    BY <2>1, <2>2, Ignorant, QuietStep
<1>4. CASE Unlock(p)
  <2>1. Rows' = Rows /\ Objects' = Objects /\ committed' = committed
    BY <1>4 DEF Unlock, Rows, Objects, diskVars, historyVars
  <2>2. pc'[p] \notin KnowSteps
    BY <1>4 DEF Unlock, KnowSteps, SwitchSteps, StepsOK
  <2> QED
    BY <2>1, <2>2, Ignorant, QuietStep
<1>5. CASE Unlink(p)
  <2>1. Rows' = Rows /\ Objects' = Objects /\ committed' = committed
    BY <1>5 DEF Unlink, Rows, Objects, diskVars, historyVars
  <2>2. pc'[p] \notin KnowSteps
    BY <1>5 DEF Unlink, KnowSteps, SwitchSteps, StepsOK
  <2> QED
    BY <2>1, <2>2, Ignorant, QuietStep
<1>6. CASE Initialize(p)
  <2>1. Rows' = Rows /\ Objects' = Objects /\ committed' = committed
    BY <1>6 DEF Initialize, Rows, Objects, diskVars, historyVars
  <2>2. pc'[p] \notin KnowSteps
    BY <1>6 DEF Initialize, KnowSteps, SwitchSteps, StepsOK
  <2> QED
    BY <2>1, <2>2, Ignorant, QuietStep
<1>7. CASE Rename(p)
  <2>0. Locked(p)
    BY <1>7 DEF Rename, StepsOK, Locked, StepsOf, CoreSteps, CopySteps, SwitchSteps, LockSteps,
       Jobs
  <2> SUFFICES ASSUME ~breached' PROVE Covered(Rows, Objects)' /\ KnowsFiles(p)'
    BY <2>0, LockedStep
  <2>1. ~breached /\ archives \subseteq archives' /\ Covered(Rows, Objects) /\ KnowsFiles(p)
    BY Frame DEF RecoverInv
  <2>2. PICK r \in mem[p].rows : objects' = {Objects \cup {r[2]}}
    BY <1>7 DEF Rename
  <2>3. Objects' = Objects \cup {r[2]} /\ Rows' = Rows /\ committed' = committed
    <3>1. Objects' = Objects \cup {r[2]}
      BY <2>2 DEF Objects
    <3> QED
      BY <1>7, <3>1 DEF Rename, Rows, historyVars
  <2>4. Covered(Rows, Objects)'
    BY <2>1, <2>3 DEF Covered
  <2>5. pc'[p] = "insert" /\ mem' = mem
    BY <1>7 DEF Rename, StepsOK
  <2>6. mem[p].rows = {r}
    BY <1>7, <2>1, <2>2 DEF Rename, KnowsFiles
  <2> QED
    BY <2>3, <2>4, <2>5, <2>6 DEF KnowsFiles, SwitchSteps, Digests
<1>8. CASE RenameFails(p)
  <2>1. Rows' = Rows /\ Objects' = Objects /\ committed' = committed
    BY <1>8 DEF RenameFails, Rows, Objects, diskVars, historyVars
  <2>2. pc'[p] \notin KnowSteps
    BY <1>8 DEF RenameFails, KnowSteps, SwitchSteps, StepsOK
  <2> QED
    BY <2>1, <2>2, Ignorant, QuietStep
<1>9. CASE Insert(p)
  <2>0. Locked(p)
    BY <1>9 DEF Insert, StepsOK, Locked, StepsOf, CoreSteps, CopySteps, SwitchSteps, LockSteps,
       Jobs
  <2> SUFFICES ASSUME ~breached' PROVE Covered(Rows, Objects)' /\ KnowsFiles(p)'
    BY <2>0, LockedStep
  <2>1. ~breached /\ archives \subseteq archives' /\ Covered(Rows, Objects) /\ KnowsFiles(p)
    BY Frame DEF RecoverInv
  <2>2. /\ Rows' = Rows \cup mem[p].rows /\ Objects' = Objects
        /\ committed' = committed \cup mem[p].rows /\ pc'[p] = "ready"
    BY <1>9 DEF Insert, Rows, Objects, StepsOK
  <2>3. Digests(mem[p].rows) \subseteq Objects
    BY <1>9, <2>1 DEF Insert, KnowsFiles
  <2>4. Covered(Rows, Objects)'
    BY <2>1, <2>2, <2>3 DEF Covered, Digests
  <2> QED
    BY <2>2, <2>4, Ignorant DEF KnowSteps, SwitchSteps
<1>10. ASSUME NEW c \in Chat, NEW d \in Digest, Put(p, c, d) PROVE RecoverInv'
  <2>1. Rows' = Rows /\ Objects' = Objects /\ committed' = committed
    BY <1>10 DEF Put, Rows, Objects, diskVars, historyVars
  <2>2. ASSUME ~breached' PROVE KnowsFiles(p)'
    <3>1. mem'[p].rows = {<<c, d>>}
      BY <1>10 DEF Put, Local, Empty
    <3>2. (pc'[p] = "insert" /\ d \in Objects) \/ pc'[p] = "rename"
      BY <1>10 DEF Put, StepsOK
    <3>3. Digests(mem'[p].rows) = {d}
      BY <3>1 DEF Digests
    <3> QED
      BY <2>1, <3>1, <3>2, <3>3 DEF KnowsFiles, SwitchSteps, Digests
  <2> QED
    BY <2>1, <2>2, QuietStep
<1>11. CASE PutRefused(p)
  <2>1. Rows' = Rows /\ Objects' = Objects /\ committed' = committed
    BY <1>11 DEF PutRefused, Rows, Objects, diskVars, historyVars
  <2>2. pc'[p] \notin KnowSteps
    BY <1>11 DEF PutRefused, KnowSteps, SwitchSteps, StepsOK
  <2> QED
    BY <2>1, <2>2, Ignorant, QuietStep
<1>12. CASE Recheck(p)
  <2>1. Rows' = Rows /\ Objects' = Objects /\ committed' = committed
    BY <1>12 DEF Recheck, Rows, Objects, diskVars, historyVars
  <2>2. pc'[p] \notin KnowSteps
    BY <1>12 DEF Recheck, KnowSteps, SwitchSteps, StepsOK
  <2> QED
    BY <2>1, <2>2, Ignorant, QuietStep
<1>13. CASE Shutdown(p)
  <2>1. Rows' = Rows /\ Objects' = Objects /\ committed' = committed
    BY <1>13 DEF Shutdown, Rows, Objects, diskVars, historyVars
  <2>2. pc'[p] \notin KnowSteps
    BY <1>13 DEF Shutdown, KnowSteps, SwitchSteps, StepsOK
  <2> QED
    BY <2>1, <2>2, Ignorant, QuietStep
<1>14. CASE Preserve(p)
  <2>1. Rows' = Rows /\ Objects' = Objects /\ committed' = committed
    BY <1>14 DEF Preserve, Rows, Objects, diskVars, historyVars
  <2>2. ASSUME ~breached' PROVE KnowsFiles(p)'
    <3>0. ~breached /\ archives \subseteq archives' /\ Covered(Rows, Objects) /\ KnowsFiles(p)
      BY <2>2, Frame DEF RecoverInv
    <3>1. CASE db = {}
      <4>1. Covered({}, {})'
        BY <2>1, <3>0, <3>1 DEF Covered, Rows
      <4> QED
        BY <1>14, <3>1, <4>1 DEF Preserve, KnowsFiles, SwitchSteps, StepsOK
    <3>2. CASE db # {}
      BY <1>14, <3>2, Ignorant DEF Preserve, KnowSteps, SwitchSteps, StepsOK
    <3> QED
      BY <3>1, <3>2
  <2> QED
    BY <2>1, <2>2, QuietStep
<1>15. CASE Snapshot(p)
  <2>1. Rows' = Rows /\ Objects' = Objects /\ committed' = committed
    BY <1>15 DEF Snapshot, Rows, Objects, diskVars, historyVars
  <2>2. ASSUME ~breached' PROVE KnowsFiles(p)'
    <3>0. ~breached /\ archives \subseteq archives' /\ Covered(Rows, Objects) /\ KnowsFiles(p)
      BY <2>2, Frame DEF RecoverInv
    <3>1. CASE db = {}
      BY <1>15, <3>1, Ignorant DEF Snapshot, GiveUpStep, KnowSteps, SwitchSteps, StepsOK
    <3>2. CASE db # {}
      <4> DEFINE b == ~\E q \in Proc \ {p} : Switching(q)
      <4>0. pc'[p] = "inventory" /\ Local(p, [mem[p] EXCEPT !.rows = Rows, !.whole = b])
        BY <1>15, <3>2 DEF Snapshot, StepsOK
      <4> HIDE DEF b
      <4>1. pc'[p] = "inventory" /\ mem'[p].rows = Rows
        <5>1. mem'[p] = [mem[p] EXCEPT !.rows = Rows, !.whole = b]
          BY <4>0, LocalWrites
        <5> QED
          BY <4>0, <5>1, Written
      <4>2. Covered(mem[p].rows, Objects)'
        BY <2>1, <3>0, <4>1 DEF Covered
      <4> QED
        BY <4>1, <4>2 DEF KnowsFiles, SwitchSteps
    <3> QED
      BY <3>1, <3>2
  <2> QED
    BY <2>1, <2>2, QuietStep
<1>16. CASE Inventory(p)
  <2>1. Rows' = Rows /\ Objects' = Objects /\ committed' = committed
    BY <1>16 DEF Inventory, Rows, Objects, diskVars, historyVars
  <2>2. ASSUME ~breached' PROVE KnowsFiles(p)'
    <3>0. ~breached /\ archives \subseteq archives' /\ Covered(Rows, Objects) /\ KnowsFiles(p)
      BY <2>2, Frame DEF RecoverInv
    <3>1. CASE incoming # {}
      BY <1>16, <3>1, Ignorant DEF Inventory, GiveUpStep, KnowSteps, SwitchSteps, StepsOK
    <3>2. CASE incoming = {}
      <4>0. pc'[p] = "archive" /\ Local(p, [mem[p] EXCEPT !.objs = Objects])
        BY <1>16, <3>2 DEF Inventory, StepsOK
      <4>1. mem'[p].rows = mem[p].rows /\ mem'[p].objs = Objects /\ pc'[p] = "archive"
        <5>1. mem'[p] = [mem[p] EXCEPT !.objs = Objects]
          BY <4>0, LocalWrites
        <5> QED
          BY <4>0, <5>1, Written
      <4>2. job'[p] = "restore" => Covered(mem[p].rows, Objects)
        BY <1>16, <3>0 DEF Inventory, KnowsFiles
      <4>3. job'[p] = "restore" => Covered(mem[p].rows, mem[p].objs)'
        BY <2>1, <3>0, <4>1, <4>2 DEF Covered
      <4> QED
        BY <4>1, <4>3 DEF KnowsFiles, SwitchSteps
    <3> QED
      BY <3>1, <3>2
  <2> QED
    BY <2>1, <2>2, QuietStep
<1>17. CASE Archive(p)
  <2>1. Rows' = Rows /\ Objects' = Objects /\ committed' = committed
    BY <1>17 DEF Archive, Rows, Objects, diskVars, historyVars
  <2>2. ASSUME ~breached' PROVE KnowsFiles(p)'
    <3>0. ~breached /\ archives \subseteq archives' /\ Covered(Rows, Objects) /\ KnowsFiles(p)
      BY <2>2, Frame DEF RecoverInv
    <3>1. CASE pc'[p] \notin KnowSteps
      BY <3>1, Ignorant
    <3>2. CASE pc'[p] \in KnowSteps
      <4>1. /\ job[p] = "restore" /\ pc'[p] = "stage"
            /\ [rows |-> mem[p].rows, objs |-> mem[p].objs, whole |-> mem[p].whole] \in archives'
        BY <1>17, <3>2 DEF Archive, AfterArchive, GiveUpStep, KnowSteps, SwitchSteps, StepsOK,
           StepsOf, CopySteps, CoreSteps, Jobs, LockSteps
      <4>2. Covered(mem[p].rows, mem[p].objs)
        BY <1>17, <3>0, <4>1 DEF Archive, KnowsFiles
      <4>3. Covered({}, {})'
        BY <2>1, <3>0, <4>1, <4>2 DEF Covered
      <4> QED
        BY <4>1, <4>3 DEF KnowsFiles, SwitchSteps
    <3> QED
      BY <3>1, <3>2
  <2> QED
    BY <2>1, <2>2, QuietStep
<1>18. CASE CommandFails(p)
  <2>1. Rows' = Rows /\ Objects' = Objects /\ committed' = committed
    BY <1>18 DEF CommandFails, Rows, Objects, diskVars, historyVars
  <2>2. pc'[p] \notin KnowSteps
    BY <1>18 DEF CommandFails, KnowSteps, SwitchSteps, StepsOK, GiveUpStep
  <2> QED
    BY <2>1, <2>2, Ignorant, QuietStep
<1>19. ASSUME NEW c \in Chat, Erase(p, c) PROVE RecoverInv'
  <2>0. Locked(p)
    BY <1>19 DEF Erase, StepsOK, Locked, StepsOf, CoreSteps, CopySteps, SwitchSteps, LockSteps,
       Jobs
  <2> SUFFICES ASSUME ~breached' PROVE Covered(Rows, Objects)' /\ KnowsFiles(p)'
    BY <2>0, LockedStep
  <2>1. ~breached /\ archives \subseteq archives' /\ Covered(Rows, Objects) /\ KnowsFiles(p)
    BY Frame DEF RecoverInv
  <2>2. CASE \E r \in Rows : r[1] = c
    <3>1. /\ Rows' = {r \in Rows : r[1] # c} /\ Objects' = Objects
          /\ committed' = {r \in committed : r[1] # c}
          /\ pc'[p] = "remove"
      BY <1>19, <2>2 DEF Erase, Rows, Objects, StepsOK
    <3>2. mem'[p].objs = Unshared(c) \cap Objects
      <4>1. Local(p, [Empty EXCEPT !.objs = Unshared(c) \cap Objects])
        BY <1>19, <2>2 DEF Erase
      <4>2. mem'[p] = [Empty EXCEPT !.objs = Unshared(c) \cap Objects]
        BY <4>1, LocalWrites
      <4> QED
        BY <4>2, EmptyMemory, Written
    <3>3. Covered(Rows, Objects)'
      BY <2>1, <3>1 DEF Covered
    <3>4. Unshared(c) \cap Digests(Rows') = {}
      BY <3>1 DEF Unshared, Digests
    <3> QED
      BY <3>1, <3>2, <3>3, <3>4 DEF KnowsFiles, SwitchSteps
  <2>3. CASE ~\E r \in Rows : r[1] = c
    <3>1. Rows' = Rows /\ Objects' = Objects /\ committed' = committed /\ pc'[p] = "unlock"
      BY <1>19, <2>3 DEF Erase, Rows, Objects, StepsOK
    <3> QED
      BY <2>1, <3>1, Ignorant DEF Covered, KnowSteps, SwitchSteps
  <2> QED
    BY <2>2, <2>3
<1>20. CASE Remove(p)
  <2>0. Locked(p)
    BY <1>20 DEF Remove, StepsOK, Locked, StepsOf, CoreSteps, CopySteps, SwitchSteps, LockSteps,
       Jobs
  <2> SUFFICES ASSUME ~breached' PROVE Covered(Rows, Objects)' /\ KnowsFiles(p)'
    BY <2>0, LockedStep
  <2>1. ~breached /\ archives \subseteq archives' /\ Covered(Rows, Objects) /\ KnowsFiles(p)
    BY Frame DEF RecoverInv
  <2>2. Rows' = Rows /\ committed' = committed /\ mem[p].objs \cap Digests(Rows) = {}
    BY <1>20, <2>1 DEF Remove, Rows, historyVars, KnowsFiles
  <2>3. CASE mem[p].objs = {}
    <3>1. Objects' = Objects /\ pc'[p] = "unlock"
      BY <1>20, <2>3 DEF Remove, Objects, StepsOK
    <3> QED
      BY <2>1, <2>2, <3>1, Ignorant DEF Covered, KnowSteps, SwitchSteps
  <2>4. CASE mem[p].objs # {}
    <3>1. PICK d \in mem[p].objs :
            objects' = {Objects \ {d}} /\ mem' = [Tear(p) EXCEPT ![p].objs = @ \ {d}]
      BY <1>20, <2>4 DEF Remove
    <3>2. Objects' = Objects \ {d} /\ pc'[p] = "remove"
      BY <1>20, <2>4, <3>1 DEF Remove, Objects
    <3>3. mem'[p].objs = mem[p].objs \ {d}
      <4>1. Tear(p) \in [Proc -> Memory] /\ Tear(p)[p] = mem[p]
        BY TearKeeps
      <4>2. mem'[p] = [mem[p] EXCEPT !.objs = @ \ {d}]
        BY <3>1, <4>1
      <4> QED
        BY <4>2, Written
    <3>4. Covered(Rows, Objects)'
      BY <2>1, <2>2, <3>1, <3>2 DEF Covered, Digests
    <3> QED
      BY <2>2, <3>2, <3>3, <3>4 DEF KnowsFiles, SwitchSteps, Digests
  <2> QED
    BY <2>3, <2>4
<1>21. CASE RemoveFails(p)
  <2>1. Rows' = Rows /\ Objects' = Objects /\ committed' = committed
    BY <1>21 DEF RemoveFails, Rows, Objects, diskVars, historyVars
  <2>2. ASSUME ~breached' PROVE KnowsFiles(p)'
    <3>0. ~breached /\ archives \subseteq archives' /\ Covered(Rows, Objects) /\ KnowsFiles(p)
      BY <2>2, Frame DEF RecoverInv
    <3>1. PICK d \in mem[p].objs : Local(p, [mem[p] EXCEPT !.objs = @ \ {d}])
      BY <1>21 DEF RemoveFails
    <3>2. mem'[p].objs \subseteq mem[p].objs
      <4>1. mem'[p] = [mem[p] EXCEPT !.objs = @ \ {d}]
        BY <3>1, LocalWrites
      <4> QED
        BY <4>1, Written
    <3>3. pc'[p] = "remove" /\ pc[p] = "remove"
      BY <1>21 DEF RemoveFails, StepsOK
    <3> QED
      BY <2>1, <3>0, <3>2, <3>3 DEF KnowsFiles, SwitchSteps, Digests
  <2> QED
    BY <2>1, <2>2, QuietStep
<1>22. CASE Stage(p)
  <2>1. Rows' = Rows /\ Objects' = Objects /\ committed' = committed
    BY <1>22 DEF Stage, Rows, Objects, diskVars, historyVars
  <2>2. ~breached' => KnowsFiles(p)'
    BY <1>22, <2>1, Frame DEF Stage, KnowsFiles, SwitchSteps, RecoverInv, Covered, Local,
       Digests, StepsOK
  <2> QED
    BY <2>1, <2>2, QuietStep
<1>23. CASE MoveDb(p)
  <2>1. pc[p] \in SwitchSteps \cup {"move_db"} /\ pc'[p] \in SwitchSteps \cup {"unlock"}
    BY <1>23 DEF MoveDb, StepsOK, SwitchSteps
  <2>2. committed' = committed
    BY <1>23 DEF MoveDb, historyVars
  <2> QED
    BY <2>1, <2>2, SwitchStep
<1>24. CASE MoveObjects(p)
  <2>1. pc[p] \in SwitchSteps \cup {"move_db"} /\ pc'[p] \in SwitchSteps \cup {"unlock"}
    BY <1>24 DEF MoveObjects, StepsOK, SwitchSteps
  <2>2. committed' = committed
    BY <1>24 DEF MoveObjects, historyVars
  <2> QED
    BY <2>1, <2>2, SwitchStep
<1>25. CASE InstallDb(p)
  <2>1. pc[p] \in SwitchSteps \cup {"move_db"} /\ pc'[p] \in SwitchSteps \cup {"unlock"}
    BY <1>25 DEF InstallDb, StepsOK, SwitchSteps
  <2>2. committed' = committed
    BY <1>25 DEF InstallDb, historyVars
  <2> QED
    BY <2>1, <2>2, SwitchStep
<1>26. CASE InstallObjects(p)
  <2>1. pc[p] \in SwitchSteps \cup {"move_db"} /\ pc'[p] \in SwitchSteps \cup {"unlock"}
    BY <1>26 DEF InstallObjects, StepsOK, SwitchSteps
  <2>2. committed' = committed
    BY <1>26 DEF InstallObjects, historyVars
  <2> QED
    BY <2>1, <2>2, SwitchStep
<1>27. CASE SwitchFails(p)
  <2>1. Rows' = Rows /\ Objects' = Objects /\ committed' = committed
    BY <1>27 DEF SwitchFails, Rows, Objects, diskVars, historyVars
  <2>2. ~breached' => KnowsFiles(p)'
    BY <1>27, <2>1, Frame DEF SwitchFails, KnowsFiles, SwitchSteps, RecoverInv, Covered, Local,
       Digests, StepsOK, Fault
  <2> QED
    BY <2>1, <2>2, QuietStep
<1>28. CASE UndoDb(p)
  <2>1. pc[p] \in SwitchSteps \cup {"move_db"} /\ pc'[p] \in SwitchSteps \cup {"unlock"}
    BY <1>28 DEF UndoDb, StepsOK, SwitchSteps
  <2>2. committed' = committed
    BY <1>28 DEF UndoDb, historyVars
  <2> QED
    BY <2>1, <2>2, SwitchStep
<1>29. CASE UndoObjects(p)
  <2>1. pc[p] \in SwitchSteps \cup {"move_db"} /\ pc'[p] \in SwitchSteps \cup {"unlock"}
    BY <1>29 DEF UndoObjects, StepsOK, SwitchSteps
  <2>2. committed' = committed
    BY <1>29 DEF UndoObjects, historyVars
  <2> QED
    BY <2>1, <2>2, SwitchStep
<1>30. CASE UndoMove(p)
  <2>1. pc[p] \in SwitchSteps \cup {"move_db"} /\ pc'[p] \in SwitchSteps \cup {"unlock"}
    BY <1>30 DEF UndoMove, StepsOK, SwitchSteps
  <2>2. committed' = committed
    BY <1>30 DEF UndoMove, historyVars
  <2> QED
    BY <2>1, <2>2, SwitchStep
<1>31. CASE UndoFails(p)
  <2>1. Rows' = Rows /\ Objects' = Objects /\ committed' = committed
    BY <1>31 DEF UndoFails, Rows, Objects, diskVars, historyVars
  <2>2. pc'[p] \notin KnowSteps
    BY <1>31 DEF UndoFails, KnowSteps, SwitchSteps, StepsOK
  <2> QED
    BY <2>1, <2>2, Ignorant, QuietStep
<1>32. CASE Persist(p)
  <2>1. Rows' = Rows /\ Objects' = Objects /\ committed' = committed
    BY <1>32 DEF Persist, Rows, Objects, diskVars, historyVars
  <2>2. pc'[p] \notin KnowSteps
    BY <1>32 DEF Persist, KnowSteps, SwitchSteps, StepsOK
  <2> QED
    BY <2>1, <2>2, Ignorant, QuietStep
<1>33. CASE Lift(p)
  <2>1. Rows' = Rows /\ Objects' = Objects /\ committed' = committed
    BY <1>33 DEF Lift, Rows, Objects, diskVars, historyVars
  <2>2. pc'[p] \notin KnowSteps
    BY <1>33 DEF Lift, KnowSteps, SwitchSteps, StepsOK
  <2> QED
    BY <2>1, <2>2, Ignorant, QuietStep
<1>34. CASE Crash(p)
  <2>1. Rows' = Rows /\ Objects' = Objects /\ committed' = committed
    BY <1>34 DEF Crash, Rows, Objects, diskVars, historyVars
  <2>2. pc'[p] \notin KnowSteps
    BY <1>34 DEF Crash, KnowSteps, SwitchSteps, StepsOK
  <2> QED
    BY <2>1, <2>2, Ignorant, QuietStep
<1> QED
  BY <1>1, <1>2, <1>3, <1>4, <1>5, <1>6, <1>7, <1>8, <1>9, <1>10, <1>11, <1>12, <1>13,
     <1>14, <1>15, <1>16, <1>17, <1>18, <1>19, <1>20, <1>21, <1>22, <1>23, <1>24, <1>25,
     <1>26, <1>27, <1>28, <1>29, <1>30, <1>31, <1>32, <1>33, <1>34 DEF ProfileStep

\* StopHolds is kept, with what it rests on.
LEMMA StopKeeps ==
  ASSUME ProfileTypeOK, LockOK, StopInv, NEW p \in Proc, ProfileStep(p)
  PROVE  StopInv'
<1> SUFFICES ASSUME ~breached', ~crossed'
             PROVE  /\ stopped' => estop' /\ \A q \in Proc : ~Core(q)' /\ pc'[q] # "lift"
                    /\ \A q \in Proc : job'[q] = "stop" /\ pc'[q] \in {"open", "flock", "persist"}
                                         => estop'
  BY DEF StopInv
<1>a. StepsOK /\ ~breached /\ \A q \in Proc \ {p} : pc'[q] = pc[q] /\ job'[q] = job[q]
  BY Frame DEF OthersStand, ProfileTypeOK
<1>b. Locked(p) => \A q \in Proc \ {p} : ~Locked(q)
  BY <1>a, Alone
<1> USE <1>a, <1>b
    DEF StopInv, StepsOK, Locked, Core, CoreSteps, StepsOf, CopySteps, SwitchSteps, LockSteps,
        Jobs, Goto, diskVars, historyVars
<1>1. ASSUME NEW j \in Jobs, Start(p, j) PROVE StopInv'
  BY <1>1 DEF Start
<1>2. CASE Open(p)
  BY <1>2 DEF Open
<1>3. CASE Flock(p)
  BY <1>3 DEF Flock, FirstStep
<1>4. CASE Unlock(p)
  BY <1>4 DEF Unlock
<1>5. CASE Unlink(p)
  BY <1>5 DEF Unlink
<1>6. CASE Initialize(p)
  BY <1>6 DEF Initialize
<1>7. CASE Rename(p)
  BY <1>7 DEF Rename
<1>8. CASE RenameFails(p)
  BY <1>8 DEF RenameFails, Fault
<1>9. CASE Insert(p)
  BY <1>9 DEF Insert
<1>10. ASSUME NEW c \in Chat, NEW d \in Digest, Put(p, c, d) PROVE StopInv'
  BY <1>10 DEF Put
<1>11. CASE PutRefused(p)
  BY <1>11 DEF PutRefused, Fault
<1>12. CASE Recheck(p)
  BY <1>12 DEF Recheck
<1>13. CASE Shutdown(p)
  BY <1>13 DEF Shutdown
<1>14. CASE Preserve(p)
  BY <1>14 DEF Preserve
<1>15. CASE Snapshot(p)
  BY <1>15 DEF Snapshot, GiveUpStep
<1>16. CASE Inventory(p)
  BY <1>16 DEF Inventory, GiveUpStep
<1>17. CASE Archive(p)
  BY <1>17 DEF Archive, AfterArchive, GiveUpStep
<1>18. CASE CommandFails(p)
  BY <1>18 DEF CommandFails, GiveUpStep, Fault
<1>19. ASSUME NEW c \in Chat, Erase(p, c) PROVE StopInv'
  BY <1>19 DEF Erase
<1>20. CASE Remove(p)
  BY <1>20 DEF Remove
<1>21. CASE RemoveFails(p)
  BY <1>21 DEF RemoveFails, Fault
<1>22. CASE Stage(p)
  BY <1>22 DEF Stage
<1>23. CASE MoveDb(p)
  BY <1>23 DEF MoveDb
<1>24. CASE MoveObjects(p)
  BY <1>24 DEF MoveObjects
<1>25. CASE InstallDb(p)
  BY <1>25 DEF InstallDb
<1>26. CASE InstallObjects(p)
  BY <1>26 DEF InstallObjects
<1>27. CASE SwitchFails(p)
  BY <1>27 DEF SwitchFails, Fault
<1>28. CASE UndoDb(p)
  BY <1>28 DEF UndoDb
<1>29. CASE UndoObjects(p)
  BY <1>29 DEF UndoObjects
<1>30. CASE UndoMove(p)
  BY <1>30 DEF UndoMove
<1>31. CASE UndoFails(p)
  BY <1>31 DEF UndoFails, Fault
<1>32. CASE Persist(p)
  BY <1>32 DEF Persist
<1>33. CASE Lift(p)
  BY <1>33 DEF Lift
<1>34. CASE Crash(p)
  BY <1>34 DEF Crash
<1> QED
  BY <1>1, <1>2, <1>3, <1>4, <1>5, <1>6, <1>7, <1>8, <1>9, <1>10, <1>11, <1>12, <1>13,
     <1>14, <1>15, <1>16, <1>17, <1>18, <1>19, <1>20, <1>21, <1>22, <1>23, <1>24, <1>25,
     <1>26, <1>27, <1>28, <1>29, <1>30, <1>31, <1>32, <1>33, <1>34 DEF ProfileStep

---------------------------------------------------------------------------
(* Rows, objects and archives.                                             *)

\* No copy beside this command is taken for whole.
Torn(p) == \A q \in Proc \ {p} : Copying(q) => ~mem'[q].whole

\* A command outside the switch and the copy has nothing to say of them.
LEMMA Unconcerned ==
  ASSUME NEW p \in Proc, pc'[p] \notin SwitchSteps \cup {"move_db", "inventory", "archive"}
  PROVE  SwitchOK(p)' /\ CopyOK(p)'
  BY DEF SwitchOK, CopyOK, Switching, SwitchSteps

\* A switch is made under the lock.
LEMMA SwitchLocked ==
  ASSUME StepsOK, NEW p \in Proc, pc[p] \in SwitchSteps \cup {"move_db"}
  PROVE  Locked(p)
  BY DEF StepsOK, Locked, StepsOf, CoreSteps, CopySteps, SwitchSteps, LockSteps, Jobs

\* Whoever holds the lock and does not switch finds an object for every row.
LEMMA StoreWhole ==
  ASSUME StepsOK, LockOK, StoreInv, ~breached, ~tainted, NEW p \in Proc, Locked(p), ~Switching(p)
  PROVE  Digests(Rows) \subseteq Objects
<1>1. \A q \in Proc : ~Switching(q)
  BY SwitchLocked, Alone DEF Switching
<1> QED
  BY <1>1 DEF StoreInv, NoDanglingRow

\* A step that leaves rows and objects alone leaves what copies and switches rely on.
LEMMA QuietStore ==
  ASSUME ProfileTypeOK, LockOK, StoreInv, NEW p \in Proc, ProfileStep(p),
         Rows' = Rows, Objects' = Objects, db' = db \/ Locked(p),
         ~breached /\ ~tainted =>
           \A a \in archives' \ archives : a.whole => Digests(a.rows) \subseteq a.objs,
         Switching(p) => Switching(p)',
         ~breached /\ ~tainted => SwitchOK(p)' /\ CopyOK(p)'
  PROVE  StoreInv'
<1> SUFFICES ASSUME ~breached', ~tainted'
             PROVE  /\ (\A q \in Proc : ~Switching(q)') => Digests(Rows)' \subseteq Objects'
                    /\ \A a \in archives' : a.whole => Digests(a.rows) \subseteq a.objs
                    /\ \A q \in Proc : SwitchOK(q)' /\ CopyOK(q)'
  BY DEF StoreInv, NoDanglingRow, ArchiveComplete, Digests
<1>1. ~breached /\ ~tainted /\ OthersStand(p) /\ StepsOK
  BY Frame DEF ProfileTypeOK
<1>2. \A q \in Proc \ {p} : Switching(q)' <=> Switching(q)
  BY <1>1 DEF OthersStand, Switching
<1>3. (\A q \in Proc : ~Switching(q)') => Digests(Rows)' \subseteq Objects'
  <2>1. (\A q \in Proc : ~Switching(q)') => \A q \in Proc : ~Switching(q)
    BY <1>2
  <2>2. Digests(Rows)' = Digests(Rows)
    BY DEF Digests
  <2> QED
    BY <1>1, <2>1, <2>2 DEF StoreInv, NoDanglingRow
<1>4. \A a \in archives' : a.whole => Digests(a.rows) \subseteq a.objs
  BY <1>1 DEF StoreInv, ArchiveComplete
<1>5. ASSUME NEW q \in Proc \ {p} PROVE SwitchOK(q)'
  <2>1. SwitchOK(q) /\ pc'[q] = pc[q] /\ mem'[q].rows = mem[q].rows /\ mem'[q].saved = mem[q].saved
    BY <1>1 DEF StoreInv, OthersStand
  <2>2. SavedObjects(q)' = SavedObjects(q)
    BY <2>1 DEF SavedObjects
  <2>3. pc[q] \in SwitchSteps => db' = db
    BY <1>1, SwitchLocked, Alone
  <2> QED
    BY <2>1, <2>2, <2>3 DEF SwitchOK, Switching, SwitchSteps, Digests
<1>6. ASSUME NEW q \in Proc \ {p} PROVE CopyOK(q)'
  <2>1. CopyOK(q) /\ pc'[q] = pc[q] /\ mem'[q].rows = mem[q].rows /\ mem'[q].objs = mem[q].objs
        /\ (mem'[q].whole => mem[q].whole)
    BY <1>1 DEF StoreInv, OthersStand
  <2> QED
    BY <2>1 DEF CopyOK, Digests
<1> QED
  BY <1>1, <1>3, <1>4, <1>5, <1>6

\* A step of the command that holds the lock: beside it there are only copies, which lose
\* no object or are torn.
LEMMA LockedStore ==
  ASSUME ProfileTypeOK, LockOK, StoreInv, NEW p \in Proc, ProfileStep(p), Locked(p),
         archives' = archives,
         ~breached' /\ ~tainted' =>
           /\ Objects \subseteq Objects' \/ Torn(p)
           /\ SwitchOK(p)' /\ pc'[p] \notin {"inventory", "archive"}
           /\ ~Switching(p)' => Digests(Rows)' \subseteq Objects'
  PROVE  StoreInv'
<1> SUFFICES ASSUME ~breached', ~tainted'
             PROVE  /\ (\A q \in Proc : ~Switching(q)') => Digests(Rows)' \subseteq Objects'
                    /\ \A a \in archives' : a.whole => Digests(a.rows) \subseteq a.objs
                    /\ \A q \in Proc : SwitchOK(q)' /\ CopyOK(q)'
  BY DEF StoreInv, NoDanglingRow, ArchiveComplete, Digests
<1>1. ~breached /\ ~tainted /\ OthersStand(p) /\ StepsOK
  BY Frame DEF ProfileTypeOK
<1>2. \A a \in archives' : a.whole => Digests(a.rows) \subseteq a.objs
  BY <1>1 DEF StoreInv, ArchiveComplete
<1>3. ASSUME NEW q \in Proc \ {p} PROVE SwitchOK(q)'
  <2>1. pc'[q] = pc[q] /\ pc[q] \notin SwitchSteps \cup {"move_db"}
    BY <1>1, SwitchLocked, Alone DEF OthersStand
  <2> QED
    BY <2>1 DEF SwitchOK, Switching, SwitchSteps
<1>4. ASSUME NEW q \in Proc \ {p} PROVE CopyOK(q)'
  <2>1. CopyOK(q) /\ pc'[q] = pc[q] /\ mem'[q].rows = mem[q].rows /\ mem'[q].objs = mem[q].objs
        /\ (mem'[q].whole => mem[q].whole)
    BY <1>1 DEF StoreInv, OthersStand
  <2>2. CASE Objects \subseteq Objects'
    BY <2>1, <2>2 DEF CopyOK, Digests
  <2>3. CASE Torn(p)
    BY <2>1, <2>3 DEF CopyOK, Torn, Copying
  <2> QED
    BY <2>2, <2>3
<1>5. CopyOK(p)'
  BY DEF CopyOK
<1> QED
  BY <1>2, <1>3, <1>4, <1>5

\* NoDanglingRow and ArchiveComplete are kept, with what they rest on.
LEMMA StoreKeeps ==
  ASSUME ProfileTypeOK, LockOK, RecoverInv, StoreInv, NEW p \in Proc, ProfileStep(p)
  PROVE  StoreInv'
<1>0. mem \in [Proc -> Memory] /\ mem[p] \in Memory /\ StepsOK
  BY DEF ProfileTypeOK
<1> USE <1>0 DEF Goto
<1>1. ASSUME NEW j \in Jobs, Start(p, j) PROVE StoreInv'
  <2>1. Rows' = Rows /\ Objects' = Objects /\ (db' = db \/ Locked(p))
    BY <1>1 DEF Start, Rows, Objects, Locked, StepsOK, StepsOf, CoreSteps, CopySteps, SwitchSteps,
       LockSteps, Jobs, diskVars
  <2>2. archives' = archives
    BY <1>1 DEF Start, diskVars
  <2>3. ~Switching(p) /\ pc'[p] \notin SwitchSteps \cup {"move_db", "inventory", "archive"}
    BY <1>1 DEF Start, StepsOK, SwitchSteps, Switching
  <2> QED
    BY <2>1, <2>2, <2>3, Unconcerned, QuietStore
<1>2. CASE Open(p)
  <2>1. Rows' = Rows /\ Objects' = Objects /\ (db' = db \/ Locked(p))
    BY <1>2 DEF Open, Rows, Objects, Locked, StepsOK, StepsOf, CoreSteps, CopySteps, SwitchSteps,
       LockSteps, Jobs, diskVars
  <2>2. archives' = archives
    BY <1>2 DEF Open, diskVars
  <2>3. ~Switching(p) /\ pc'[p] \notin SwitchSteps \cup {"move_db", "inventory", "archive"}
    BY <1>2 DEF Open, StepsOK, SwitchSteps, Switching
  <2> QED
    BY <2>1, <2>2, <2>3, Unconcerned, QuietStore
<1>3. CASE Flock(p)
  <2>1. Rows' = Rows /\ Objects' = Objects /\ (db' = db \/ Locked(p))
    BY <1>3 DEF Flock, Rows, Objects, Locked, StepsOK, StepsOf, CoreSteps, CopySteps, SwitchSteps,
       LockSteps, Jobs, diskVars
  <2>2. archives' = archives
    BY <1>3 DEF Flock, diskVars
  <2>3. ~Switching(p) /\ pc'[p] \notin SwitchSteps \cup {"move_db", "inventory", "archive"}
    BY <1>3 DEF Flock, StepsOK, SwitchSteps, Switching, FirstStep
  <2> QED
    BY <2>1, <2>2, <2>3, Unconcerned, QuietStore
<1>4. CASE Unlock(p)
  <2>1. Rows' = Rows /\ Objects' = Objects /\ (db' = db \/ Locked(p))
    BY <1>4 DEF Unlock, Rows, Objects, Locked, StepsOK, StepsOf, CoreSteps, CopySteps,
       SwitchSteps,
       LockSteps, Jobs, diskVars
  <2>2. archives' = archives
    BY <1>4 DEF Unlock, diskVars
  <2>3. ~Switching(p) /\ pc'[p] \notin SwitchSteps \cup {"move_db", "inventory", "archive"}
    BY <1>4 DEF Unlock, StepsOK, SwitchSteps, Switching
  <2> QED
    BY <2>1, <2>2, <2>3, Unconcerned, QuietStore
<1>5. CASE Unlink(p)
  <2>1. Rows' = Rows /\ Objects' = Objects /\ (db' = db \/ Locked(p))
    BY <1>5 DEF Unlink, Rows, Objects, Locked, StepsOK, StepsOf, CoreSteps, CopySteps,
       SwitchSteps,
       LockSteps, Jobs, diskVars
  <2>2. archives' = archives
    BY <1>5 DEF Unlink, diskVars
  <2>3. ~Switching(p) /\ pc'[p] \notin SwitchSteps \cup {"move_db", "inventory", "archive"}
    BY <1>5 DEF Unlink, StepsOK, SwitchSteps, Switching
  <2> QED
    BY <2>1, <2>2, <2>3, Unconcerned, QuietStore
<1>6. CASE Initialize(p)
  <2>1. Rows' = Rows /\ Objects' = Objects /\ (db' = db \/ Locked(p))
    BY <1>6 DEF Initialize, Rows, Objects, Locked, StepsOK, StepsOf, CoreSteps, CopySteps,
       SwitchSteps,
       LockSteps, Jobs, diskVars
  <2>2. archives' = archives
    BY <1>6 DEF Initialize, diskVars
  <2>3. ~Switching(p) /\ pc'[p] \notin SwitchSteps \cup {"move_db", "inventory", "archive"}
    BY <1>6 DEF Initialize, StepsOK, SwitchSteps, Switching
  <2> QED
    BY <2>1, <2>2, <2>3, Unconcerned, QuietStore
<1>7. CASE Rename(p)
  <2>0. Locked(p) /\ archives' = archives
    BY <1>7 DEF Rename, StepsOK, Locked, StepsOf, CoreSteps, CopySteps, SwitchSteps, LockSteps,
       Jobs
  <2> SUFFICES ASSUME ~breached', ~tainted'
               PROVE  /\ Objects \subseteq Objects' \/ Torn(p)
                      /\ SwitchOK(p)' /\ pc'[p] \notin {"inventory", "archive"}
                      /\ ~Switching(p)' => Digests(Rows)' \subseteq Objects'
    BY <2>0, LockedStore
  <2>1. ~breached /\ ~tainted /\ SwitchOK(p) /\ KnowsFiles(p)
    BY Frame DEF StoreInv, RecoverInv
  <2>2. ~Switching(p) => Digests(Rows) \subseteq Objects
    BY <2>0, <2>1, StoreWhole
  <2>3. ~Switching(p) /\ pc'[p] = "insert"
    BY <1>7 DEF Rename, StepsOK, Switching, SwitchSteps
  <2>4. PICK r \in mem[p].rows : objects' = {Objects \cup {r[2]}}
    BY <1>7 DEF Rename
  <2>5. Objects' = Objects \cup {r[2]}
    BY <2>4 DEF Objects
  <2>6. Rows' = Rows
    BY <1>7 DEF Rename, Rows
  <2> QED
    BY <2>2, <2>3, <2>5, <2>6 DEF SwitchOK, Switching, SwitchSteps, Digests
<1>8. CASE RenameFails(p)
  <2>1. Rows' = Rows /\ Objects' = Objects /\ (db' = db \/ Locked(p))
    BY <1>8 DEF RenameFails, Rows, Objects, Locked, StepsOK, StepsOf, CoreSteps, CopySteps,
       SwitchSteps,
       LockSteps, Jobs, diskVars
  <2>2. archives' = archives
    BY <1>8 DEF RenameFails, diskVars
  <2>3. ~Switching(p) /\ pc'[p] \notin SwitchSteps \cup {"move_db", "inventory", "archive"}
    BY <1>8 DEF RenameFails, StepsOK, SwitchSteps, Switching
  <2> QED
    BY <2>1, <2>2, <2>3, Unconcerned, QuietStore
<1>9. CASE Insert(p)
  <2>0. Locked(p) /\ archives' = archives
    BY <1>9 DEF Insert, StepsOK, Locked, StepsOf, CoreSteps, CopySteps, SwitchSteps, LockSteps,
       Jobs
  <2> SUFFICES ASSUME ~breached', ~tainted'
               PROVE  /\ Objects \subseteq Objects' \/ Torn(p)
                      /\ SwitchOK(p)' /\ pc'[p] \notin {"inventory", "archive"}
                      /\ ~Switching(p)' => Digests(Rows)' \subseteq Objects'
    BY <2>0, LockedStore
  <2>1. ~breached /\ ~tainted /\ SwitchOK(p) /\ KnowsFiles(p)
    BY Frame DEF StoreInv, RecoverInv
  <2>2. ~Switching(p) => Digests(Rows) \subseteq Objects
    BY <2>0, <2>1, StoreWhole
  <2>3. ~Switching(p) /\ pc[p] = "insert" /\ pc'[p] = "ready"
    BY <1>9 DEF Insert, StepsOK, Switching, SwitchSteps
  <2>4. Objects' = Objects /\ Rows' = Rows \cup mem[p].rows
    BY <1>9 DEF Insert, Rows, Objects
  <2>5. Digests(mem[p].rows) \subseteq Objects
    BY <2>1, <2>3 DEF KnowsFiles
  <2> QED
    BY <2>2, <2>3, <2>4, <2>5 DEF SwitchOK, Switching, SwitchSteps, Digests
<1>10. ASSUME NEW c \in Chat, NEW d \in Digest, Put(p, c, d) PROVE StoreInv'
  <2>1. Rows' = Rows /\ Objects' = Objects /\ (db' = db \/ Locked(p))
    BY <1>10 DEF Put, Rows, Objects, Locked, StepsOK, StepsOf, CoreSteps, CopySteps, SwitchSteps,
       LockSteps, Jobs, diskVars
  <2>2. archives' = archives
    BY <1>10 DEF Put, diskVars
  <2>3. ~Switching(p) /\ pc'[p] \notin SwitchSteps \cup {"move_db", "inventory", "archive"}
    BY <1>10 DEF Put, StepsOK, SwitchSteps, Switching
  <2> QED
    BY <2>1, <2>2, <2>3, Unconcerned, QuietStore
<1>11. CASE PutRefused(p)
  <2>1. Rows' = Rows /\ Objects' = Objects /\ (db' = db \/ Locked(p))
    BY <1>11 DEF PutRefused, Rows, Objects, Locked, StepsOK, StepsOf, CoreSteps, CopySteps,
       SwitchSteps,
       LockSteps, Jobs, diskVars
  <2>2. archives' = archives
    BY <1>11 DEF PutRefused, diskVars
  <2>3. ~Switching(p) /\ pc'[p] \notin SwitchSteps \cup {"move_db", "inventory", "archive"}
    BY <1>11 DEF PutRefused, StepsOK, SwitchSteps, Switching
  <2> QED
    BY <2>1, <2>2, <2>3, Unconcerned, QuietStore
<1>12. CASE Recheck(p)
  <2>1. Rows' = Rows /\ Objects' = Objects /\ (db' = db \/ Locked(p))
    BY <1>12 DEF Recheck, Rows, Objects, Locked, StepsOK, StepsOf, CoreSteps, CopySteps,
       SwitchSteps,
       LockSteps, Jobs, diskVars
  <2>2. archives' = archives
    BY <1>12 DEF Recheck, diskVars
  <2>3. ~Switching(p) /\ pc'[p] \notin SwitchSteps \cup {"move_db", "inventory", "archive"}
    BY <1>12 DEF Recheck, StepsOK, SwitchSteps, Switching
  <2> QED
    BY <2>1, <2>2, <2>3, Unconcerned, QuietStore
<1>13. CASE Shutdown(p)
  <2>1. Rows' = Rows /\ Objects' = Objects /\ (db' = db \/ Locked(p))
    BY <1>13 DEF Shutdown, Rows, Objects, Locked, StepsOK, StepsOf, CoreSteps, CopySteps,
       SwitchSteps,
       LockSteps, Jobs, diskVars
  <2>2. archives' = archives
    BY <1>13 DEF Shutdown, diskVars
  <2>3. ~Switching(p) /\ pc'[p] \notin SwitchSteps \cup {"move_db", "inventory", "archive"}
    BY <1>13 DEF Shutdown, StepsOK, SwitchSteps, Switching
  <2> QED
    BY <2>1, <2>2, <2>3, Unconcerned, QuietStore
<1>14. CASE Preserve(p)
  <2>1. Rows' = Rows /\ Objects' = Objects /\ (db' = db \/ Locked(p))
    BY <1>14 DEF Preserve, Rows, Objects, Locked, StepsOK, StepsOf, CoreSteps, CopySteps,
       SwitchSteps,
       LockSteps, Jobs, diskVars
  <2>2. archives' = archives
    BY <1>14 DEF Preserve, diskVars
  <2>3. ~Switching(p) /\ pc'[p] \notin SwitchSteps \cup {"move_db", "inventory", "archive"}
    BY <1>14 DEF Preserve, StepsOK, SwitchSteps, Switching
  <2> QED
    BY <2>1, <2>2, <2>3, Unconcerned, QuietStore
<1>15. CASE Snapshot(p)
  <2>1. Rows' = Rows /\ Objects' = Objects /\ (db' = db \/ Locked(p))
    BY <1>15 DEF Snapshot, Rows, Objects, Locked, StepsOK, StepsOf, CoreSteps, CopySteps,
       SwitchSteps,
       LockSteps, Jobs, diskVars
  <2>2. archives' = archives
    BY <1>15 DEF Snapshot, diskVars
  <2>3. CASE db = {}
    <3>1. ~Switching(p) /\ pc'[p] \notin SwitchSteps \cup {"move_db", "inventory", "archive"}
      BY <1>15, <2>3 DEF Snapshot, GiveUpStep, StepsOK, SwitchSteps, Switching
    <3> QED
      BY <2>1, <2>2, <3>1, Unconcerned, QuietStore
  <2>4. CASE db # {}
    <3> DEFINE b == ~\E q \in Proc \ {p} : Switching(q)
    <3>1. /\ ~Switching(p) /\ pc'[p] = "inventory"
          /\ Local(p, [mem[p] EXCEPT !.rows = Rows, !.whole = b])
      BY <1>15, <2>4 DEF Snapshot, StepsOK, Switching, SwitchSteps
    <3> HIDE DEF b
    <3>2. mem'[p] = [mem[p] EXCEPT !.rows = Rows, !.whole = b]
      BY <3>1, LocalWrites
    <3>3. mem'[p].rows = Rows /\ mem'[p].whole = b
      BY <3>2, Written
    <3>4. ~breached /\ ~tainted /\ b => Digests(Rows) \subseteq Objects
      BY <3>1 DEF StoreInv, NoDanglingRow, b
    <3>5. ~breached /\ ~tainted => CopyOK(p)'
      BY <2>1, <3>1, <3>3, <3>4 DEF CopyOK, Digests
    <3>6. SwitchOK(p)'
      BY <3>1 DEF SwitchOK, Switching, SwitchSteps
    <3> QED
      BY <2>1, <2>2, <3>1, <3>5, <3>6, QuietStore
  <2> QED
    BY <2>3, <2>4
<1>16. CASE Inventory(p)
  <2>1. Rows' = Rows /\ Objects' = Objects /\ (db' = db \/ Locked(p))
    BY <1>16 DEF Inventory, Rows, Objects, Locked, StepsOK, StepsOf, CoreSteps, CopySteps,
       SwitchSteps,
       LockSteps, Jobs, diskVars
  <2>2. archives' = archives
    BY <1>16 DEF Inventory, diskVars
  <2>3. CASE incoming # {}
    <3>1. ~Switching(p) /\ pc'[p] \notin SwitchSteps \cup {"move_db", "inventory", "archive"}
      BY <1>16, <2>3 DEF Inventory, GiveUpStep, StepsOK, SwitchSteps, Switching
    <3> QED
      BY <2>1, <2>2, <3>1, Unconcerned, QuietStore
  <2>4. CASE incoming = {}
    <3>1. /\ ~Switching(p) /\ pc[p] = "inventory" /\ pc'[p] = "archive"
          /\ Local(p, [mem[p] EXCEPT !.objs = Objects])
      BY <1>16, <2>4 DEF Inventory, StepsOK, Switching, SwitchSteps
    <3>2. mem'[p] = [mem[p] EXCEPT !.objs = Objects]
      BY <3>1, LocalWrites
    <3>3. mem'[p].rows = mem[p].rows /\ mem'[p].objs = Objects /\ mem'[p].whole = mem[p].whole
      BY <3>2, Written
    <3>4. ~breached /\ ~tainted => CopyOK(p)'
      BY <2>1, <3>1, <3>3 DEF StoreInv, CopyOK, Digests
    <3>5. SwitchOK(p)'
      BY <3>1 DEF SwitchOK, Switching, SwitchSteps
    <3> QED
      BY <2>1, <2>2, <3>1, <3>4, <3>5, QuietStore
  <2> QED
    BY <2>3, <2>4
<1>17. CASE Archive(p)
  <2>1. Rows' = Rows /\ Objects' = Objects /\ db' = db
    BY <1>17 DEF Archive, Rows, Objects
  <2>2. \A a \in archives' \ archives :
          a = [rows |-> mem[p].rows, objs |-> mem[p].objs, whole |-> mem[p].whole]
    BY <1>17 DEF Archive
  <2>3. ~breached /\ ~tainted => CopyOK(p)
    BY DEF StoreInv
  <2>4. ~breached /\ ~tainted =>
          \A a \in archives' \ archives : a.whole => Digests(a.rows) \subseteq a.objs
    BY <1>17, <2>2, <2>3 DEF Archive, CopyOK
  <2>5. ~Switching(p) /\ pc'[p] \notin SwitchSteps \cup {"move_db", "inventory", "archive"}
    BY <1>17 DEF Archive, AfterArchive, GiveUpStep, StepsOK, StepsOf, CopySteps, CoreSteps, Jobs,
       LockSteps, SwitchSteps, Switching
  <2> QED
    BY <2>1, <2>4, <2>5, Unconcerned, QuietStore
<1>18. CASE CommandFails(p)
  <2>1. Rows' = Rows /\ Objects' = Objects /\ (db' = db \/ Locked(p))
    BY <1>18 DEF CommandFails, Rows, Objects, Locked, StepsOK, StepsOf, CoreSteps, CopySteps,
       SwitchSteps,
       LockSteps, Jobs, diskVars
  <2>2. archives' = archives
    BY <1>18 DEF CommandFails, diskVars
  <2>3. ~Switching(p) /\ pc'[p] \notin SwitchSteps \cup {"move_db", "inventory", "archive"}
    BY <1>18 DEF CommandFails, StepsOK, SwitchSteps, Switching, GiveUpStep
  <2> QED
    BY <2>1, <2>2, <2>3, Unconcerned, QuietStore
<1>19. ASSUME NEW c \in Chat, Erase(p, c) PROVE StoreInv'
  <2>0. Locked(p) /\ archives' = archives
    BY <1>19 DEF Erase, StepsOK, Locked, StepsOf, CoreSteps, CopySteps, SwitchSteps, LockSteps,
       Jobs
  <2> SUFFICES ASSUME ~breached', ~tainted'
               PROVE  /\ Objects \subseteq Objects' \/ Torn(p)
                      /\ SwitchOK(p)' /\ pc'[p] \notin {"inventory", "archive"}
                      /\ ~Switching(p)' => Digests(Rows)' \subseteq Objects'
    BY <2>0, LockedStore
  <2>1. ~breached /\ ~tainted /\ SwitchOK(p) /\ KnowsFiles(p)
    BY Frame DEF StoreInv, RecoverInv
  <2>2. ~Switching(p) => Digests(Rows) \subseteq Objects
    BY <2>0, <2>1, StoreWhole
  <2>3. ~Switching(p) /\ pc'[p] \in {"remove", "unlock"}
    BY <1>19 DEF Erase, StepsOK, Switching, SwitchSteps
  <2>4. Objects' = Objects /\ Rows' \subseteq Rows
    BY <1>19 DEF Erase, Rows, Objects
  <2> QED
    BY <2>2, <2>3, <2>4 DEF SwitchOK, Switching, SwitchSteps, Digests
<1>20. CASE Remove(p)
  <2>0. Locked(p) /\ archives' = archives
    BY <1>20 DEF Remove, StepsOK, Locked, StepsOf, CoreSteps, CopySteps, SwitchSteps, LockSteps,
       Jobs
  <2> SUFFICES ASSUME ~breached', ~tainted'
               PROVE  /\ Objects \subseteq Objects' \/ Torn(p)
                      /\ SwitchOK(p)' /\ pc'[p] \notin {"inventory", "archive"}
                      /\ ~Switching(p)' => Digests(Rows)' \subseteq Objects'
    BY <2>0, LockedStore
  <2>1. ~breached /\ ~tainted /\ SwitchOK(p) /\ KnowsFiles(p)
    BY Frame DEF StoreInv, RecoverInv
  <2>2. ~Switching(p) => Digests(Rows) \subseteq Objects
    BY <2>0, <2>1, StoreWhole
  <2>3. ~Switching(p) /\ pc[p] = "remove" /\ pc'[p] \in {"remove", "unlock"}
    BY <1>20 DEF Remove, StepsOK, Switching, SwitchSteps
  <2>4. Rows' = Rows /\ mem[p].objs \cap Digests(Rows) = {}
    BY <1>20, <2>1, <2>3 DEF Remove, Rows, KnowsFiles
  <2>5. CASE mem[p].objs = {}
    <3>1. Objects' = Objects
      BY <1>20, <2>5 DEF Remove, Objects
    <3> QED
      BY <2>2, <2>3, <2>4, <3>1 DEF SwitchOK, Switching, SwitchSteps, Digests
  <2>6. CASE mem[p].objs # {}
    <3>1. PICK d \in mem[p].objs :
            objects' = {Objects \ {d}} /\ mem' = [Tear(p) EXCEPT ![p].objs = @ \ {d}]
      BY <1>20, <2>6 DEF Remove
    <3>2. Objects' = Objects \ {d}
      BY <3>1 DEF Objects
    <3>3. Torn(p)
      BY <3>1, TearKeeps DEF Torn
    <3> QED
      BY <2>2, <2>3, <2>4, <3>1, <3>2, <3>3 DEF SwitchOK, Switching, SwitchSteps, Digests
  <2> QED
    BY <2>5, <2>6
<1>21. CASE RemoveFails(p)
  <2>1. Rows' = Rows /\ Objects' = Objects /\ (db' = db \/ Locked(p))
    BY <1>21 DEF RemoveFails, Rows, Objects, Locked, StepsOK, StepsOf, CoreSteps, CopySteps,
       SwitchSteps,
       LockSteps, Jobs, diskVars
  <2>2. archives' = archives
    BY <1>21 DEF RemoveFails, diskVars
  <2>3. ~Switching(p) /\ pc'[p] \notin SwitchSteps \cup {"move_db", "inventory", "archive"}
    BY <1>21 DEF RemoveFails, StepsOK, SwitchSteps, Switching
  <2> QED
    BY <2>1, <2>2, <2>3, Unconcerned, QuietStore
<1>22. CASE Stage(p)
  <2>1. Rows' = Rows /\ Objects' = Objects /\ (db' = db \/ Locked(p))
    BY <1>22 DEF Stage, Rows, Objects, Locked, StepsOK, StepsOf, CoreSteps, CopySteps,
       SwitchSteps,
       LockSteps, Jobs, diskVars
  <2>2. archives' = archives
    BY <1>22 DEF Stage, diskVars
  <2>3. ~Switching(p) /\ pc'[p] = "move_db"
    BY <1>22 DEF Stage, StepsOK, Switching, SwitchSteps
  <2>4. PICK a \in mem[p].saved.db, o \in mem[p].saved.objects :
            Local(p, [Empty EXCEPT !.rows = a, !.objs = o, !.whole = mem[p].whole])
    BY <1>22 DEF Stage
  <2>5. mem'[p] = [Empty EXCEPT !.rows = a, !.objs = o, !.whole = mem[p].whole]
    BY <2>4, LocalWrites
  <2>6. mem'[p].saved.objects = {}
    BY <2>5, EmptyMemory, Written
  <2>7. SwitchOK(p)' /\ CopyOK(p)'
    BY <2>3, <2>6 DEF SwitchOK, CopyOK, Switching, SwitchSteps
  <2> QED
    BY <2>1, <2>2, <2>3, <2>7, QuietStore
<1>23. CASE MoveDb(p)
  <2>0. Locked(p) /\ archives' = archives
    BY <1>23 DEF MoveDb, StepsOK, Locked, StepsOf, CoreSteps, CopySteps, SwitchSteps, LockSteps,
       Jobs
  <2> SUFFICES ASSUME ~breached', ~tainted'
               PROVE  /\ Objects \subseteq Objects' \/ Torn(p)
                      /\ SwitchOK(p)' /\ pc'[p] \notin {"inventory", "archive"}
                      /\ ~Switching(p)' => Digests(Rows)' \subseteq Objects'
    BY <2>0, LockedStore
  <2>1. ~breached /\ ~tainted /\ SwitchOK(p) /\ KnowsFiles(p)
    BY Frame DEF StoreInv, RecoverInv
  <2>2. ~Switching(p) => Digests(Rows) \subseteq Objects
    BY <2>0, <2>1, StoreWhole
  <2>3. pc[p] = "move_db" /\ ~Switching(p) /\ pc'[p] = "move_objects"
    BY <1>23 DEF MoveDb, StepsOK, Switching, SwitchSteps
  <2>4. db' = {} /\ Objects' = Objects /\ objects' = objects
    BY <1>23 DEF MoveDb, Objects
  <2>5. Torn(p)
    BY <1>23, TearKeeps DEF MoveDb, Torn
  <2>6. mem'[p] = [mem[p] EXCEPT !.saved.db = db]
    <3>1. Tear(p) \in [Proc -> Memory] /\ Tear(p)[p] = mem[p]
      BY TearKeeps
    <3> QED
      BY <1>23, <3>1 DEF MoveDb
  <2>7. mem'[p].saved.db = db /\ mem'[p].saved.objects = {}
    <3>1. mem[p].saved.objects = {}
      BY <2>1, <2>3 DEF SwitchOK
    <3>2. [mem[p] EXCEPT !.saved.db = db].saved.db = db
      <4>1. "saved" \in DOMAIN mem[p] /\ "db" \in DOMAIN mem[p].saved
        BY <1>0 DEF Memory
      <4> QED
        BY <4>1
    <3>3. [mem[p] EXCEPT !.saved.db = db].saved.objects = mem[p].saved.objects
      BY Written
    <3> QED
      BY <2>6, <3>1, <3>2, <3>3
  <2>8. Digests(UNION db) \subseteq Objects
    BY <2>2, <2>3 DEF Rows
  <2> QED
    BY <2>3, <2>4, <2>5, <2>7, <2>8 DEF SwitchOK, SavedObjects, Switching, SwitchSteps, Digests
<1>24. CASE MoveObjects(p)
  <2>0. Locked(p) /\ archives' = archives
    BY <1>24 DEF MoveObjects, StepsOK, Locked, StepsOf, CoreSteps, CopySteps, SwitchSteps,
       LockSteps, Jobs
  <2> SUFFICES ASSUME ~breached', ~tainted'
               PROVE  /\ Objects \subseteq Objects' \/ Torn(p)
                      /\ SwitchOK(p)' /\ pc'[p] \notin {"inventory", "archive"}
                      /\ ~Switching(p)' => Digests(Rows)' \subseteq Objects'
    BY <2>0, LockedStore
  <2>1. ~breached /\ ~tainted /\ SwitchOK(p) /\ KnowsFiles(p)
    BY Frame DEF StoreInv, RecoverInv
  <2>2. ~Switching(p) => Digests(Rows) \subseteq Objects
    BY <2>0, <2>1, StoreWhole
  <2>3. pc[p] = "move_objects" /\ Switching(p) /\ pc'[p] = "install_db"
    BY <1>24 DEF MoveObjects, StepsOK, Switching, SwitchSteps
  <2>4. db' = db /\ db = {} /\ objects' = {} /\ mem[p].saved.objects = {}
    BY <1>24, <2>1, <2>3 DEF MoveObjects, SwitchOK
  <2>5. Torn(p)
    BY <1>24, TearKeeps DEF MoveObjects, Torn
  <2>6. mem'[p] = [mem[p] EXCEPT !.saved.objects = objects]
    <3>1. Tear(p) \in [Proc -> Memory] /\ Tear(p)[p] = mem[p]
      BY TearKeeps
    <3> QED
      BY <1>24, <3>1 DEF MoveObjects
  <2>7. mem'[p].saved.objects = objects /\ mem'[p].saved.db = mem[p].saved.db
    BY <2>6, Written
  <2>8. SavedObjects(p) = Objects /\ SavedObjects(p)' = Objects
    BY <2>4, <2>7 DEF SavedObjects, Objects
  <2>9. Digests(UNION mem[p].saved.db) \subseteq Objects
    BY <2>1, <2>3, <2>8 DEF SwitchOK
  <2> QED
    BY <2>3, <2>4, <2>5, <2>7, <2>8, <2>9 DEF SwitchOK, Switching, SwitchSteps, Digests
<1>25. CASE InstallDb(p)
  <2>0. Locked(p) /\ archives' = archives
    BY <1>25 DEF InstallDb, StepsOK, Locked, StepsOf, CoreSteps, CopySteps, SwitchSteps,
       LockSteps, Jobs
  <2> SUFFICES ASSUME ~breached', ~tainted'
               PROVE  /\ Objects \subseteq Objects' \/ Torn(p)
                      /\ SwitchOK(p)' /\ pc'[p] \notin {"inventory", "archive"}
                      /\ ~Switching(p)' => Digests(Rows)' \subseteq Objects'
    BY <2>0, LockedStore
  <2>1. ~breached /\ ~tainted /\ SwitchOK(p) /\ KnowsFiles(p)
    BY Frame DEF StoreInv, RecoverInv
  <2>2. ~Switching(p) => Digests(Rows) \subseteq Objects
    BY <2>0, <2>1, StoreWhole
  <2>3. pc[p] = "install_db" /\ Switching(p) /\ pc'[p] = "install_objects"
    BY <1>25 DEF InstallDb, StepsOK, Switching, SwitchSteps
  <2>5. Torn(p)
    BY <1>25, TearKeeps DEF InstallDb, Torn
  <2>6. mem'[p] = mem[p]
    BY <1>25, TearKeeps DEF InstallDb
  <2>7. Rows' = mem[p].rows /\ Objects' = Objects
    BY <1>25 DEF InstallDb, Rows, Objects
  <2>8. SavedObjects(p)' = SavedObjects(p)
    BY <2>6, <2>7 DEF SavedObjects
  <2> QED
    BY <2>1, <2>3, <2>5, <2>6, <2>7, <2>8 DEF SwitchOK, Switching, SwitchSteps, Digests
<1>26. CASE InstallObjects(p)
  <2>0. Locked(p) /\ archives' = archives
    BY <1>26 DEF InstallObjects, StepsOK, Locked, StepsOf, CoreSteps, CopySteps, SwitchSteps,
       LockSteps, Jobs
  <2> SUFFICES ASSUME ~breached', ~tainted'
               PROVE  /\ Objects \subseteq Objects' \/ Torn(p)
                      /\ SwitchOK(p)' /\ pc'[p] \notin {"inventory", "archive"}
                      /\ ~Switching(p)' => Digests(Rows)' \subseteq Objects'
    BY <2>0, LockedStore
  <2>1. ~breached /\ ~tainted /\ SwitchOK(p) /\ KnowsFiles(p)
    BY Frame DEF StoreInv, RecoverInv
  <2>2. ~Switching(p) => Digests(Rows) \subseteq Objects
    BY <2>0, <2>1, StoreWhole
  <2>3. pc[p] = "install_objects" /\ pc'[p] = "unlock"
    BY <1>26 DEF InstallObjects, StepsOK
  <2>5. Torn(p)
    BY <1>26, TearKeeps DEF InstallObjects, Torn
  <2>6. Rows' = mem[p].rows /\ Objects' = mem[p].objs
    <3>1. Rows' = Rows /\ Objects' = mem[p].objs
      BY <1>26 DEF InstallObjects, Rows, Objects
    <3> QED
      BY <2>1, <2>3, <3>1 DEF SwitchOK
  <2>7. Digests(mem[p].rows) \subseteq mem[p].objs
    BY <1>26 DEF InstallObjects, Digests
  <2> QED
    BY <2>3, <2>5, <2>6, <2>7 DEF SwitchOK, Switching, SwitchSteps, Digests
<1>27. CASE SwitchFails(p)
  <2>1. Rows' = Rows /\ Objects' = Objects /\ (db' = db \/ Locked(p))
    BY <1>27 DEF SwitchFails, Rows, Objects, Locked, StepsOK, StepsOf, CoreSteps, CopySteps,
       SwitchSteps,
       LockSteps, Jobs, diskVars
  <2>2. archives' = archives
    BY <1>27 DEF SwitchFails, diskVars
  <2>3. mem' = mem /\ db' = db
    BY <1>27 DEF SwitchFails, diskVars
  <2>4. /\ pc[p] = "move_db" => pc'[p] = "unlock"
        /\ pc[p] \in {"move_objects", "install_db"} => pc'[p] = "undo_objects"
        /\ pc[p] = "install_objects" => pc'[p] = "undo_db"
        /\ pc[p] \in {"move_db", "move_objects", "install_db", "install_objects"}
    BY <1>27 DEF SwitchFails, StepsOK
  <2>5. ~breached /\ ~tainted => SwitchOK(p)'
    BY <2>1, <2>3, <2>4 DEF StoreInv, SwitchOK, SavedObjects, Switching, SwitchSteps, Digests,
       Objects
  <2>6. CopyOK(p)' /\ (Switching(p) => Switching(p)')
    BY <2>4 DEF CopyOK, Switching, SwitchSteps
  <2> QED
    BY <2>1, <2>2, <2>5, <2>6, QuietStore
<1>28. CASE UndoDb(p)
  <2>0. Locked(p) /\ archives' = archives
    BY <1>28 DEF UndoDb, StepsOK, Locked, StepsOf, CoreSteps, CopySteps, SwitchSteps, LockSteps,
       Jobs
  <2> SUFFICES ASSUME ~breached', ~tainted'
               PROVE  /\ Objects \subseteq Objects' \/ Torn(p)
                      /\ SwitchOK(p)' /\ pc'[p] \notin {"inventory", "archive"}
                      /\ ~Switching(p)' => Digests(Rows)' \subseteq Objects'
    BY <2>0, LockedStore
  <2>1. ~breached /\ ~tainted /\ SwitchOK(p) /\ KnowsFiles(p)
    BY Frame DEF StoreInv, RecoverInv
  <2>2. ~Switching(p) => Digests(Rows) \subseteq Objects
    BY <2>0, <2>1, StoreWhole
  <2>3. pc[p] = "undo_db" /\ Switching(p) /\ pc'[p] = "undo_objects"
    BY <1>28 DEF UndoDb, StepsOK, Switching, SwitchSteps
  <2>5. Torn(p)
    BY <1>28, TearKeeps DEF UndoDb, Torn
  <2>6. mem'[p] = mem[p]
    BY <1>28, TearKeeps DEF UndoDb
  <2>7. db' = {} /\ Objects' = Objects
    BY <1>28 DEF UndoDb, Objects
  <2>8. SavedObjects(p)' = SavedObjects(p)
    BY <2>6, <2>7 DEF SavedObjects
  <2> QED
    BY <2>1, <2>3, <2>5, <2>6, <2>7, <2>8 DEF SwitchOK, Switching, SwitchSteps, Digests
<1>29. CASE UndoObjects(p)
  <2>0. Locked(p) /\ archives' = archives
    BY <1>29 DEF UndoObjects, StepsOK, Locked, StepsOf, CoreSteps, CopySteps, SwitchSteps,
       LockSteps, Jobs
  <2> SUFFICES ASSUME ~breached', ~tainted'
               PROVE  /\ Objects \subseteq Objects' \/ Torn(p)
                      /\ SwitchOK(p)' /\ pc'[p] \notin {"inventory", "archive"}
                      /\ ~Switching(p)' => Digests(Rows)' \subseteq Objects'
    BY <2>0, LockedStore
  <2>1. ~breached /\ ~tainted /\ SwitchOK(p) /\ KnowsFiles(p)
    BY Frame DEF StoreInv, RecoverInv
  <2>2. ~Switching(p) => Digests(Rows) \subseteq Objects
    BY <2>0, <2>1, StoreWhole
  <2>3. pc[p] = "undo_objects" /\ Switching(p) /\ pc'[p] = "undo_move"
    BY <1>29 DEF UndoObjects, StepsOK, Switching, SwitchSteps
  <2>5. Torn(p)
    BY <1>29, TearKeeps DEF UndoObjects, Torn
  <2>6. mem'[p] = mem[p]
    BY <1>29, TearKeeps DEF UndoObjects
  <2>7. db' = db /\ Objects' = SavedObjects(p)
    BY <1>29 DEF UndoObjects, SavedObjects, Objects
  <2> QED
    BY <2>1, <2>3, <2>5, <2>6, <2>7 DEF SwitchOK, Switching, SwitchSteps, Digests
<1>30. CASE UndoMove(p)
  <2>0. Locked(p) /\ archives' = archives
    BY <1>30 DEF UndoMove, StepsOK, Locked, StepsOf, CoreSteps, CopySteps, SwitchSteps,
       LockSteps, Jobs
  <2> SUFFICES ASSUME ~breached', ~tainted'
               PROVE  /\ Objects \subseteq Objects' \/ Torn(p)
                      /\ SwitchOK(p)' /\ pc'[p] \notin {"inventory", "archive"}
                      /\ ~Switching(p)' => Digests(Rows)' \subseteq Objects'
    BY <2>0, LockedStore
  <2>1. ~breached /\ ~tainted /\ SwitchOK(p) /\ KnowsFiles(p)
    BY Frame DEF StoreInv, RecoverInv
  <2>2. ~Switching(p) => Digests(Rows) \subseteq Objects
    BY <2>0, <2>1, StoreWhole
  <2>3. pc[p] = "undo_move" /\ Switching(p) /\ pc'[p] = "unlock"
    BY <1>30 DEF UndoMove, StepsOK, Switching, SwitchSteps
  <2>5. Torn(p)
    BY <1>30, TearKeeps DEF UndoMove, Torn
  <2>6. Rows' = UNION mem[p].saved.db /\ Objects' = Objects
    <3>1. db = {} /\ Objects' = Objects
      BY <1>30, <2>1, <2>3 DEF UndoMove, SwitchOK, Objects
    <3> QED
      BY <1>30, <3>1 DEF UndoMove, Rows
  <2>7. Digests(UNION mem[p].saved.db) \subseteq Objects
    BY <2>1, <2>3 DEF SwitchOK
  <2> QED
    BY <2>3, <2>5, <2>6, <2>7 DEF SwitchOK, Switching, SwitchSteps, Digests
<1>31. CASE UndoFails(p)
  <2>1. tainted'
    BY <1>31 DEF UndoFails
  <2> QED
    BY <2>1 DEF StoreInv, NoDanglingRow, ArchiveComplete
<1>32. CASE Persist(p)
  <2>1. Rows' = Rows /\ Objects' = Objects /\ (db' = db \/ Locked(p))
    BY <1>32 DEF Persist, Rows, Objects, Locked, StepsOK, StepsOf, CoreSteps, CopySteps,
       SwitchSteps,
       LockSteps, Jobs, diskVars
  <2>2. archives' = archives
    BY <1>32 DEF Persist, diskVars
  <2>3. ~Switching(p) /\ pc'[p] \notin SwitchSteps \cup {"move_db", "inventory", "archive"}
    BY <1>32 DEF Persist, StepsOK, SwitchSteps, Switching
  <2> QED
    BY <2>1, <2>2, <2>3, Unconcerned, QuietStore
<1>33. CASE Lift(p)
  <2>1. Rows' = Rows /\ Objects' = Objects /\ (db' = db \/ Locked(p))
    BY <1>33 DEF Lift, Rows, Objects, Locked, StepsOK, StepsOf, CoreSteps, CopySteps, SwitchSteps,
       LockSteps, Jobs, diskVars
  <2>2. archives' = archives
    BY <1>33 DEF Lift, diskVars
  <2>3. ~Switching(p) /\ pc'[p] \notin SwitchSteps \cup {"move_db", "inventory", "archive"}
    BY <1>33 DEF Lift, StepsOK, SwitchSteps, Switching
  <2> QED
    BY <2>1, <2>2, <2>3, Unconcerned, QuietStore
<1>34. CASE Crash(p)
  <2>1. CASE Switching(p)
    <3>1. tainted'
      BY <1>34, <2>1 DEF Crash
    <3> QED
      BY <3>1 DEF StoreInv, NoDanglingRow, ArchiveComplete
  <2>2. CASE ~Switching(p)
    <3>1. Rows' = Rows /\ Objects' = Objects /\ db' = db /\ archives' = archives
      BY <1>34 DEF Crash, Rows, Objects, diskVars
    <3>2. pc'[p] \notin SwitchSteps \cup {"move_db", "inventory", "archive"}
      BY <1>34 DEF Crash, StepsOK, SwitchSteps
    <3> QED
      BY <2>2, <3>1, <3>2, Unconcerned, QuietStore
  <2> QED
    BY <2>1, <2>2
<1> QED
  BY <1>1, <1>2, <1>3, <1>4, <1>5, <1>6, <1>7, <1>8, <1>9, <1>10, <1>11, <1>12, <1>13,
     <1>14, <1>15, <1>16, <1>17, <1>18, <1>19, <1>20, <1>21, <1>22, <1>23, <1>24, <1>25,
     <1>26, <1>27, <1>28, <1>29, <1>30, <1>31, <1>32, <1>33, <1>34 DEF ProfileStep
---------------------------------------------------------------------------
(* The theorems.                                                           *)

\* Types, lock, and what backups, deletions, restores and stops rely on.
ProfileInv == ProfileTypeOK /\ LockOK /\ RecoverInv /\ StoreInv /\ StopInv

\* An empty profile with no command running.
LEMMA ProfileStarts == ProfileInit => ProfileInv
<1> SUFFICES ASSUME ProfileInit PROVE ProfileInv
  OBVIOUS
<1>1. ProfileTypeOK
  <2>1. StepsOK
    BY DEF ProfileInit, StepsOK, StepsOf, Jobs
  <2>2. estop \in BOOLEAN /\ stopped \in BOOLEAN
    BY DEF ProfileInit
  <2>3. FilesOK
    BY <2>2 DEF ProfileInit, FilesOK
  <2>4. mem \in [Proc -> Memory]
    BY EmptyMemory DEF ProfileInit
  <2> QED
    BY <2>1, <2>3, <2>4 DEF ProfileTypeOK
<1>2. LockOK
  BY DEF ProfileInit, LockOK, Locked
<1>3. \A p \in Proc : pc[p] = "idle"
  BY DEF ProfileInit
<1>4. Rows = {} /\ committed = {} /\ archives = {} /\ ~stopped
  BY DEF ProfileInit, Rows
<1>5. RecoverInv
  BY <1>3, <1>4 DEF RecoverInv, Covered, KnowsFiles, SwitchSteps
<1>6. StoreInv
  BY <1>3, <1>4 DEF StoreInv, NoDanglingRow, ArchiveComplete, SwitchOK, CopyOK, Switching,
     SwitchSteps, Digests
<1>7. StopInv
  BY <1>3, <1>4 DEF StopInv
<1> QED
  BY <1>1, <1>2, <1>5, <1>6, <1>7 DEF ProfileInv

\* Nothing happens.
LEMMA ProfileStutters == ProfileInv /\ UNCHANGED profileVars => ProfileInv'
<1> SUFFICES ASSUME ProfileInv, UNCHANGED profileVars PROVE ProfileInv'
  OBVIOUS
<1> USE DEF ProfileInv, profileVars, lockVars, diskVars, boundVars, historyVars
<1>1. ProfileTypeOK'
  BY DEF ProfileTypeOK, StepsOK, FilesOK
<1>2. LockOK'
  BY DEF LockOK, Locked
<1>3. Rows' = Rows /\ Objects' = Objects
  BY DEF Rows, Objects
<1>4. RecoverInv'
  BY <1>3 DEF RecoverInv, Covered, KnowsFiles, Digests
<1>5. StoreInv'
  BY <1>3 DEF StoreInv, NoDanglingRow, ArchiveComplete, SwitchOK, CopyOK, Switching, SavedObjects,
     Digests
<1>6. StopInv'
  BY DEF StopInv, Core
<1> QED
  BY <1>1, <1>2, <1>4, <1>5, <1>6

\* ProfileInv holds in every reachable state, through every kill, every I/O error and
\* every interleaving of commands; what it says of the files is said until two processes
\* hold the profile lock at once (see OnlyCore).
THEOREM ProfileInvariant == ProfileSpec => []ProfileInv
<1>1. ProfileInv /\ ProfileNext => ProfileInv'
  BY LockKeeps, MemoryKeeps, FilesKeep, RecoverKeeps, StoreKeeps, StopKeeps
     DEF ProfileInv, ProfileTypeOK, ProfileNext
<1>2. ProfileInv /\ [ProfileNext]_profileVars => ProfileInv'
  BY <1>1, ProfileStutters
<1> QED
  BY <1>2, ProfileStarts, PTL DEF ProfileSpec

\* Every attachment row has its object outside a restore's switch: put_bytes comes before
\* the row, and delete_conversation spares what another conversation names.
THEOREM RowsHaveObjects == ProfileSpec => []NoDanglingRow
<1>1. ProfileInv => NoDanglingRow
  BY DEF ProfileInv, StoreInv
<1> QED
  BY <1>1, ProfileInvariant, PTL

\* create_backup misses no object its database copy names, beside any number of cores,
\* commands and other backups.
THEOREM ArchivesAreComplete == ProfileSpec => []ArchiveComplete
<1>1. ProfileInv => ArchiveComplete
  BY DEF ProfileInv, StoreInv
<1> QED
  BY <1>1, ProfileInvariant, PTL

\* Nothing the core stored is lost by a restore that failed or was killed, at whatever
\* step, however many came before it.
THEOREM StoredIsRecoverable == ProfileSpec => []Recoverable
<1>1. ProfileInv => Recoverable
  BY DEF ProfileInv, RecoverInv, Covered, Recoverable
<1> QED
  BY <1>1, ProfileInvariant, PTL

\* A core that serves was not started under a stop in force: initialize() reads the stop
\* file, and only the resume that reset the observe boundary removes it.
THEOREM StopIsKept == ProfileSpec => []StopHolds
<1>1. ProfileInv => StopHolds
  BY DEF ProfileInv, StopInv, StopHolds
<1> QED
  BY <1>1, ProfileInvariant, PTL
=============================================================================
