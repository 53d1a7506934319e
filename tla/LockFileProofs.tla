--------------------------- MODULE LockFileProofs ---------------------------
(***************************************************************************)
(* Proofs about the lockfile API, for any number of processes.             *)
(***************************************************************************)
EXTENDS LockFile, TLAPS

(* No signal arrives between the removal of the lockfile's name and the    *)
(* removal of the tempfile from the list.                                  *)
NoLateSignal == SignalWindows \cap LateWindows = {}

(* What a process's tempfile_list entry says at each point: only a process *)
(* that is past SetOwner owns an entry.                                    *)
OwnerRecorded ==
    \A p \in Proc :
        /\ tempfile[p] \in {NotListed, NoOwner, p}
        /\ pc[p] \in {"idle"} \cup EarlyWindows => tempfile[p] # p

(* The lockfile's contents at each point: complete once the stream was     *)
(* closed without an error, and made from the file as it is.               *)
BufferTracksFile ==
    \A p \in Proc :
        /\ pc[p] \in {"writing", "written", "closed", "renaming"} =>
              buf[p].upds = file.upds \cup {p}
        /\ pc[p] \in {"written", "closed", "renaming"} =>
              buf[p].whole \/ p \in ferr
        /\ pc[p] \in {"closed", "renaming"} => p \notin ferr

(* The file contains exactly what was committed or may have been committed *)
(* by a process that then ended.                                           *)
FileTracksCommits ==
    \A p \in Proc :
        /\ pc[p] \in {"renamed", "done"} => p \in file.upds
        /\ pc[p] \in (Running \ {"renamed"}) \cup {"failed"} => p \notin file.upds

IInv ==
    /\ TypeOK
    /\ MutualExclusion
    /\ OwnerRecorded
    /\ BufferTracksFile
    /\ FileTracksCommits
    /\ ReadersSeeWholeFile

-----------------------------------------------------------------------------
(* One step keeps the state within its type. *)
LEMMA TypeStep == TypeOK /\ [Next]_vars => TypeOK'
<1> USE DEF TypeOK, Content, Entry, Running, Stopped, Holding, EarlyWindows, LateWindows
<1> SUFFICES ASSUME TypeOK, [Next]_vars
             PROVE  TypeOK'
  OBVIOUS
<1>1. ASSUME NEW p \in Proc, OpenExclusive(p) PROVE TypeOK'
  BY <1>1 DEF OpenExclusive, Goto, Empty
<1>2. ASSUME NEW p \in Proc, LockFails(p) PROVE TypeOK'
  BY <1>2 DEF LockFails, Goto
<1>3. ASSUME NEW p \in Proc, ListAdd(p) PROVE TypeOK'
  BY <1>3 DEF ListAdd, Goto
<1>4. ASSUME NEW p \in Proc, SetOwner(p) PROVE TypeOK'
  BY <1>4 DEF SetOwner, Goto
<1>5. ASSUME NEW p \in Proc, BeginWrite(p) PROVE TypeOK'
  BY <1>5 DEF BeginWrite, Goto
<1>6. ASSUME NEW p \in Proc, EndWrite(p) PROVE TypeOK'
  <2>1. buf[p] \in Content /\ [buf[p] EXCEPT !.whole = TRUE] \in Content
    OBVIOUS
  <2>2. buf' \in [Proc -> Content]
    BY <1>6, <2>1 DEF EndWrite
  <2>3. ferr' \subseteq Proc
    BY <1>6 DEF EndWrite
  <2> QED
    BY <1>6, <2>2, <2>3 DEF EndWrite, Goto
<1>7. ASSUME NEW p \in Proc, CloseGently(p) PROVE TypeOK'
  BY <1>7 DEF CloseGently, Goto
<1>8. ASSUME NEW p \in Proc, CommitClose(p) PROVE TypeOK'
  BY <1>8 DEF CommitClose, Goto
<1>9. ASSUME NEW p \in Proc, Rename(p) PROVE TypeOK'
  <2>1. file' \in Content
    BY <1>9 DEF Rename
  <2> QED
    BY <1>9, <2>1 DEF Rename, Goto
<1>10. ASSUME NEW p \in Proc, CommitDeactivate(p) PROVE TypeOK'
  BY <1>10 DEF CommitDeactivate, Goto
<1>11. ASSUME NEW p \in Proc, Unlink(p) PROVE TypeOK'
  BY <1>11 DEF Unlink, Goto
<1>12. ASSUME NEW p \in Proc, RollbackDeactivate(p) PROVE TypeOK'
  BY <1>12 DEF RollbackDeactivate, Goto
<1>13. ASSUME NEW p \in Proc, Reopen(p) PROVE TypeOK'
  BY <1>13 DEF Reopen, Goto, Empty
<1>14. ASSUME NEW p \in Proc, Rollback(p) PROVE TypeOK'
  BY <1>14 DEF Rollback, Goto
<1>15. ASSUME NEW p \in Proc, Exit(p) PROVE TypeOK'
  BY <1>15 DEF Exit, Goto, RemoveTempfiles
<1>16. ASSUME NEW p \in Proc, Signal(p) PROVE TypeOK'
  BY <1>16 DEF Signal, Goto, RemoveTempfiles
<1>17. ASSUME NEW p \in Proc, Kill(p) PROVE TypeOK'
  BY <1>17 DEF Kill, Goto
<1>18. ASSUME NEW p \in Proc, Fork(p) PROVE TypeOK'
  BY <1>18 DEF Fork
<1>19. ASSUME NEW p \in Proc, ChildExit(p) PROVE TypeOK'
  BY <1>19 DEF ChildExit, RemoveTempfiles
<1>20. CASE UNCHANGED vars
  BY <1>20 DEF vars
<1> QED
  BY <1>1, <1>2, <1>3, <1>4, <1>5, <1>6, <1>7, <1>8, <1>9, <1>10, <1>11, <1>12, <1>13, <1>14, <1>15, <1>16, <1>17, <1>18, <1>19, <1>20
     DEF Next, Step

(* The state stays within its type, whatever the windows are. *)
THEOREM TypeCorrect == Spec => []TypeOK
<1>1. Init => TypeOK
  BY DEF Init, TypeOK, Content, Entry, Running, Stopped, Empty
<1> QED
  BY <1>1, TypeStep, PTL DEF Spec

-----------------------------------------------------------------------------
(* A step keeps the directory entry and the tempfile list in agreement:    *)
(* whoever removes the name removes its own lockfile.                      *)
LEMMA ExclusionStep ==
  ASSUME NoLateSignal, IInv, [Next]_vars
  PROVE  MutualExclusion' /\ OwnerRecorded'
<1> USE ProcAssumption, WindowAssumption
    DEF IInv, TypeOK, MutualExclusion, OwnerRecorded, Owns, Running, Stopped,
        Holding, EarlyWindows, LateWindows, Entry, NoLateSignal
<1>1. ASSUME NEW p \in Proc, OpenExclusive(p) PROVE MutualExclusion' /\ OwnerRecorded'
  BY <1>1 DEF OpenExclusive, Goto, Empty
<1>2. ASSUME NEW p \in Proc, LockFails(p) PROVE MutualExclusion' /\ OwnerRecorded'
  BY <1>2 DEF LockFails, Goto
<1>3. ASSUME NEW p \in Proc, ListAdd(p) PROVE MutualExclusion' /\ OwnerRecorded'
  BY <1>3 DEF ListAdd, Goto
<1>4. ASSUME NEW p \in Proc, SetOwner(p) PROVE MutualExclusion' /\ OwnerRecorded'
  BY <1>4 DEF SetOwner, Goto
<1>5. ASSUME NEW p \in Proc, BeginWrite(p) PROVE MutualExclusion' /\ OwnerRecorded'
  BY <1>5 DEF BeginWrite, Goto
<1>6. ASSUME NEW p \in Proc, EndWrite(p) PROVE MutualExclusion' /\ OwnerRecorded'
  BY <1>6 DEF EndWrite, Goto
<1>7. ASSUME NEW p \in Proc, CloseGently(p) PROVE MutualExclusion' /\ OwnerRecorded'
  BY <1>7 DEF CloseGently, Goto
<1>8. ASSUME NEW p \in Proc, CommitClose(p) PROVE MutualExclusion' /\ OwnerRecorded'
  BY <1>8 DEF CommitClose, Goto
<1>9. ASSUME NEW p \in Proc, Rename(p) PROVE MutualExclusion' /\ OwnerRecorded'
  BY <1>9 DEF Rename, Goto
<1>10. ASSUME NEW p \in Proc, CommitDeactivate(p) PROVE MutualExclusion' /\ OwnerRecorded'
  BY <1>10 DEF CommitDeactivate, Goto
<1>11. ASSUME NEW p \in Proc, Unlink(p) PROVE MutualExclusion' /\ OwnerRecorded'
  BY <1>11 DEF Unlink, Goto
<1>12. ASSUME NEW p \in Proc, RollbackDeactivate(p) PROVE MutualExclusion' /\ OwnerRecorded'
  BY <1>12 DEF RollbackDeactivate, Goto
<1>13. ASSUME NEW p \in Proc, Reopen(p) PROVE MutualExclusion' /\ OwnerRecorded'
  BY <1>13 DEF Reopen, Goto, Empty
<1>14. ASSUME NEW p \in Proc, Rollback(p) PROVE MutualExclusion' /\ OwnerRecorded'
  BY <1>14 DEF Rollback, Goto
<1>15. ASSUME NEW p \in Proc, Exit(p) PROVE MutualExclusion' /\ OwnerRecorded'
  BY <1>15 DEF Exit, Goto, RemoveTempfiles
<1>16. ASSUME NEW p \in Proc, Signal(p) PROVE MutualExclusion' /\ OwnerRecorded'
  BY <1>16 DEF Signal, Goto, RemoveTempfiles
<1>17. ASSUME NEW p \in Proc, Kill(p) PROVE MutualExclusion' /\ OwnerRecorded'
  BY <1>17 DEF Kill, Goto
<1>18. ASSUME NEW p \in Proc, Fork(p) PROVE MutualExclusion' /\ OwnerRecorded'
  BY <1>18 DEF Fork
<1>19. ASSUME NEW p \in Proc, ChildExit(p) PROVE MutualExclusion' /\ OwnerRecorded'
  BY <1>19 DEF ChildExit, RemoveTempfiles
<1>20. CASE UNCHANGED vars
  BY <1>20 DEF vars
<1> QED
  BY <1>1, <1>2, <1>3, <1>4, <1>5, <1>6, <1>7, <1>8, <1>9, <1>10, <1>11, <1>12, <1>13, <1>14, <1>15, <1>16, <1>17, <1>18, <1>19, <1>20
     DEF Next, Step

(* A step keeps the relation between the lockfiles' contents and the file. *)
LEMMA ContentStep ==
  ASSUME IInv, [Next]_vars
  PROVE  BufferTracksFile' /\ FileTracksCommits' /\ ReadersSeeWholeFile'
<1> USE ProcAssumption
    DEF IInv, TypeOK, MutualExclusion, Owns, BufferTracksFile, FileTracksCommits,
        ReadersSeeWholeFile, Running, Stopped, Holding, EarlyWindows, LateWindows,
        Content
<1>1. ASSUME NEW p \in Proc, OpenExclusive(p) PROVE BufferTracksFile' /\ FileTracksCommits' /\ ReadersSeeWholeFile'
  BY <1>1 DEF OpenExclusive, Goto, Empty
<1>2. ASSUME NEW p \in Proc, LockFails(p) PROVE BufferTracksFile' /\ FileTracksCommits' /\ ReadersSeeWholeFile'
  BY <1>2 DEF LockFails, Goto
<1>3. ASSUME NEW p \in Proc, ListAdd(p) PROVE BufferTracksFile' /\ FileTracksCommits' /\ ReadersSeeWholeFile'
  BY <1>3 DEF ListAdd, Goto
<1>4. ASSUME NEW p \in Proc, SetOwner(p) PROVE BufferTracksFile' /\ FileTracksCommits' /\ ReadersSeeWholeFile'
  BY <1>4 DEF SetOwner, Goto
<1>5. ASSUME NEW p \in Proc, BeginWrite(p) PROVE BufferTracksFile' /\ FileTracksCommits' /\ ReadersSeeWholeFile'
  BY <1>5 DEF BeginWrite, Goto
<1>6. ASSUME NEW p \in Proc, EndWrite(p) PROVE BufferTracksFile' /\ FileTracksCommits' /\ ReadersSeeWholeFile'
  BY <1>6 DEF EndWrite, Goto
<1>7. ASSUME NEW p \in Proc, CloseGently(p) PROVE BufferTracksFile' /\ FileTracksCommits' /\ ReadersSeeWholeFile'
  BY <1>7 DEF CloseGently, Goto
<1>8. ASSUME NEW p \in Proc, CommitClose(p) PROVE BufferTracksFile' /\ FileTracksCommits' /\ ReadersSeeWholeFile'
  BY <1>8 DEF CommitClose, Goto
<1>9. ASSUME NEW p \in Proc, Rename(p) PROVE BufferTracksFile' /\ FileTracksCommits' /\ ReadersSeeWholeFile'
  BY <1>9 DEF Rename, Goto
<1>10. ASSUME NEW p \in Proc, CommitDeactivate(p) PROVE BufferTracksFile' /\ FileTracksCommits' /\ ReadersSeeWholeFile'
  BY <1>10 DEF CommitDeactivate, Goto
<1>11. ASSUME NEW p \in Proc, Unlink(p) PROVE BufferTracksFile' /\ FileTracksCommits' /\ ReadersSeeWholeFile'
  BY <1>11 DEF Unlink, Goto
<1>12. ASSUME NEW p \in Proc, RollbackDeactivate(p) PROVE BufferTracksFile' /\ FileTracksCommits' /\ ReadersSeeWholeFile'
  BY <1>12 DEF RollbackDeactivate, Goto
<1>13. ASSUME NEW p \in Proc, Reopen(p) PROVE BufferTracksFile' /\ FileTracksCommits' /\ ReadersSeeWholeFile'
  BY <1>13 DEF Reopen, Goto, Empty
<1>14. ASSUME NEW p \in Proc, Rollback(p) PROVE BufferTracksFile' /\ FileTracksCommits' /\ ReadersSeeWholeFile'
  BY <1>14 DEF Rollback, Goto
<1>15. ASSUME NEW p \in Proc, Exit(p) PROVE BufferTracksFile' /\ FileTracksCommits' /\ ReadersSeeWholeFile'
  BY <1>15 DEF Exit, Goto, RemoveTempfiles
<1>16. ASSUME NEW p \in Proc, Signal(p) PROVE BufferTracksFile' /\ FileTracksCommits' /\ ReadersSeeWholeFile'
  BY <1>16 DEF Signal, Goto, RemoveTempfiles
<1>17. ASSUME NEW p \in Proc, Kill(p) PROVE BufferTracksFile' /\ FileTracksCommits' /\ ReadersSeeWholeFile'
  BY <1>17 DEF Kill, Goto
<1>18. ASSUME NEW p \in Proc, Fork(p) PROVE BufferTracksFile' /\ FileTracksCommits' /\ ReadersSeeWholeFile'
  BY <1>18 DEF Fork
<1>19. ASSUME NEW p \in Proc, ChildExit(p) PROVE BufferTracksFile' /\ FileTracksCommits' /\ ReadersSeeWholeFile'
  BY <1>19 DEF ChildExit, RemoveTempfiles
<1>20. CASE UNCHANGED vars
  BY <1>20 DEF vars
<1> QED
  BY <1>1, <1>2, <1>3, <1>4, <1>5, <1>6, <1>7, <1>8, <1>9, <1>10, <1>11, <1>12, <1>13, <1>14, <1>15, <1>16, <1>17, <1>18, <1>19, <1>20
     DEF Next, Step

(* The inductive invariant holds if no signal falls into the late windows. *)
LEMMA Invariance ==
  ASSUME NoLateSignal
  PROVE  Spec => []IInv
<1>1. Init => IInv
  BY ProcAssumption DEF Init, IInv, TypeOK, MutualExclusion, Owns, OwnerRecorded,
     BufferTracksFile, FileTracksCommits, ReadersSeeWholeFile, Content, Entry,
     Running, Stopped, Holding, EarlyWindows, LateWindows, Empty
<1>2. IInv /\ [Next]_vars => IInv'
  <2>1. IInv => TypeOK
    BY DEF IInv
  <2> QED
    BY <2>1, TypeStep, ExclusionStep, ContentStep DEF IInv
<1> QED
  BY <1>1, <1>2, PTL DEF Spec

(* Unless a signal falls between the removal of a lockfile's name and the  *)
(* removal of its tempfile_list entry, the lock a process believes it      *)
(* holds is the one on disk.                                               *)
THEOREM LockIsExclusive ==
  ASSUME NoLateSignal
  PROVE  Spec => []MutualExclusion
<1>1. IInv => MutualExclusion
  BY DEF IInv
<1> QED
  BY <1>1, Invariance, PTL

(* Under the same condition no committed update is lost, no failed update  *)
(* shows, and no reader sees contents that were not completely written.    *)
THEOREM UpdatesAreAtomic ==
  ASSUME NoLateSignal
  PROVE  Spec => [](NoLostUpdate /\ FailureLeavesNoTrace /\ ReadersSeeWholeFile)
<1>1. IInv => NoLostUpdate /\ FailureLeavesNoTrace /\ ReadersSeeWholeFile
  BY DEF IInv, FileTracksCommits, NoLostUpdate, FailureLeavesNoTrace, Running
<1> QED
  BY <1>1, Invariance, PTL

(* Under the same condition an update that commit_lock_file() reported     *)
(* stays in the file: whoever takes the lock later starts from it.         *)
THEOREM CommitsAreKept ==
  ASSUME NoLateSignal
  PROVE  Spec => []NoLostUpdate
<1>1. IInv => NoLostUpdate
  BY DEF IInv, FileTracksCommits, NoLostUpdate
<1> QED
  BY <1>1, Invariance, PTL

(* A step does not bring the lockfile of an ended process back. *)
LEMMA CleanupStep ==
  ASSUME TypeOK, CleanupOnExit, [Next]_vars
  PROVE  CleanupOnExit'
<1> USE ProcAssumption
    DEF TypeOK, CleanupOnExit, Running, Stopped, Holding, EarlyWindows, LateWindows
<1>1. CASE UNCHANGED <<lock, tempfile>> /\ \A q \in Proc : pc'[q] = "exited" => pc[q] = "exited"
  BY <1>1
<1>2. ASSUME NEW p \in Proc, OpenExclusive(p) PROVE CleanupOnExit'
  BY <1>2 DEF OpenExclusive, Goto
<1>3. ASSUME NEW p \in Proc, ListAdd(p) PROVE CleanupOnExit'
  BY <1>3 DEF ListAdd, Goto
<1>4. ASSUME NEW p \in Proc, SetOwner(p) PROVE CleanupOnExit'
  BY <1>4 DEF SetOwner, Goto
<1>5. ASSUME NEW p \in Proc, Rename(p) PROVE CleanupOnExit'
  BY <1>5 DEF Rename, Goto
<1>6. ASSUME NEW p \in Proc, CommitDeactivate(p) \/ RollbackDeactivate(p) PROVE CleanupOnExit'
  BY <1>6 DEF CommitDeactivate, RollbackDeactivate, Goto
<1>7. ASSUME NEW p \in Proc, Unlink(p) PROVE CleanupOnExit'
  BY <1>7 DEF Unlink, Goto
<1>8. ASSUME NEW p \in Proc, Exit(p) PROVE CleanupOnExit'
  BY <1>8 DEF Exit, Goto, RemoveTempfiles
<1>9. ASSUME NEW p \in Proc, Signal(p) PROVE CleanupOnExit'
  BY <1>9 DEF Signal, Goto, RemoveTempfiles
<1>10. ASSUME NEW p \in Proc, ChildExit(p) PROVE CleanupOnExit'
  BY <1>10 DEF ChildExit, RemoveTempfiles
<1>11. ASSUME NEW p \in Proc,
              \/ LockFails(p) \/ BeginWrite(p) \/ EndWrite(p) \/ CloseGently(p) \/ CommitClose(p)
              \/ Reopen(p) \/ Rollback(p) \/ Kill(p) \/ Fork(p)
       PROVE  UNCHANGED <<lock, tempfile>> /\ \A q \in Proc : pc'[q] = "exited" => pc[q] = "exited"
  BY <1>11 DEF LockFails, BeginWrite, EndWrite, CloseGently, CommitClose, Reopen, Rollback, Kill, Fork, Goto
<1>12. CASE UNCHANGED vars
  BY <1>12 DEF vars
<1> QED
  BY <1>1, <1>2, <1>3, <1>4, <1>5, <1>6, <1>7, <1>8, <1>9, <1>10, <1>11, <1>12 DEF Next, Step

(* A process that ends by exit(), die() or a signal once its lockfile is   *)
(* recorded as its own leaves none behind, wherever signals arrive: the    *)
(* tempfile list is the only record that remove_tempfiles() needs.         *)
THEOREM ExitRemovesLock == Spec => []CleanupOnExit
<1>1. Init => TypeOK /\ CleanupOnExit
  BY DEF Init, TypeOK, CleanupOnExit, Content, Entry, Running, Stopped, Holding, EarlyWindows, LateWindows, Empty
<1>2. TypeOK /\ CleanupOnExit /\ [Next]_vars => TypeOK' /\ CleanupOnExit'
  BY TypeStep, CleanupStep
<1> QED
  BY <1>1, <1>2, PTL DEF Spec

(* Under the same condition the processes together implement the atomic    *)
(* update of one file.                                                     *)
THEOREM Implementation ==
  ASSUME NoLateSignal
  PROVE  Spec => RefinesAtomicUpdate
<1>1. Init => Abstract!Init
  BY DEF Init, Abstract!Init, Empty
<1>2. IInv /\ [Next]_vars => [Abstract!Next]_(file.upds)
  <2> SUFFICES ASSUME IInv, [Next]_vars, file'.upds # file.upds
               PROVE  Abstract!Next
    OBVIOUS
  <2>1. PICK p \in Proc : Rename(p) /\ file' = buf[lock]
    BY DEF Next, vars, Step, OpenExclusive, LockFails, ListAdd, SetOwner,
       BeginWrite, EndWrite, CloseGently, CommitClose, Rename, CommitDeactivate,
       Unlink, RollbackDeactivate, Reopen, Rollback, Exit, Signal, Kill, Fork,
       ChildExit
  <2>2. pc[p] = "renaming" /\ lock = p
    BY <2>1 DEF Rename, Goto, IInv, MutualExclusion, Owns
  <2>3. file'.upds = file.upds \cup {p}
    BY <2>1, <2>2 DEF IInv, BufferTracksFile
  <2> QED
    BY <2>3 DEF Abstract!Next, Abstract!Replace
<1> QED
  BY <1>1, <1>2, Invariance, PTL DEF Spec, RefinesAtomicUpdate, Abstract!Spec
=============================================================================
