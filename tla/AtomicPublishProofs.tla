------------------------ MODULE AtomicPublishProofs ------------------------
(***************************************************************************)
(* Proofs about AtomicPublish, for any number of publishers, readers,      *)
(* pids, temporary names and writes per output.                            *)
(***************************************************************************)
EXTENDS AtomicPublish, TLAPS

\* An inode that is whole, and on disk.
Safe(i) == i \in Inode /\ synced[i] = Chunks /\ written[i] = Chunks

\* What is on disk is a prefix of what was written.
DiskInv == \A i \in Inode : synced[i] <= written[i]

\* A publisher about to rename has a whole file on disk.
ReadyInv ==
    \A p \in Publisher :
        \/ pc[p] = "rename"
        \/ pc[p] = "close" /\ ok[p]
        => synced[p] = Chunks

\* What the destination names, now or after a power failure, is whole, and
\* is something it was seen to hold.
DestInv ==
    /\ dest # None => Safe(dest)
    /\ diskDest # None => Safe(diskDest)
    /\ dest \in shown /\ diskDest \in shown

\* A reader has a whole file open and sees all of it.
ReadInv ==
    \A r \in Reader :
        /\ rpc[r] \in {"size", "read"} => Safe(handle[r])
        /\ rpc[r] \in {"read", "done"} => size[r] = Chunks

\* The inductive invariant.
IInv ==
    /\ TypeOK /\ NamesOwned
    /\ DiskInv /\ ReadyInv /\ DestInv /\ ReadInv

-----------------------------------------------------------------------------

\* The initial states satisfy the invariant.
LEMMA InitInv == ASSUME Init PROVE IInv
  <1>1. TypeOK
    BY PublishAssumption DEF Init, TypeOK, PC, Inode
  <1>2. NamesOwned /\ ReadyInv
    BY DEF Init, NamesOwned, ReadyInv
  <1>3. DiskInv
    BY <1>1 DEF Init, DiskInv, TypeOK
  <1>4. DestInv /\ ReadInv
    BY PublishAssumption DEF Init, DestInv, ReadInv, Safe, Inode
  <1>. QED  BY <1>1, <1>2, <1>3, <1>4 DEF IInv

\* Entering the call disturbs nothing.
LEMMA BeginStep == ASSUME IInv, NEW p \in Publisher, Begin(p) PROVE IInv'
  <1>. USE PublishAssumption
       DEF IInv, Begin, TypeOK, GoTo, Finish, localVars, disk, readVars
  <1>1. TypeOK'
    BY DEF PC
  <1>2. NamesOwned' /\ DiskInv' /\ ReadyInv'
    BY DEF NamesOwned, Name, DiskInv, ReadyInv
  <1>3. DestInv' /\ ReadInv'
    BY DEF DestInv, ReadInv, Safe, Inode
  <1>. QED  BY <1>1, <1>2, <1>3

\* A publisher that gives up stops owning a name.
LEMMA OpenFaultStep == ASSUME IInv, NEW p \in Publisher, OpenFault(p) PROVE IInv'
  <1>. USE PublishAssumption
       DEF IInv, OpenFault, TypeOK, GoTo, Finish, localVars, disk, readVars
  <1>1. TypeOK'
    BY DEF PC
  <1>2. NamesOwned' /\ DiskInv' /\ ReadyInv'
    BY DEF NamesOwned, Name, DiskInv, ReadyInv
  <1>3. DestInv' /\ ReadInv'
    BY DEF DestInv, ReadInv, Safe, Inode
  <1>. QED  BY <1>1, <1>2, <1>3

\* Only a publisher nothing failed for goes on to rename.
LEMMA CloseStep == ASSUME IInv, NEW p \in Publisher, Close(p) PROVE IInv'
  <1>. USE PublishAssumption
       DEF IInv, Close, TypeOK, GoTo, Finish, localVars, disk, readVars
  <1>1. TypeOK'
    BY DEF PC
  <1>2. NamesOwned' /\ DiskInv' /\ ReadyInv'
    BY DEF NamesOwned, Name, DiskInv, ReadyInv
  <1>3. DestInv' /\ ReadInv'
    BY DEF DestInv, ReadInv, Safe, Inode
  <1>. QED  BY <1>1, <1>2, <1>3

\* A failed close leads to the clean-up.
LEMMA CloseFaultStep == ASSUME IInv, NEW p \in Publisher, CloseFault(p) PROVE IInv'
  <1>. USE PublishAssumption
       DEF IInv, CloseFault, TypeOK, GoTo, Finish, localVars, disk, readVars
  <1>1. TypeOK'
    BY DEF PC
  <1>2. NamesOwned' /\ DiskInv' /\ ReadyInv'
    BY DEF NamesOwned, Name, DiskInv, ReadyInv
  <1>3. DestInv' /\ ReadInv'
    BY DEF DestInv, ReadInv, Safe, Inode
  <1>. QED  BY <1>1, <1>2, <1>3

\* So does a failed rename.
LEMMA RenameFaultStep == ASSUME IInv, NEW p \in Publisher, RenameFault(p)
  PROVE  IInv'
  <1>. USE PublishAssumption
       DEF IInv, RenameFault, TypeOK, GoTo, Finish, localVars, disk, readVars
  <1>1. TypeOK'
    BY DEF PC
  <1>2. NamesOwned' /\ DiskInv' /\ ReadyInv'
    BY DEF NamesOwned, Name, DiskInv, ReadyInv
  <1>3. DestInv' /\ ReadInv'
    BY DEF DestInv, ReadInv, Safe, Inode
  <1>. QED  BY <1>1, <1>2, <1>3

\* Returning disturbs nothing.
LEMMA ReturnStep == ASSUME IInv, NEW p \in Publisher, Return(p) PROVE IInv'
  <1>. USE PublishAssumption
       DEF IInv, Return, TypeOK, GoTo, Finish, localVars, disk, readVars
  <1>1. TypeOK'
    BY DEF PC
  <1>2. NamesOwned' /\ DiskInv' /\ ReadyInv'
    BY DEF NamesOwned, Name, DiskInv, ReadyInv
  <1>3. DestInv' /\ ReadInv'
    BY DEF DestInv, ReadInv, Safe, Inode
  <1>. QED  BY <1>1, <1>2, <1>3

\* A dead publisher owns nothing any more.
LEMMA KillStep == ASSUME IInv, NEW p \in Publisher, Kill(p) PROVE IInv'
  <1>. USE PublishAssumption
       DEF IInv, Kill, TypeOK, GoTo, Finish, localVars, disk, readVars
  <1>1. TypeOK'
    BY DEF PC, Running
  <1>2. NamesOwned' /\ DiskInv' /\ ReadyInv'
    BY DEF NamesOwned, Name, DiskInv, ReadyInv, Running
  <1>3. DestInv' /\ ReadInv'
    BY DEF DestInv, ReadInv, Safe, Inode
  <1>. QED  BY <1>1, <1>2, <1>3

\* The created name was free, so no other publisher works on it.
LEMMA CreateStep == ASSUME IInv, NEW p \in Publisher, Create(p) PROVE IInv'
  <1>. USE PublishAssumption
       DEF IInv, Create, TypeOK, GoTo, localVars, disk, readVars
  <1>1. TypeOK'
    BY DEF PC, Temp, Name, Inode
  <1>2. NamesOwned'
    BY DEF NamesOwned, Name, Temp
  <1>3. DiskInv' /\ ReadyInv'
    BY DEF DiskInv, ReadyInv
  <1>4. DestInv' /\ ReadInv'
    BY DEF DestInv, ReadInv, Safe, Inode
  <1>. QED  BY <1>1, <1>2, <1>3, <1>4

\* A publisher looking for a name owns none.
LEMMA NameTakenStep == ASSUME IInv, NEW p \in Publisher, NameTaken(p) PROVE IInv'
  <1>. USE PublishAssumption
       DEF IInv, NameTaken, TypeOK, GoTo, Finish, disk, readVars
  <1>1. TypeOK'
    BY DEF PC
  <1>2. NamesOwned'
    BY DEF NamesOwned, Name
  <1>3. DiskInv' /\ ReadyInv'
    BY DEF DiskInv, ReadyInv
  <1>4. DestInv' /\ ReadInv'
    BY DEF DestInv, ReadInv, Safe, Inode
  <1>. QED  BY <1>1, <1>2, <1>3, <1>4

\* A file being written is not whole, so nothing whole is touched.
LEMMA WriteStep == ASSUME IInv, NEW p \in Publisher, Write(p) PROVE IInv'
  <1>. USE PublishAssumption
       DEF IInv, Write, TypeOK, localVars, disk, readVars
  <1>1. TypeOK'
    BY DEF Inode
  <1>2. NamesOwned'
    BY DEF NamesOwned, Name
  <1>3. DiskInv'
    BY DEF DiskInv, Inode
  <1>4. ReadyInv'
    BY DEF ReadyInv
  <1>5. DestInv' /\ ReadInv'
    BY DEF DestInv, ReadInv, Safe, Inode
  <1>. QED  BY <1>1, <1>2, <1>3, <1>4, <1>5

\* fsync puts all that was written on disk before close and rename.
LEMMA FsyncStep == ASSUME IInv, NEW p \in Publisher, Fsync(p) PROVE IInv'
  <1>. USE PublishAssumption
       DEF IInv, Fsync, TypeOK, GoTo, localVars, disk, readVars
  <1>1. TypeOK'
    BY DEF PC, Inode
  <1>2. NamesOwned'
    BY DEF NamesOwned, Name
  <1>3. DiskInv'
    BY DEF DiskInv
  <1>4. ReadyInv'
    BY DEF ReadyInv, Inode
  <1>5. DestInv' /\ ReadInv'
    BY DEF DestInv, ReadInv, Safe, Inode
  <1>. QED  BY <1>1, <1>2, <1>3, <1>4, <1>5

\* A failed write is remembered in ok.
LEMMA WriteFaultStep == ASSUME IInv, NEW p \in Publisher, WriteFault(p) PROVE IInv'
  <1>. USE PublishAssumption
       DEF IInv, WriteFault, TypeOK, GoTo, disk, readVars
  <1>1. TypeOK'
    BY DEF PC
  <1>2. NamesOwned' /\ DiskInv'
    BY DEF NamesOwned, Name, DiskInv
  <1>3. ReadyInv'
    BY DEF ReadyInv
  <1>4. DestInv' /\ ReadInv'
    BY DEF DestInv, ReadInv, Safe, Inode
  <1>. QED  BY <1>1, <1>2, <1>3, <1>4

\* The name unlinked is the publisher's own.
LEMMA UnlinkStep == ASSUME IInv, NEW p \in Publisher, Unlink(p) PROVE IInv'
  <1>. USE PublishAssumption
       DEF IInv, Unlink, TypeOK, GoTo, Finish, localVars, disk, readVars
  <1>1. TypeOK'
    BY DEF PC, Temp, Name
  <1>2. NamesOwned'
    BY DEF NamesOwned, Name, Temp
  <1>3. DiskInv' /\ ReadyInv'
    BY DEF DiskInv, ReadyInv
  <1>4. DestInv' /\ ReadInv'
    BY DEF DestInv, ReadInv, Safe, Inode
  <1>. QED  BY <1>1, <1>2, <1>3, <1>4

\* What the destination comes to name is the publisher's own whole file.
LEMMA RenameStep == ASSUME IInv, NEW p \in Publisher, Rename(p) PROVE IInv'
  <1>. USE PublishAssumption
       DEF IInv, Rename, TypeOK, GoTo, localVars, disk, readVars
  <1>1. temp[Name(p)] = p /\ Safe(p)
    BY DEF NamesOwned, ReadyInv, DiskInv, Safe, Inode
  <1>2. TypeOK'
    BY <1>1 DEF PC, Temp, Name, Inode, Safe
  <1>3. NamesOwned'
    BY <1>1 DEF NamesOwned, Name, Temp
  <1>4. DiskInv' /\ ReadyInv'
    BY DEF DiskInv, ReadyInv
  <1>5. DestInv'
    BY <1>1 DEF DestInv, Safe
  <1>6. ReadInv'
    BY DEF ReadInv, Safe
  <1>. QED  BY <1>1, <1>2, <1>3, <1>4, <1>5, <1>6

\* A reader opens what the destination names.
LEMMA OpenStep == ASSUME IInv, NEW r \in Reader, Open(r) PROVE IInv'
  <1>. USE PublishAssumption
       DEF IInv, Open, TypeOK, publishVars
  <1>1. TypeOK'
    BY DEF DestInv, Safe
  <1>2. NamesOwned' /\ DiskInv' /\ ReadyInv'
    BY DEF NamesOwned, Name, DiskInv, ReadyInv
  <1>3. DestInv'
    BY DEF DestInv, Safe
  <1>4. ReadInv'
    BY DEF ReadInv, DestInv, Safe
  <1>. QED  BY <1>1, <1>2, <1>3, <1>4

\* The file a reader has open stays whole, also when it is replaced.
LEMMA MeasureStep == ASSUME IInv, NEW r \in Reader, Measure(r) PROVE IInv'
  <1>. USE PublishAssumption
       DEF IInv, Measure, TypeOK, publishVars
  <1>1. TypeOK'
    BY DEF ReadInv, Safe
  <1>2. NamesOwned' /\ DiskInv' /\ ReadyInv'
    BY DEF NamesOwned, Name, DiskInv, ReadyInv
  <1>3. DestInv'
    BY DEF DestInv, Safe
  <1>4. ReadInv'
    BY DEF ReadInv, Safe
  <1>. QED  BY <1>1, <1>2, <1>3, <1>4

\* A reader reads as much as it measured.
LEMMA ReadStep == ASSUME IInv, NEW r \in Reader, Read(r) PROVE IInv'
  <1>. USE PublishAssumption
       DEF IInv, Read, TypeOK, publishVars
  <1>1. TypeOK'
    OBVIOUS
  <1>2. NamesOwned' /\ DiskInv' /\ ReadyInv'
    BY DEF NamesOwned, Name, DiskInv, ReadyInv
  <1>3. DestInv'
    BY DEF DestInv, Safe
  <1>4. ReadInv'
    BY DEF ReadInv, Safe
  <1>. QED  BY <1>1, <1>2, <1>3, <1>4

\* A reader that fails has read nothing.
LEMMA ReadFaultStep == ASSUME IInv, NEW r \in Reader, ReadFault(r) PROVE IInv'
  <1>. USE PublishAssumption
       DEF IInv, ReadFault, TypeOK, publishVars
  <1>1. TypeOK'
    OBVIOUS
  <1>2. NamesOwned' /\ DiskInv' /\ ReadyInv'
    BY DEF NamesOwned, Name, DiskInv, ReadyInv
  <1>3. DestInv'
    BY DEF DestInv, Safe
  <1>4. ReadInv'
    BY DEF ReadInv, Safe
  <1>. QED  BY <1>1, <1>2, <1>3, <1>4

\* The directory put on disk names whole files.
LEMMA CommitStep == ASSUME IInv, Commit PROVE IInv'
  <1>. USE PublishAssumption
       DEF IInv, Commit, TypeOK, localVars, readVars
  <1>1. TypeOK'
    OBVIOUS
  <1>2. NamesOwned' /\ DiskInv' /\ ReadyInv'
    BY DEF NamesOwned, Name, DiskInv, ReadyInv
  <1>3. DestInv' /\ ReadInv'
    BY DEF DestInv, ReadInv, Safe, Inode
  <1>. QED  BY <1>1, <1>2, <1>3

\* Power loss: the directory goes back to one that named whole files, and
\* those are on disk.
LEMMA PowerLossStep == ASSUME IInv, PowerLoss PROVE IInv'
  <1>. USE PublishAssumption
       DEF IInv, PowerLoss, TypeOK, localVars, disk
  <1>1. PICK left \in [Inode -> 0..Chunks] :
         /\ \A i \in Inode : synced[i] <= left[i] /\ left[i] <= written[i]
         /\ written' = left /\ synced' = left
    OBVIOUS
  <1>2. TypeOK'
    BY <1>1 DEF PC, Running
  <1>3. NamesOwned' /\ ReadyInv'
    BY DEF NamesOwned, ReadyInv, Running, PC
  <1>4. DiskInv'
    BY <1>1 DEF DiskInv
  <1>5. \A i : Safe(i) => Safe(i)'
    BY <1>1 DEF Safe, Inode
  <1>6. DestInv'
    BY <1>5 DEF DestInv
  <1>7. ReadInv'
    BY <1>5 DEF ReadInv
  <1>. QED  BY <1>1, <1>2, <1>3, <1>4, <1>5, <1>6, <1>7

-----------------------------------------------------------------------------

\* Every step preserves the invariant.
LEMMA IInvStep == ASSUME IInv, [Next]_vars PROVE IInv'
  <1>1. ASSUME NEW p \in Publisher, Publish(p) \/ Kill(p) PROVE IInv'
    BY <1>1, BeginStep, CreateStep, NameTakenStep, OpenFaultStep, WriteStep,
       FsyncStep, WriteFaultStep, CloseStep, CloseFaultStep, UnlinkStep,
       RenameStep, RenameFaultStep, ReturnStep, KillStep DEF Publish
  <1>2. ASSUME NEW r \in Reader, Open(r) \/ Measure(r) \/ Read(r) \/ ReadFault(r)
        PROVE  IInv'
    BY <1>2, OpenStep, MeasureStep, ReadStep, ReadFaultStep
  <1>3. CASE Commit \/ PowerLoss
    BY <1>3, CommitStep, PowerLossStep
  <1>4. CASE UNCHANGED vars
    BY <1>4 DEF vars, IInv, TypeOK, NamesOwned, Name, DiskInv, ReadyInv,
                DestInv, ReadInv, Safe
  <1>. QED  BY <1>1, <1>2, <1>3, <1>4 DEF Next

\* The invariant holds in every reachable state.
THEOREM Invariance == Spec => []IInv
  <1>. QED  BY InitInv, IInvStep, PTL DEF Spec

\* Every reachable state is well typed; in particular no publisher tries more
\* than MaxTemp temporary names.
THEOREM TypeCorrect == Spec => []TypeOK
  <1>1. IInv => TypeOK
    BY DEF IInv
  <1>. QED  BY Invariance, <1>1, PTL

\* Publishers with the same pid never work on the same temporary file.
THEOREM NamesNeverShared == Spec => []NamesOwned
  <1>1. IInv => NamesOwned
    BY DEF IInv
  <1>. QED  BY Invariance, <1>1, PTL

\* A reader of the destination gets a whole output or an error.
THEOREM WholeReads == Spec => []ReadsWhole
  <1>1. IInv => ReadsWhole
    BY DEF IInv, ReadInv, ReadsWhole
  <1>. QED  BY Invariance, <1>1, PTL

-----------------------------------------------------------------------------
(* What is left behind *)

\* A temporary name leads to a publisher's file only while the publisher owns
\* it, or once it has given up on it; on disk perhaps longer.
TempInv ==
    \A p \in Publisher, n \in Temp :
        /\ temp[n] = p => n = Name(p) /\ pc[p] \notin {"idle", "open", "renamed"}
        /\ diskTemp[n] = p => n = Name(p) /\ pc[p] \notin {"idle", "open"}

\* The name a publisher is at work under is a temporary name.
LEMMA OwnName ==
  ASSUME IInv, NEW p \in Publisher, pc[p] # "done"
  PROVE  Name(p) \in Temp
  <1>1. pid[p] \in Pid /\ attempt[p] \in 0..MaxTemp /\ attempt[p] < MaxTemp
    BY DEF IInv, TypeOK
  <1>2. attempt[p] \in 0..(MaxTemp - 1)
    BY <1>1, PublishAssumption
  <1>. QED  BY <1>1, <1>2 DEF Name, Temp

\* Initially all temporary files are of earlier builds.
LEMMA TempInit == ASSUME Init PROVE TempInv
  BY PublishAssumption DEF Init, TempInv

\* A publisher's names change only where it creates, unlinks or renames.
LEMMA TempPublish ==
  ASSUME IInv, TempInv, NEW p \in Publisher, Publish(p) \/ Kill(p)
  PROVE  TempInv'
  <1>. USE PublishAssumption DEF IInv, TypeOK, GoTo, Finish, localVars, disk
  <1>1. CASE Begin(p) \/ OpenFault(p) \/ Write(p) \/ Fsync(p) \/ WriteFault(p)
             \/ Close(p) \/ CloseFault(p) \/ RenameFault(p)
    BY <1>1 DEF Begin, OpenFault, Write, Fsync, WriteFault, Close, CloseFault,
                RenameFault, TempInv, Name
  <1>2. CASE Return(p) \/ Kill(p)
    BY <1>2 DEF Return, Kill, TempInv, Name, Running
  <1>3. CASE Create(p)
    BY <1>3 DEF Create, TempInv, Name, Temp
  <1>4. CASE NameTaken(p)
    BY <1>4 DEF NameTaken, TempInv, Name
  <1>5. CASE Unlink(p) \/ Rename(p)
    <2>0. Name(p) \in Temp
      BY <1>5, OwnName DEF Unlink, Rename
    <2>1. CASE Unlink(p)
      <3>1. /\ pc' = [pc EXCEPT ![p] = "done"] /\ diskTemp' = diskTemp
            /\ \A q \in Publisher : Name(q)' = Name(q)
        BY <2>1 DEF Unlink, Name
      <3>2. \A n \in Temp, q \in Publisher : temp'[n] = q => temp[n] = q
        BY <2>0, <2>1 DEF Unlink
      <3>. QED  BY <3>1, <3>2 DEF TempInv
    <2>2. CASE Rename(p)
      BY <2>0, <2>2 DEF Rename, TempInv, Name
    <2>. QED  BY <1>5, <2>1, <2>2
  <1>. QED  BY <1>1, <1>2, <1>3, <1>4, <1>5 DEF Publish

\* A power failure kills every publisher that owns a name.
LEMMA TempStep == ASSUME IInv, TempInv, [Next]_vars PROVE TempInv'
  <1>1. CASE Commit
    BY <1>1 DEF Commit, TempInv, Name, localVars
  <1>2. CASE PowerLoss
    BY <1>2 DEF PowerLoss, TempInv, Name, localVars, disk, Running
  <1>3. CASE \/ \E r \in Reader : Open(r) \/ Measure(r) \/ Read(r) \/ ReadFault(r)
             \/ UNCHANGED vars
    BY <1>3 DEF Open, Measure, Read, ReadFault, publishVars, vars, TempInv, Name
  <1>. QED  BY <1>1, <1>2, <1>3, TempPublish DEF Next

\* A publisher that returns without saying that the clean-up failed leaves no
\* temporary file, on every path through qn_write_binary_file_atomic.
THEOREM NothingLeft == Spec => NoLitter
  <1>. DEFINE Clean ==
         \A p \in Publisher :
           pc[p] # "done" /\ pc'[p] = "done" /\ outcome'[p] # "littered" =>
             \A n \in Temp : temp'[n] # p
  <1>1. Spec => []TempInv
    BY Invariance, TempInit, TempStep, PTL DEF Spec
  <1>2. ASSUME IInv, TempInv, Next PROVE Clean
    <2>. SUFFICES ASSUME NEW p \in Publisher, pc[p] # "done", pc'[p] = "done",
                         outcome'[p] # "littered", NEW n \in Temp
                  PROVE  temp'[n] # p
      OBVIOUS
    <2>. USE PublishAssumption DEF IInv, TypeOK, GoTo, Finish
    <2>1. NameTaken(p) \/ OpenFault(p) \/ Unlink(p) \/ Return(p)
      BY <1>2 DEF Next, Publish, Begin, Create, NameTaken, OpenFault, Write, Fsync,
                  WriteFault, Close, CloseFault, Unlink, Rename, RenameFault, Return,
                  Kill, Open, Measure, Read, ReadFault, publishVars, Commit, PowerLoss
    <2>2. CASE NameTaken(p) \/ OpenFault(p) \/ Return(p)
      BY <1>2, <2>2 DEF NameTaken, OpenFault, Return, TempInv
    <2>3. CASE Unlink(p)
      <3>1. Name(p) \in Temp
        BY <1>2, <2>3, OwnName DEF Unlink
      <3>2. temp' = [temp EXCEPT ![Name(p)] = None]
        BY <1>2, <2>3 DEF Unlink
      <3>3. temp[n] = p => n = Name(p)
        BY <1>2 DEF TempInv
      <3>. QED  BY <1>2, <3>1, <3>2, <3>3
    <2>. QED  BY <2>1, <2>2, <2>3
  <1>3. IInv /\ TempInv /\ [Next]_vars => [Clean]_vars
    BY <1>2
  <1>. QED  BY <1>1, <1>3, Invariance, PTL DEF Spec, NoLitter

-----------------------------------------------------------------------------
(* The refinement *)

\* The destination is never torn.
LEMMA ValueWhole == ASSUME IInv PROVE Value(dest) = dest
  BY DEF IInv, DestInv, Safe, Value

\* Nor is it after a step.
LEMMA ValueWholePrime == ASSUME IInv' PROVE Value(dest)' = dest'
  BY DEF IInv, DestInv, Safe, Value

\* The initial states map to initial states of AtomicFile.
LEMMA AbstractInit == ASSUME Init PROVE Abstract!Init
  <1>1. Value(dest) = dest
    BY InitInv, ValueWhole
  <1>2. \A p \in Publisher : Phase(p) = "calling"
    BY DEF Init, Phase
  <1>. QED  BY <1>1, <1>2 DEF Init, Abstract!Init

\* Steps that neither a caller nor the destination shows.
LEMMA SilentStep ==
  ASSUME IInv, IInv', dest' = dest, shown' = shown,
         \A p \in Publisher : Phase(p)' = Phase(p)
  PROVE  UNCHANGED Abstract!vars
  <1>1. Value(dest)' = Value(dest)
    BY ValueWhole, ValueWholePrime
  <1>. QED  BY <1>1 DEF Abstract!vars

\* Work on the temporary file is silent.
LEMMA SilentPublish ==
  ASSUME IInv, IInv', NEW p \in Publisher,
         \/ Begin(p) \/ Create(p) \/ Write(p) \/ Fsync(p) \/ WriteFault(p)
         \/ Close(p) \/ CloseFault(p) \/ RenameFault(p)
  PROVE  UNCHANGED Abstract!vars
  <1>1. dest' = dest /\ shown' = shown /\ outcome' = outcome
    BY DEF Begin, Create, Write, Fsync, WriteFault, Close, CloseFault, RenameFault
  <1>2. \E l \in {"open", "write", "close", "unlink", "rename"} :
          pc' = [pc EXCEPT ![p] = l]
    BY DEF IInv, TypeOK, Begin, Create, Write, Fsync, WriteFault, Close, CloseFault,
           RenameFault, GoTo
  <1>3. pc[p] \in {"idle", "open", "write", "close", "rename"}
    BY DEF Begin, Create, Write, Fsync, WriteFault, Close, CloseFault, RenameFault
  <1>4. \A q \in Publisher : Phase(q)' = Phase(q)
    BY <1>1, <1>2, <1>3 DEF IInv, TypeOK, Phase
  <1>. QED  BY <1>1, <1>4, SilentStep

\* A call that fails leaves the destination alone.
LEMMA FailedStep ==
  ASSUME IInv, IInv', NEW p \in Publisher,
         NameTaken(p) \/ OpenFault(p) \/ Unlink(p)
  PROVE  Abstract!Fail(p) \/ UNCHANGED Abstract!vars
  <1>1. dest' = dest /\ shown' = shown
    BY DEF NameTaken, OpenFault, Unlink
  <1>2. Value(dest)' = Value(dest)
    BY <1>1, ValueWhole, ValueWholePrime
  <1>3. CASE pc' = pc /\ outcome' = outcome
    BY <1>1, <1>3, SilentStep DEF Phase
  <1>4. CASE \E result \in {"failed", "littered"} : Finish(p, result)
    <2>1. pc[p] \in {"open", "unlink"}
      BY DEF NameTaken, OpenFault, Unlink
    <2>2. Phase(p) = "calling" /\ Phase(p)' = "failed"
      BY <1>4, <2>1 DEF IInv, TypeOK, Phase, Finish, GoTo
    <2>3. \A q \in Publisher \ {p} : Phase(q)' = Phase(q)
      BY <1>4 DEF IInv, TypeOK, Phase, Finish, GoTo
    <2>. QED  BY <1>1, <1>2, <2>2, <2>3 DEF Abstract!Fail
  <1>. QED  BY <1>3, <1>4 DEF NameTaken, OpenFault, Unlink

\* The rename publishes the whole output.
LEMMA PublishedStep ==
  ASSUME IInv, IInv', NEW p \in Publisher, Rename(p)
  PROVE  Abstract!Publish(p)
  <1>1. dest' = p /\ shown' = shown \cup {p}
    BY DEF IInv, NamesOwned, Rename
  <1>2. Value(dest)' = p
    BY <1>1, ValueWholePrime
  <1>3. Phase(p) = "calling" /\ Phase(p)' = "published"
    BY DEF IInv, TypeOK, Rename, GoTo, Phase
  <1>4. \A q \in Publisher \ {p} : Phase(q)' = Phase(q)
    BY DEF IInv, TypeOK, Rename, GoTo, Phase
  <1>. QED  BY <1>1, <1>2, <1>3, <1>4 DEF Abstract!Publish

\* Success is reported only after the rename.
LEMMA ReturnedStep ==
  ASSUME IInv, IInv', NEW p \in Publisher, Return(p)
  PROVE  Abstract!Succeed(p)
  <1>1. dest' = dest /\ shown' = shown
    BY DEF Return
  <1>2. Value(dest)' = Value(dest)
    BY <1>1, ValueWhole, ValueWholePrime
  <1>3. Phase(p) = "published" /\ Phase(p)' = "ok"
    BY DEF IInv, TypeOK, Return, Finish, GoTo, Phase
  <1>4. \A q \in Publisher \ {p} : Phase(q)' = Phase(q)
    BY DEF IInv, TypeOK, Return, Finish, GoTo, Phase
  <1>. QED  BY <1>1, <1>2, <1>3, <1>4 DEF Abstract!Succeed

\* A kill and a power failure end the calls of some publishers.
LEMMA DeadStep ==
  ASSUME IInv, IInv', NEW S \in SUBSET Publisher,
         \A p \in S : Running(p),
         pc' = [p \in Publisher |-> IF p \in S THEN "dead" ELSE pc[p]],
         outcome' = outcome, shown' = shown, dest' \in shown
  PROVE  Abstract!Die(S)
  <1>1. Value(dest)' \in shown
    BY ValueWholePrime
  <1>2. \A p \in S : Phase(p) \in {"calling", "published"}
    BY DEF Running, Phase
  <1>3. \A p \in Publisher : Phase(p)' = IF p \in S THEN "dead" ELSE Phase(p)
    BY DEF Phase
  <1>. QED  BY <1>1, <1>2, <1>3 DEF Abstract!Die

\* Every step maps to a step of AtomicFile or a stutter.
LEMMA AbstractStep ==
  ASSUME IInv, IInv', [Next]_vars
  PROVE  Abstract!Next \/ UNCHANGED Abstract!vars
  <1>1. ASSUME NEW p \in Publisher, Publish(p)
        PROVE  Abstract!Next \/ UNCHANGED Abstract!vars
    BY <1>1, SilentPublish, FailedStep, PublishedStep, ReturnedStep
       DEF Publish, Abstract!Next
  <1>2. ASSUME NEW p \in Publisher, Kill(p)
        PROVE  Abstract!Next
    <2>1. Abstract!Die({p})
      <3>1. pc' = [q \in Publisher |-> IF q \in {p} THEN "dead" ELSE pc[q]]
        BY <1>2 DEF Kill, GoTo, IInv, TypeOK
      <3>2. dest' \in shown
        BY <1>2 DEF Kill, IInv, DestInv
      <3>. QED  BY <1>2, <3>1, <3>2, DeadStep DEF Kill
    <2>. QED  BY <2>1 DEF Abstract!Next
  <1>3. CASE PowerLoss
    <2>. DEFINE S == {p \in Publisher : Running(p)}
    <2>1. Abstract!Die(S)
      <3>1. dest' \in shown
        BY <1>3 DEF PowerLoss, IInv, DestInv
      <3>. QED  BY <1>3, <3>1, DeadStep DEF PowerLoss
    <2>. QED  BY <2>1 DEF Abstract!Next
  <1>4. CASE \/ \E r \in Reader : Open(r) \/ Measure(r) \/ Read(r) \/ ReadFault(r)
             \/ Commit \/ UNCHANGED vars
    <2>1. UNCHANGED <<dest, shown, pc, outcome>>
      BY <1>4 DEF Open, Measure, Read, ReadFault, Commit, publishVars, vars
    <2>. QED  BY <2>1, SilentStep DEF Phase
  <1>. QED  BY <1>1, <1>2, <1>3, <1>4 DEF Next

\* qn_write_binary_file_atomic implements AtomicFile: the destination changes
\* in one step, from one whole output to another, on behalf of a publisher
\* that then reports success or dies.
THEOREM PublishRefinement == Spec => ImplementsAtomicFile
  <1>1. Init => Abstract!Init
    BY AbstractInit
  <1>2. IInv /\ IInv' /\ [Next]_vars => [Abstract!Next]_(Abstract!vars)
    BY AbstractStep
  <1>. QED  BY Invariance, <1>1, <1>2, PTL
           DEF Spec, ImplementsAtomicFile, Abstract!Spec
=============================================================================
