-------------------------- MODULE RuntimeFilesProofs --------------------------
(***************************************************************************)
(* Proofs about RuntimeFiles for any number of isolates, failing calls and *)
(* terminated Workers: there is one directory, one file, nobody is refused *)
(* without a reason, and what is left behind is accounted for.             *)
(***************************************************************************)
EXTENDS RuntimeFiles, FiniteSetTheorems, TLAPS

\* Without a directory, and with a candidate of its own
Homeless == {"root", "rendezvous", "mkdtemp", "link", "adopt", "reread", "discard"}
Candidates == {"link", "adopt", "discard"}

\* What an isolate knows of the directories at each of its steps
DirectoriesMatchPc ==
    /\ marker # None => marker \in dirs
    /\ \A i \in Isolates :
          /\ temp[i] # None => temp[i] = marker
          /\ pc[i] \in Homeless => temp[i] = None
          /\ temp[i] = None => pc[i] \in Homeless \cup {"refused", "dead"}
          /\ pc[i] \in {"root", "rendezvous", "mkdtemp"} => i \notin dirs
          /\ pc[i] \in Candidates => i \in dirs /\ marker # i
          /\ pc[i] \in {"adopt", "reread"} => marker # None

\* What an isolate knows of the file at each of its steps
Published == file # None /\ file.mode = "final"

FileMatchesPc ==
    /\ Published => file.whole
    /\ \A i \in Isolates :
          /\ pc[i] = "chmod" => file # None /\ file.whole
          /\ pc[i] \in {"sync", "snapshot", "done"} => Published
          /\ pc[i] = "done" => found[i] = file.by
          /\ found[i] # None => Published /\ file.by = found[i]

GaveUp == {i \in Litter : pc[i] = "refused" /\ temp[i] = None}
Discarding == {i \in Isolates : pc[i] = "discard"}

\* Each failed call leaves one directory or one error behind: that of the
\* isolate that is about to discard its candidate is not accounted for yet.
Debt == Cardinality(Litter) + Cardinality(GaveUp) + Cardinality(Discarding)

DebtCovered == IsFiniteSet(dirs) /\ Debt <= failed

FilesInv ==
    TypeOK /\ DirectoriesMatchPc /\ OwnFileOnly /\ FileMatchesPc /\ DebtCovered

-----------------------------------------------------------------------------
\* The initial state has its types.
LEMMA TypesHold == Init => TypeOK
BY BoundsAssumption DEF Init, TypeOK, Steps, Ended

\* The steps of writePrivateFile on its own file make private files.
LEMMA FileSteps ==
    ASSUME NEW f \in PrivateFiles
    PROVE  /\ f.by \in Isolates
           /\ [f EXCEPT !.whole = TRUE] \in PrivateFiles
           /\ [f EXCEPT !.mode = "final"] \in PrivateFiles
BY DEF PrivateFiles

\* A file that is just created is a private one.
LEMMA NewFile ==
    ASSUME NEW i \in Isolates
    PROVE  [by |-> i, mode |-> "0600", whole |-> FALSE] \in PrivateFiles
BY DEF PrivateFiles

\* Every step keeps the types.
LEMMA TypesKept ==
    ASSUME TypeOK, OwnFileOnly, [Next]_vars
    PROVE  TypeOK'
<1> USE BoundsAssumption DEF TypeOK, Steps, Ended, At, Goto, Fails
<1>1. CASE UNCHANGED vars
  BY <1>1 DEF vars
<1>2. ASSUME NEW i \in Isolates, RendezvousRoot(i)
      PROVE  TypeOK'
  BY <1>2 DEF RendezvousRoot
<1>3. ASSUME NEW i \in Isolates, ReadRendezvous(i)
      PROVE  TypeOK'
  BY <1>3 DEF ReadRendezvous, TakeOver
<1>4. ASSUME NEW i \in Isolates, ValidateTempDirectory(i)
      PROVE  TypeOK'
  BY <1>4 DEF ValidateTempDirectory
<1>5. ASSUME NEW i \in Isolates, MakeCandidate(i)
      PROVE  TypeOK'
  BY <1>5 DEF MakeCandidate
<1>6. ASSUME NEW i \in Isolates, LinkMarker(i)
      PROVE  TypeOK'
  BY <1>6 DEF LinkMarker
<1>7. ASSUME NEW i \in Isolates, Adopt(i)
      PROVE  TypeOK'
  BY <1>7 DEF Adopt
<1>8. ASSUME NEW i \in Isolates, Discard(i)
      PROVE  TypeOK'
  BY <1>8 DEF Discard
<1>9. ASSUME NEW i \in Isolates, Create(i)
      PROVE  TypeOK'
  BY <1>9, NewFile DEF Create
<1>10. ASSUME NEW i \in Isolates, Write(i)
      PROVE  TypeOK'
  <2>1. file \in PrivateFiles
    BY <1>10 DEF Write, OwnFileOnly
  <2>2. [file EXCEPT !.whole = TRUE] \in PrivateFiles
    BY <2>1, FileSteps
  <2>3. file' \in PrivateFiles \cup {None}
    BY <1>10, <2>1, <2>2, Zenon DEF Write
  <2>4. QED
    BY <1>10, <2>3 DEF Write
<1>11. ASSUME NEW i \in Isolates, Publish(i)
      PROVE  TypeOK'
  <2>1. file \in PrivateFiles
    BY <1>11 DEF Publish, OwnFileOnly
  <2>2. [file EXCEPT !.mode = "final"] \in PrivateFiles
    BY <2>1, FileSteps
  <2>3. file' \in PrivateFiles \cup {None}
    BY <1>11, <2>1, <2>2, Zenon DEF Publish
  <2>4. QED
    BY <1>11, <2>3 DEF Publish
<1>12. ASSUME NEW i \in Isolates, Sync(i)
      PROVE  TypeOK'
  BY <1>12 DEF Sync
<1>13. ASSUME NEW i \in Isolates, Unlink(i)
      PROVE  TypeOK'
  BY <1>13 DEF Unlink
<1>14. ASSUME NEW i \in Isolates, Await(i)
      PROVE  TypeOK'
  BY <1>14 DEF Await
<1>15. ASSUME NEW i \in Isolates, Snapshot(i)
      PROVE  TypeOK'
  <2>1. PrivateFileValid(i) => file.by \in Isolates
    BY FileSteps DEF PrivateFileValid
  <2>2. found' \in [Isolates -> Isolates \cup {None}]
    BY <1>15, <2>1 DEF Snapshot
  <2>3. QED
    BY <1>15, <2>2 DEF Snapshot
<1>16. ASSUME NEW i \in Isolates, TimeOut(i)
      PROVE  TypeOK'
  BY <1>16 DEF TimeOut
<1>17. ASSUME NEW i \in Isolates, CallAgain(i)
      PROVE  TypeOK'
  BY <1>17 DEF CallAgain
<1>18. ASSUME NEW i \in Isolates, Terminate(i)
      PROVE  TypeOK'
  BY <1>18 DEF Terminate
<1>19. QED
  BY <1>1, <1>2, <1>3, <1>4, <1>5, <1>6, <1>7, <1>8, <1>9, <1>10, <1>11, <1>12,
     <1>13, <1>14, <1>15, <1>16, <1>17, <1>18
     DEF Next, Step, Finished

\* Every step keeps what is known of the directories.
LEMMA DirectoriesKept ==
    ASSUME TypeOK, DirectoriesMatchPc, [Next]_vars
    PROVE  DirectoriesMatchPc'
<1> USE NoneAssumption DEF TypeOK, DirectoriesMatchPc, Homeless, Candidates,
            Steps, Ended, At, Goto, Fails
<1>1. CASE UNCHANGED vars
  BY <1>1 DEF vars
<1>2. ASSUME NEW i \in Isolates, RendezvousRoot(i)
      PROVE  DirectoriesMatchPc'
  BY <1>2 DEF RendezvousRoot
<1>3. ASSUME NEW i \in Isolates, ReadRendezvous(i)
      PROVE  DirectoriesMatchPc'
  BY <1>3 DEF ReadRendezvous, TakeOver, Exists
<1>4. ASSUME NEW i \in Isolates, ValidateTempDirectory(i)
      PROVE  DirectoriesMatchPc'
  BY <1>4 DEF ValidateTempDirectory
<1>5. ASSUME NEW i \in Isolates, MakeCandidate(i)
      PROVE  DirectoriesMatchPc'
  BY <1>5 DEF MakeCandidate
<1>6. ASSUME NEW i \in Isolates, LinkMarker(i)
      PROVE  DirectoriesMatchPc'
  BY <1>6 DEF LinkMarker
<1>7. ASSUME NEW i \in Isolates, Adopt(i)
      PROVE  DirectoriesMatchPc'
  BY <1>7 DEF Adopt
<1>8. ASSUME NEW i \in Isolates, Discard(i)
      PROVE  DirectoriesMatchPc'
  BY <1>8 DEF Discard
<1>9. ASSUME NEW i \in Isolates, Create(i)
      PROVE  DirectoriesMatchPc'
  BY <1>9 DEF Create
<1>10. ASSUME NEW i \in Isolates, Write(i)
      PROVE  DirectoriesMatchPc'
  BY <1>10 DEF Write
<1>11. ASSUME NEW i \in Isolates, Publish(i)
      PROVE  DirectoriesMatchPc'
  BY <1>11 DEF Publish
<1>12. ASSUME NEW i \in Isolates, Sync(i)
      PROVE  DirectoriesMatchPc'
  BY <1>12 DEF Sync
<1>13. ASSUME NEW i \in Isolates, Unlink(i)
      PROVE  DirectoriesMatchPc'
  BY <1>13 DEF Unlink
<1>14. ASSUME NEW i \in Isolates, Await(i)
      PROVE  DirectoriesMatchPc'
  BY <1>14 DEF Await
<1>15. ASSUME NEW i \in Isolates, Snapshot(i)
      PROVE  DirectoriesMatchPc'
  BY <1>15 DEF Snapshot
<1>16. ASSUME NEW i \in Isolates, TimeOut(i)
      PROVE  DirectoriesMatchPc'
  BY <1>16 DEF TimeOut
<1>17. ASSUME NEW i \in Isolates, CallAgain(i)
      PROVE  DirectoriesMatchPc'
  BY <1>17 DEF CallAgain
<1>18. ASSUME NEW i \in Isolates, Terminate(i)
      PROVE  DirectoriesMatchPc'
  BY <1>18 DEF Terminate
<1>19. QED
  BY <1>1, <1>2, <1>3, <1>4, <1>5, <1>6, <1>7, <1>8, <1>9, <1>10, <1>11,
     <1>12, <1>13, <1>14, <1>15, <1>16, <1>17, <1>18
     DEF Next, Step, Finished

\* Every step keeps what is known of the file.
LEMMA FileKept ==
    ASSUME TypeOK, OwnFileOnly, FileMatchesPc, [Next]_vars
    PROVE  OwnFileOnly' /\ FileMatchesPc'
<1> USE NoneAssumption DEF TypeOK, OwnFileOnly, FileMatchesPc, Published,
            PrivateFiles, Steps, Ended, At, Goto, Fails
<1>1. CASE UNCHANGED vars
  BY <1>1 DEF vars
<1>2. ASSUME NEW i \in Isolates, RendezvousRoot(i)
      PROVE  OwnFileOnly' /\ FileMatchesPc'
  BY <1>2 DEF RendezvousRoot
<1>3. ASSUME NEW i \in Isolates, ReadRendezvous(i)
      PROVE  OwnFileOnly' /\ FileMatchesPc'
  BY <1>3 DEF ReadRendezvous, TakeOver, Exists
<1>4. ASSUME NEW i \in Isolates, ValidateTempDirectory(i)
      PROVE  OwnFileOnly' /\ FileMatchesPc'
  BY <1>4 DEF ValidateTempDirectory
<1>5. ASSUME NEW i \in Isolates, MakeCandidate(i)
      PROVE  OwnFileOnly' /\ FileMatchesPc'
  BY <1>5 DEF MakeCandidate
<1>6. ASSUME NEW i \in Isolates, LinkMarker(i)
      PROVE  OwnFileOnly' /\ FileMatchesPc'
  BY <1>6 DEF LinkMarker
<1>7. ASSUME NEW i \in Isolates, Adopt(i)
      PROVE  OwnFileOnly' /\ FileMatchesPc'
  BY <1>7 DEF Adopt
<1>8. ASSUME NEW i \in Isolates, Discard(i)
      PROVE  OwnFileOnly' /\ FileMatchesPc'
  BY <1>8 DEF Discard
<1>9. ASSUME NEW i \in Isolates, Create(i)
      PROVE  OwnFileOnly' /\ FileMatchesPc'
  <2>1. [by |-> i, mode |-> "0600", whole |-> FALSE] # None
    BY NewFile
  <2>2. QED
    BY <1>9, <2>1 DEF Create
<1>10. ASSUME NEW i \in Isolates, Write(i)
      PROVE  OwnFileOnly' /\ FileMatchesPc'
  <2>1. file \in PrivateFiles /\ file.by = i /\ file.mode = "0600"
    BY <1>10 DEF Write
  <2>2. [file EXCEPT !.whole = TRUE] \in PrivateFiles
    BY <2>1, FileSteps
  <2>3. CASE file' = [file EXCEPT !.whole = TRUE] /\ Goto(i, "chmod")
    <3>1. /\ file' # None /\ file'.by = i /\ file'.mode = "0600"
          /\ file'.whole
      BY <2>1, <2>2, <2>3
    <3>2. \A j \in Isolates : found[j] = None
      BY <2>1
    <3>3. QED
      BY <1>10, <2>1, <2>3, <3>1, <3>2 DEF Write
  <2>4. CASE Fails(i, "unlink") /\ UNCHANGED file
    BY <1>10, <2>1, <2>4 DEF Write
  <2>5. QED
    BY <1>10, <2>3, <2>4 DEF Write
<1>11. ASSUME NEW i \in Isolates, Publish(i)
      PROVE  OwnFileOnly' /\ FileMatchesPc'
  BY <1>11 DEF Publish
<1>12. ASSUME NEW i \in Isolates, Sync(i)
      PROVE  OwnFileOnly' /\ FileMatchesPc'
  BY <1>12 DEF Sync
<1>13. ASSUME NEW i \in Isolates, Unlink(i)
      PROVE  OwnFileOnly' /\ FileMatchesPc'
  BY <1>13 DEF Unlink
<1>14. ASSUME NEW i \in Isolates, Await(i)
      PROVE  OwnFileOnly' /\ FileMatchesPc'
  BY <1>14 DEF Await, Pending
<1>15. ASSUME NEW i \in Isolates, Snapshot(i)
      PROVE  OwnFileOnly' /\ FileMatchesPc'
  BY <1>15 DEF Snapshot, PrivateFileValid
<1>16. ASSUME NEW i \in Isolates, TimeOut(i)
      PROVE  OwnFileOnly' /\ FileMatchesPc'
  BY <1>16 DEF TimeOut
<1>17. ASSUME NEW i \in Isolates, CallAgain(i)
      PROVE  OwnFileOnly' /\ FileMatchesPc'
  BY <1>17 DEF CallAgain
<1>18. ASSUME NEW i \in Isolates, Terminate(i)
      PROVE  OwnFileOnly' /\ FileMatchesPc'
  BY <1>18 DEF Terminate
<1>19. QED
  BY <1>1, <1>2, <1>3, <1>4, <1>5, <1>6, <1>7, <1>8, <1>9, <1>10, <1>11,
     <1>12, <1>13, <1>14, <1>15, <1>16, <1>17, <1>18
     DEF Next, Step, Finished

-----------------------------------------------------------------------------
\* Cardinalities of a set and of one that has at most as many elements, at most
\* one more, or at least one less.
LEMMA NoMore ==
    ASSUME NEW S, IsFiniteSet(S), NEW T \in SUBSET S
    PROVE  /\ IsFiniteSet(T)
           /\ Cardinality(S) \in Nat /\ Cardinality(T) \in Nat
           /\ Cardinality(T) <= Cardinality(S)
BY FS_Subset, FS_CardinalityType

\* A part of a set that has got another element
LEMMA OneMore ==
    ASSUME NEW S, IsFiniteSet(S), NEW x, NEW T \in SUBSET (S \cup {x})
    PROVE  Cardinality(T) \in Nat /\ Cardinality(T) <= Cardinality(S) + 1
<1>1. /\ IsFiniteSet(S \cup {x})
      /\ Cardinality(S \cup {x}) <= Cardinality(S) + 1
      /\ Cardinality(S) \in Nat
  BY FS_AddElement, FS_CardinalityType
<1>2. /\ Cardinality(T) <= Cardinality(S \cup {x})
      /\ Cardinality(T) \in Nat /\ Cardinality(S \cup {x}) \in Nat
  BY <1>1, NoMore
<1>3. QED
  BY <1>1, <1>2

\* A part of a set that has lost an element
LEMMA OneLess ==
    ASSUME NEW S, IsFiniteSet(S), NEW x \in S, NEW T \in SUBSET (S \ {x})
    PROVE  Cardinality(T) \in Nat /\ Cardinality(T) <= Cardinality(S) - 1
<1>1. /\ IsFiniteSet(S \ {x})
      /\ Cardinality(S \ {x}) = Cardinality(S) - 1
      /\ Cardinality(S) \in Nat
  BY FS_RemoveElement, FS_CardinalityType
<1>2. /\ Cardinality(T) <= Cardinality(S \ {x})
      /\ Cardinality(T) \in Nat /\ Cardinality(S \ {x}) \in Nat
  BY <1>1, NoMore
<1>3. QED
  BY <1>1, <1>2

\* What is counted is finite, as the directories are.
LEMMA DebtFinite ==
    ASSUME DirectoriesMatchPc, IsFiniteSet(dirs)
    PROVE  /\ IsFiniteSet(Litter) /\ IsFiniteSet(GaveUp)
           /\ IsFiniteSet(Discarding)
           /\ Cardinality(Litter) \in Nat /\ Cardinality(GaveUp) \in Nat
           /\ Cardinality(Discarding) \in Nat
<1>1. Litter \subseteq dirs /\ GaveUp \subseteq dirs
  BY DEF Litter, GaveUp
<1>2. Discarding \subseteq dirs
  BY DEF Discarding, DirectoriesMatchPc, Candidates
<1>3. QED
  BY <1>1, <1>2, NoMore

\* A step after which nothing more is owed.
LEMMA NothingOwed ==
    ASSUME TypeOK, TypeOK', DirectoriesMatchPc, DebtCovered,
           failed' >= failed, IsFiniteSet(dirs'),
           Litter' \subseteq Litter, GaveUp' \subseteq GaveUp,
           Discarding' \subseteq Discarding
    PROVE  DebtCovered'
<1>1. /\ Cardinality(Litter') <= Cardinality(Litter)
      /\ Cardinality(GaveUp') <= Cardinality(GaveUp)
      /\ Cardinality(Discarding') <= Cardinality(Discarding)
      /\ Cardinality(Litter') \in Nat /\ Cardinality(GaveUp') \in Nat
      /\ Cardinality(Discarding') \in Nat
  BY DebtFinite, NoMore DEF DebtCovered
<1>2. failed \in Nat /\ failed' \in Nat
  BY BoundsAssumption DEF TypeOK
<1>3. QED
  BY <1>1, <1>2, DebtFinite DEF DebtCovered, Debt

\* A failing call after which one more directory or one more error is owed:
\* litter, an isolate that gave up, a candidate to discard, or the last of
\* these turned into the other two.
LEMMA OneOwed ==
    ASSUME TypeOK, TypeOK', DirectoriesMatchPc, DebtCovered,
           failed' = failed + 1, IsFiniteSet(dirs'), NEW i,
           \/ /\ Litter' \subseteq Litter \cup {i}
              /\ GaveUp' \subseteq GaveUp /\ Discarding' \subseteq Discarding
           \/ /\ GaveUp' \subseteq GaveUp \cup {i}
              /\ Litter' \subseteq Litter /\ Discarding' \subseteq Discarding
           \/ /\ Discarding' \subseteq Discarding \cup {i}
              /\ Litter' \subseteq Litter /\ GaveUp' \subseteq GaveUp
           \/ /\ i \in Discarding /\ Discarding' \subseteq Discarding \ {i}
              /\ Litter' \subseteq Litter \cup {i}
              /\ GaveUp' \subseteq GaveUp \cup {i}
    PROVE  DebtCovered'
<1> USE DebtFinite DEF DebtCovered
<1>1. /\ Litter' \subseteq Litter =>
           Cardinality(Litter') \in Nat /\ Cardinality(Litter') <= Cardinality(Litter)
      /\ Litter' \subseteq Litter \cup {i} =>
           /\ Cardinality(Litter') \in Nat
           /\ Cardinality(Litter') <= Cardinality(Litter) + 1
  BY NoMore, OneMore
<1>2. /\ GaveUp' \subseteq GaveUp =>
           Cardinality(GaveUp') \in Nat /\ Cardinality(GaveUp') <= Cardinality(GaveUp)
      /\ GaveUp' \subseteq GaveUp \cup {i} =>
           /\ Cardinality(GaveUp') \in Nat
           /\ Cardinality(GaveUp') <= Cardinality(GaveUp) + 1
  BY NoMore, OneMore
<1>3. /\ Discarding' \subseteq Discarding =>
           /\ Cardinality(Discarding') \in Nat
           /\ Cardinality(Discarding') <= Cardinality(Discarding)
      /\ Discarding' \subseteq Discarding \cup {i} =>
           /\ Cardinality(Discarding') \in Nat
           /\ Cardinality(Discarding') <= Cardinality(Discarding) + 1
      /\ i \in Discarding /\ Discarding' \subseteq Discarding \ {i} =>
           /\ Cardinality(Discarding') \in Nat
           /\ Cardinality(Discarding') <= Cardinality(Discarding) - 1
  BY NoMore, OneMore, OneLess
<1>4. failed \in Nat
  BY BoundsAssumption DEF TypeOK
<1>5. QED
  BY <1>1, <1>2, <1>3, <1>4 DEF Debt

\* Every step keeps the account of the directories that are left behind.
LEMMA DebtKept ==
    ASSUME FilesInv, TypeOK', [Next]_vars
    PROVE  DebtCovered'
<1> USE NoneAssumption, BoundsAssumption, DebtFinite
    DEF FilesInv, TypeOK, DirectoriesMatchPc, Homeless, Candidates,
        Litter, GaveUp, Discarding, At, Goto, Fails
<1>1. CASE UNCHANGED vars
  BY <1>1 DEF vars, DebtCovered, Debt
<1>2. ASSUME NEW i \in Isolates, RendezvousRoot(i)
      PROVE  DebtCovered'
  <2>1. /\ dirs' = dirs /\ failed' >= failed
        /\ Litter' \subseteq Litter /\ GaveUp' \subseteq GaveUp
        /\ Discarding' \subseteq Discarding
    BY <1>2 DEF RendezvousRoot
  <2>2. QED
    BY <2>1, NothingOwed DEF DebtCovered
<1>3. ASSUME NEW i \in Isolates, ValidateTempDirectory(i)
      PROVE  DebtCovered'
  <2>1. /\ dirs' = dirs /\ failed' >= failed
        /\ Litter' \subseteq Litter /\ GaveUp' \subseteq GaveUp
        /\ Discarding' \subseteq Discarding
    BY <1>3 DEF ValidateTempDirectory
  <2>2. QED
    BY <2>1, NothingOwed DEF DebtCovered
<1>4. ASSUME NEW i \in Isolates, Create(i)
      PROVE  DebtCovered'
  <2>1. /\ dirs' = dirs /\ failed' >= failed
        /\ Litter' \subseteq Litter /\ GaveUp' \subseteq GaveUp
        /\ Discarding' \subseteq Discarding
    BY <1>4 DEF Create
  <2>2. QED
    BY <2>1, NothingOwed DEF DebtCovered
<1>5. ASSUME NEW i \in Isolates, Write(i)
      PROVE  DebtCovered'
  <2>1. /\ dirs' = dirs /\ failed' >= failed
        /\ Litter' \subseteq Litter /\ GaveUp' \subseteq GaveUp
        /\ Discarding' \subseteq Discarding
    BY <1>5 DEF Write
  <2>2. QED
    BY <2>1, NothingOwed DEF DebtCovered
<1>6. ASSUME NEW i \in Isolates, Publish(i)
      PROVE  DebtCovered'
  <2>1. /\ dirs' = dirs /\ failed' >= failed
        /\ Litter' \subseteq Litter /\ GaveUp' \subseteq GaveUp
        /\ Discarding' \subseteq Discarding
    BY <1>6 DEF Publish
  <2>2. QED
    BY <2>1, NothingOwed DEF DebtCovered
<1>7. ASSUME NEW i \in Isolates, Sync(i)
      PROVE  DebtCovered'
  <2>1. /\ dirs' = dirs /\ failed' >= failed
        /\ Litter' \subseteq Litter /\ GaveUp' \subseteq GaveUp
        /\ Discarding' \subseteq Discarding
    BY <1>7 DEF Sync
  <2>2. QED
    BY <2>1, NothingOwed DEF DebtCovered
<1>8. ASSUME NEW i \in Isolates, Unlink(i)
      PROVE  DebtCovered'
  <2>1. /\ dirs' = dirs /\ failed' >= failed
        /\ Litter' \subseteq Litter /\ GaveUp' \subseteq GaveUp
        /\ Discarding' \subseteq Discarding
    BY <1>8 DEF Unlink
  <2>2. QED
    BY <2>1, NothingOwed DEF DebtCovered
<1>9. ASSUME NEW i \in Isolates, Await(i)
      PROVE  DebtCovered'
  <2>1. /\ dirs' = dirs /\ failed' >= failed
        /\ Litter' \subseteq Litter /\ GaveUp' \subseteq GaveUp
        /\ Discarding' \subseteq Discarding
    BY <1>9 DEF Await
  <2>2. QED
    BY <2>1, NothingOwed DEF DebtCovered
<1>10. ASSUME NEW i \in Isolates, Snapshot(i)
      PROVE  DebtCovered'
  <2>1. /\ dirs' = dirs /\ failed' >= failed
        /\ Litter' \subseteq Litter /\ GaveUp' \subseteq GaveUp
        /\ Discarding' \subseteq Discarding
    BY <1>10 DEF Snapshot
  <2>2. QED
    BY <2>1, NothingOwed DEF DebtCovered
<1>11. ASSUME NEW i \in Isolates, TimeOut(i)
      PROVE  DebtCovered'
  <2>1. /\ dirs' = dirs /\ failed' >= failed
        /\ Litter' \subseteq Litter /\ GaveUp' \subseteq GaveUp
        /\ Discarding' \subseteq Discarding
    BY <1>11 DEF TimeOut
  <2>2. QED
    BY <2>1, NothingOwed DEF DebtCovered
<1>12. ASSUME NEW i \in Isolates, CallAgain(i)
      PROVE  DebtCovered'
  <2>1. /\ dirs' = dirs /\ failed' >= failed
        /\ Litter' \subseteq Litter /\ GaveUp' \subseteq GaveUp
        /\ Discarding' \subseteq Discarding
    BY <1>12 DEF CallAgain
  <2>2. QED
    BY <2>1, NothingOwed DEF DebtCovered
<1>13. ASSUME NEW i \in Isolates, Terminate(i)
      PROVE  DebtCovered'
  <2>1. /\ dirs' = dirs /\ failed' >= failed
        /\ Litter' \subseteq Litter /\ GaveUp' \subseteq GaveUp
        /\ Discarding' \subseteq Discarding
    BY <1>13 DEF Terminate, Ended
  <2>2. QED
    BY <2>1, NothingOwed DEF DebtCovered
<1>14. ASSUME NEW i \in Isolates, ReadRendezvous(i)
      PROVE  DebtCovered'
  <2>1. /\ dirs' = dirs
        /\ Litter' \subseteq Litter /\ Discarding' \subseteq Discarding
    BY <1>14 DEF ReadRendezvous, TakeOver
  <2>2. CASE UNCHANGED failed
    <3>1. GaveUp' \subseteq GaveUp
      BY <1>14, <2>2 DEF ReadRendezvous, TakeOver, Exists
    <3>2. QED
      BY <2>1, <2>2, <3>1, NothingOwed DEF DebtCovered
  <2>3. CASE Fails(i, "refused")
    <3>1. GaveUp' \subseteq GaveUp \cup {i}
      BY <1>14, <2>3 DEF ReadRendezvous, TakeOver
    <3>2. QED
      BY <2>1, <2>3, <3>1, OneOwed DEF DebtCovered
  <2>4. QED
    BY <1>14, <2>2, <2>3 DEF ReadRendezvous
<1>15. ASSUME NEW i \in Isolates, MakeCandidate(i)
      PROVE  DebtCovered'
  <2>1. IsFiniteSet(dirs')
    BY <1>15, FS_AddElement DEF MakeCandidate, DebtCovered
  <2>2. Litter' \subseteq Litter /\ GaveUp' \subseteq GaveUp
    BY <1>15 DEF MakeCandidate
  <2>3. CASE ~ At(i, "discard")'
    <3>1. Discarding' \subseteq Discarding /\ failed' >= failed
      BY <1>15, <2>3 DEF MakeCandidate
    <3>2. QED
      BY <2>1, <2>2, <3>1, NothingOwed
  <2>4. CASE Fails(i, "discard")
    <3>1. Discarding' \subseteq Discarding \cup {i}
      BY <1>15, <2>4 DEF MakeCandidate
    <3>2. QED
      BY <2>1, <2>2, <2>4, <3>1, OneOwed DEF DebtCovered
  <2>5. QED
    BY <1>15, <2>3, <2>4 DEF MakeCandidate
<1>16. ASSUME NEW i \in Isolates, LinkMarker(i)
      PROVE  DebtCovered'
  <2>1. dirs' = dirs
    BY <1>16 DEF LinkMarker
  <2>2. Litter' \subseteq Litter /\ GaveUp' \subseteq GaveUp
    BY <1>16 DEF LinkMarker
  <2>3. CASE ~ At(i, "discard")'
    <3>1. Discarding' \subseteq Discarding /\ failed' >= failed
      BY <1>16, <2>3 DEF LinkMarker
    <3>2. QED
      BY <2>1, <2>2, <3>1, NothingOwed DEF DebtCovered
  <2>4. CASE Fails(i, "discard")
    <3>1. Discarding' \subseteq Discarding \cup {i}
      BY <1>16, <2>4 DEF LinkMarker
    <3>2. QED
      BY <2>1, <2>2, <2>4, <3>1, OneOwed DEF DebtCovered
  <2>5. QED
    BY <1>16, <2>3, <2>4 DEF LinkMarker
<1>17. ASSUME NEW i \in Isolates, Adopt(i)
      PROVE  DebtCovered'
  <2>1. IsFiniteSet(dirs')
    BY <1>17, FS_RemoveElement DEF Adopt, DebtCovered
  <2>2. GaveUp' \subseteq GaveUp /\ Discarding' \subseteq Discarding
    BY <1>17 DEF Adopt
  <2>3. CASE UNCHANGED failed
    <3>1. Litter' \subseteq Litter
      BY <1>17, <2>3 DEF Adopt
    <3>2. QED
      BY <2>1, <2>2, <2>3, <3>1, NothingOwed
  <2>4. CASE Fails(i, "reread")
    <3>1. Litter' \subseteq Litter \cup {i}
      BY <1>17, <2>4 DEF Adopt
    <3>2. QED
      BY <2>1, <2>2, <2>4, <3>1, OneOwed DEF DebtCovered
  <2>5. QED
    BY <1>17, <2>3, <2>4 DEF Adopt
<1>18. ASSUME NEW i \in Isolates, Discard(i)
      PROVE  DebtCovered'
  <2>1. IsFiniteSet(dirs')
    BY <1>18, FS_RemoveElement DEF Discard, DebtCovered
  <2>2. i \in Discarding /\ Discarding' \subseteq Discarding \ {i}
    BY <1>18 DEF Discard
  <2>3. CASE UNCHANGED failed
    <3>1. Litter' \subseteq Litter /\ GaveUp' \subseteq GaveUp
      BY <1>18, <2>3 DEF Discard
    <3>2. QED
      BY <2>1, <2>2, <2>3, <3>1, NothingOwed
  <2>4. CASE Fails(i, "refused")
    <3>1. /\ Litter' \subseteq Litter \cup {i}
          /\ GaveUp' \subseteq GaveUp \cup {i}
      BY <1>18, <2>4 DEF Discard
    <3>2. QED
      BY <2>1, <2>2, <2>4, <3>1, OneOwed DEF DebtCovered
  <2>5. QED
    BY <1>18, <2>3, <2>4 DEF Discard
<1>19. QED
  BY <1>1, <1>2, <1>3, <1>4, <1>5, <1>6, <1>7, <1>8, <1>9, <1>10, <1>11,
     <1>12, <1>13, <1>14, <1>15, <1>16, <1>17, <1>18
     DEF Next, Step, Finished

-----------------------------------------------------------------------------
\* The initial state has no files.
LEMMA InitFiles == Init => FilesInv
<1> SUFFICES ASSUME Init PROVE FilesInv
  OBVIOUS
<1>1. DirectoriesMatchPc /\ OwnFileOnly /\ FileMatchesPc
  BY DEF Init, DirectoriesMatchPc, OwnFileOnly, FileMatchesPc, Homeless,
         Candidates, Published
<1>2. Litter = {} /\ GaveUp = {} /\ Discarding = {} /\ IsFiniteSet(dirs)
  BY FS_EmptySet DEF Init, Litter, GaveUp, Discarding
<1>3. DebtCovered
  BY <1>2, FS_EmptySet DEF Init, DebtCovered, Debt
<1>4. QED
  BY <1>1, <1>3, TypesHold DEF FilesInv

\* Whatever the isolates do, and whichever calls fail, the files are as the
\* invariant has them.
THEOREM FilesInvariant == Spec => []FilesInv
<1>1. FilesInv /\ [Next]_vars => FilesInv'
  <2> SUFFICES ASSUME FilesInv, [Next]_vars PROVE FilesInv'
    OBVIOUS
  <2>1. TypeOK'
    BY TypesKept DEF FilesInv
  <2>2. DirectoriesMatchPc' /\ OwnFileOnly' /\ FileMatchesPc'
    BY DirectoriesKept, FileKept DEF FilesInv
  <2>3. DebtCovered'
    BY <2>1, DebtKept
  <2>4. QED
    BY <2>1, <2>2, <2>3 DEF FilesInv
<1>2. QED
  BY InitFiles, <1>1, PTL DEF Spec

\* Type correctness of the private files and of every isolate that makes them.
THEOREM FilesTypeCorrect == Spec => []TypeOK
<1>1. FilesInv => TypeOK
  BY DEF FilesInv
<1>2. QED
  BY FilesInvariant, <1>1, PTL

\* publishRendezvous: whichever isolates race for the marker, all of them use
\* the one directory it names, and every other candidate is removed unless a
\* call failed or its isolate was terminated.
THEOREM AlwaysOneDirectory == Spec => []OneDirectory
<1>1. FilesInv => OneDirectory
  <2> SUFFICES ASSUME FilesInv PROVE OneDirectory
    OBVIOUS
  <2>1. LitterAccounted
    <3>1. /\ Cardinality(Litter) \in Nat /\ Cardinality(GaveUp) \in Nat
          /\ Cardinality(Discarding) \in Nat /\ failed \in Nat
      BY DebtFinite, BoundsAssumption DEF FilesInv, DebtCovered, TypeOK
    <3>2. Cardinality(Litter) + Cardinality(GaveUp) <= failed
      BY <3>1 DEF FilesInv, DebtCovered, Debt
    <3>3. QED
      BY <3>2 DEF LitterAccounted, GaveUp
  <2>2. QED
    BY <2>1 DEF FilesInv, OneDirectory, DirectoriesMatchPc, Homeless
<1>2. QED
  BY FilesInvariant, <1>1, PTL

\* writePrivateFile and awaitPrivateFile: every isolate that returns a path
\* returns that of the same file, which is whole and read-only and stays so.
THEOREM AlwaysOneWholeFile == Spec => []OneWholeFile
<1>1. FilesInv => OneWholeFile
  BY DEF FilesInv, OneWholeFile, FileMatchesPc, Published
<1>2. QED
  BY FilesInvariant, <1>1, PTL

\* No isolate is refused because it lost the race for the marker or for the
\* file, or read the file before it was there: one of its own calls failed, or
\* its deadline passed.
THEOREM AlwaysRefusedForAReason == Spec => RefusedForAReason
<1> DEFINE Reason == \A i \in Isolates :
               pc[i] # "refused" /\ pc'[i] = "refused" =>
                   pc[i] \in {"wait", "discard", "unlink"} \/ failed' > failed
<1>1. FilesInv /\ [Next]_vars => Reason
  <2> SUFFICES ASSUME FilesInv, [Next]_vars, NEW j \in Isolates,
                      pc[j] # "refused", pc'[j] = "refused",
                      pc[j] \notin {"wait", "discard", "unlink"}
               PROVE  failed' > failed
    OBVIOUS
  <2> USE NoneAssumption, BoundsAssumption
      DEF FilesInv, TypeOK, DirectoriesMatchPc, FileMatchesPc, Published,
          Homeless, Candidates, At, Goto, Fails
  <2>1. CASE UNCHANGED vars
    BY <2>1 DEF vars
  <2>2. ASSUME NEW i \in Isolates, RendezvousRoot(i)
        PROVE  failed' > failed
    BY <2>2 DEF RendezvousRoot
  <2>3. ASSUME NEW i \in Isolates, ReadRendezvous(i)
        PROVE  failed' > failed
    BY <2>3 DEF ReadRendezvous, TakeOver, Exists
  <2>4. ASSUME NEW i \in Isolates, ValidateTempDirectory(i)
        PROVE  failed' > failed
    BY <2>4 DEF ValidateTempDirectory, TempDirectoryValid, Exists
  <2>5. ASSUME NEW i \in Isolates, MakeCandidate(i)
        PROVE  failed' > failed
    BY <2>5 DEF MakeCandidate
  <2>6. ASSUME NEW i \in Isolates, LinkMarker(i)
        PROVE  failed' > failed
    BY <2>6 DEF LinkMarker
  <2>7. ASSUME NEW i \in Isolates, Adopt(i)
        PROVE  failed' > failed
    BY <2>7 DEF Adopt
  <2>8. ASSUME NEW i \in Isolates, Discard(i)
        PROVE  failed' > failed
    BY <2>8 DEF Discard
  <2>9. ASSUME NEW i \in Isolates, Create(i)
        PROVE  failed' > failed
    BY <2>9 DEF Create
  <2>10. ASSUME NEW i \in Isolates, Write(i)
        PROVE  failed' > failed
    BY <2>10 DEF Write
  <2>11. ASSUME NEW i \in Isolates, Publish(i)
        PROVE  failed' > failed
    BY <2>11 DEF Publish
  <2>12. ASSUME NEW i \in Isolates, Sync(i)
        PROVE  failed' > failed
    BY <2>12 DEF Sync
  <2>13. ASSUME NEW i \in Isolates, Unlink(i)
        PROVE  failed' > failed
    BY <2>13 DEF Unlink
  <2>14. ASSUME NEW i \in Isolates, Await(i)
        PROVE  failed' > failed
    BY <2>14 DEF Await
  <2>15. ASSUME NEW i \in Isolates, Snapshot(i)
        PROVE  failed' > failed
    BY <2>15 DEF Snapshot, PrivateFileValid, TempDirectoryValid, Exists
  <2>16. ASSUME NEW i \in Isolates, TimeOut(i)
        PROVE  failed' > failed
    BY <2>16 DEF TimeOut
  <2>17. ASSUME NEW i \in Isolates, CallAgain(i)
        PROVE  failed' > failed
    BY <2>17 DEF CallAgain, PrivateFileValid, TempDirectoryValid, Exists
  <2>18. ASSUME NEW i \in Isolates, Terminate(i)
        PROVE  failed' > failed
    BY <2>18 DEF Terminate, Ended
  <2>19. QED
    BY <2>1, <2>2, <2>3, <2>4, <2>5, <2>6, <2>7, <2>8, <2>9, <2>10, <2>11,
       <2>12, <2>13, <2>14, <2>15, <2>16, <2>17, <2>18
       DEF Next, Step, Finished
<1>2. QED
  BY FilesInvariant, <1>1, PTL DEF RefusedForAReason, Spec
===============================================================================
