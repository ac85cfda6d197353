----------------------------- MODULE RuntimeFiles -----------------------------
(***************************************************************************)
(* The private files of a process (npm/core/index.js): a directory, found  *)
(* through a rendezvous marker, and a file in it, the module or the        *)
(* OpenSSL config, that every isolate (the main thread and the Workers)    *)
(* creates or finds.  The isolates share nothing but the file system.      *)
(*                                                                         *)
(* A step is a system call, or a run of them that nobody else can see      *)
(* between: a candidate directory and its .publish file have an owner.     *)
(* A call may fail; a Worker may be terminated between any two steps.      *)
(***************************************************************************)
EXTENDS Naturals, FiniteSets

CONSTANTS
    Isolates,  \* the main thread and the Workers; a candidate directory, or a
               \* file, is named by its creator
    Failures,  \* system calls that fail, at most
    Deaths,    \* Workers that are terminated, at most
    None       \* no such file, or undefined

PrivateFiles == [by : Isolates, mode : {"0600", "final"}, whole : BOOLEAN]

ASSUME BoundsAssumption == Failures \in Nat /\ Deaths \in Nat

ASSUME NoneAssumption == None \notin Isolates \cup PrivateFiles

VARIABLES
    pc,      \* pc[i]: the next step of isolate i
    dirs,    \* candidate directories that exist
    marker,  \* the directory the rendezvous names, or None
    temp,    \* temp[i]: tempDirectory
    file,    \* the private file: [by, mode, whole], or None
    found,   \* found[i]: the file isolate i returned the path of, or None
    failed,  \* number of calls that failed
    dead     \* number of isolates that were terminated

vars == <<pc, dirs, marker, temp, file, found, failed, dead>>

Ended == {"done", "refused", "dead"}

Init ==
    /\ pc = [i \in Isolates |-> "root"]
    /\ dirs = {} /\ marker = None
    /\ temp = [i \in Isolates |-> None]
    /\ file = None
    /\ found = [i \in Isolates |-> None]
    /\ failed = 0 /\ dead = 0

At(i, step) == pc[i] = step
Goto(i, step) == pc' = [pc EXCEPT ![i] = step]

\* A system call of isolate i fails, after which it goes on at step.
Fails(i, step) ==
    /\ failed < Failures
    /\ failed' = failed + 1
    /\ Goto(i, step)

-----------------------------------------------------------------------------
(***************************************************************************)
(* privateTempDirectory                                                    *)
(***************************************************************************)

\* rendezvousRoot: the directory of the user, which outlives the process, is
\* created, with the mode it has to have from the first moment, or found.
RendezvousRoot(i) ==
    /\ At(i, "root")
    /\ \/ Goto(i, "rendezvous") /\ UNCHANGED failed
       \/ Fails(i, "refused")
    /\ UNCHANGED <<dirs, marker, temp, file, found, dead>>

\* assertPrivateDirectory: a directory that has been adopted is there
Exists(d) == d \in dirs

\* readRendezvous: the marker names a directory, which is taken over.
TakeOver(i) ==
    /\ marker # None
    /\ IF Exists(marker)
       THEN temp' = [temp EXCEPT ![i] = marker] /\ Goto(i, "validate")
       ELSE Goto(i, "refused") /\ UNCHANGED temp

\* The marker is read, at first and again after a lost race.  No marker is a
\* reason to publish one at first, and an error after the race.
ReadRendezvous(i) ==
    /\ pc[i] \in {"rendezvous", "reread"}
    /\ \/ TakeOver(i) /\ UNCHANGED failed
       \/ /\ marker = None
          /\ Goto(i, IF At(i, "reread") THEN "refused" ELSE "mkdtemp")
          /\ UNCHANGED <<temp, failed>>
       \/ Fails(i, "refused") /\ UNCHANGED temp
    /\ UNCHANGED <<dirs, marker, file, found, dead>>

\* validateTempDirectory
TempDirectoryValid(i) == temp[i] = marker /\ Exists(marker)

ValidateTempDirectory(i) ==
    /\ At(i, "validate")
    /\ \/ /\ Goto(i, IF TempDirectoryValid(i) THEN "create" ELSE "refused")
          /\ UNCHANGED failed
       \/ Fails(i, "refused")
    /\ UNCHANGED <<dirs, marker, temp, file, found, dead>>

\* publishRendezvous, up to linkSync
MakeCandidate(i) ==
    /\ At(i, "mkdtemp")
    /\ \/ /\ dirs' = dirs \cup {i}
          /\ Goto(i, "link") /\ UNCHANGED failed
       \/ /\ Fails(i, "refused") /\ UNCHANGED dirs
       \/ /\ Fails(i, "discard") /\ dirs' = dirs \cup {i}
    /\ UNCHANGED <<marker, temp, file, found, dead>>

\* (slip) the marker is written over, not linked
LinkMarkerReplacing(i) ==
    /\ At(i, "link")
    /\ marker' = i /\ temp' = [temp EXCEPT ![i] = i]
    /\ Goto(i, "validate")
    /\ UNCHANGED <<dirs, file, found, failed, dead>>

\* linkSync publishes the candidate unless there is a marker; then, and when it
\* fails, the candidate is discarded.
LinkMarker(i) ==
    /\ At(i, "link")
    /\ \/ /\ marker = None
          /\ marker' = i /\ temp' = [temp EXCEPT ![i] = i]
          /\ Goto(i, "validate") /\ UNCHANGED failed
       \/ /\ marker = None \* published, but not read back
          /\ marker' = i
          /\ Fails(i, "refused") /\ UNCHANGED temp
       \/ /\ marker # None
          /\ Goto(i, "adopt")
          /\ UNCHANGED <<marker, temp, failed>>
       \/ /\ Fails(i, "discard") /\ UNCHANGED <<marker, temp>>
    /\ UNCHANGED <<dirs, file, found, dead>>

\* (slip) the loser of the race leaves its candidate behind
AdoptAndLeave(i) ==
    /\ At(i, "adopt")
    /\ Goto(i, "reread")
    /\ UNCHANGED <<dirs, marker, temp, file, found, failed, dead>>

\* (slip) the directory that won is not taken over
AdoptNothing(i) ==
    /\ At(i, "adopt")
    /\ dirs' = dirs \ {i}
    /\ Goto(i, "create")
    /\ UNCHANGED <<marker, temp, file, found, failed, dead>>

\* EEXIST: the candidate, which is empty, goes ("another isolate may have
\* published it"), and the marker is read.
Adopt(i) ==
    /\ At(i, "adopt")
    /\ \/ dirs' = dirs \ {i} /\ Goto(i, "reread") /\ UNCHANGED failed
       \/ Fails(i, "reread") /\ UNCHANGED dirs
    /\ UNCHANGED <<marker, temp, file, found, dead>>

\* Another failure, before the publication
Discard(i) ==
    /\ At(i, "discard")
    /\ \/ dirs' = dirs \ {i} /\ Goto(i, "refused") /\ UNCHANGED failed
       \/ Fails(i, "refused") /\ UNCHANGED dirs
    /\ UNCHANGED <<marker, temp, file, found, dead>>

-----------------------------------------------------------------------------
(***************************************************************************)
(* writePrivateFile                                                        *)
(***************************************************************************)

\* openSync with O_EXCL and mode 0600
Create(i) ==
    /\ At(i, "create")
    /\ \/ /\ file = None
          /\ file' = [by |-> i, mode |-> "0600", whole |-> FALSE]
          /\ Goto(i, "write") /\ UNCHANGED failed
       \/ /\ file # None
          /\ Goto(i, "wait") /\ UNCHANGED <<file, failed>>
       \/ /\ Fails(i, "refused") /\ UNCHANGED file
    /\ UNCHANGED <<dirs, marker, temp, found, dead>>

\* writeFileSync and fsyncSync
Write(i) ==
    /\ At(i, "write")
    /\ \/ /\ file' = [file EXCEPT !.whole = TRUE]
          /\ Goto(i, "chmod") /\ UNCHANGED failed
       \/ /\ Fails(i, "unlink") /\ UNCHANGED file
    /\ UNCHANGED <<dirs, marker, temp, found, dead>>

\* fchmodSync to the final mode: the file is published.
Publish(i) ==
    /\ At(i, "chmod")
    /\ \/ /\ file' = [file EXCEPT !.mode = "final"]
          /\ Goto(i, "sync") /\ UNCHANGED failed
       \/ /\ Fails(i, "unlink") /\ UNCHANGED file
    /\ UNCHANGED <<dirs, marker, temp, found, dead>>

\* (slip) the file is removed after its publication, too
SyncOrUnlink(i) ==
    /\ At(i, "sync")
    /\ \/ Goto(i, "snapshot") /\ UNCHANGED failed
       \/ Fails(i, "unlink")
    /\ UNCHANGED <<dirs, marker, temp, file, found, dead>>

\* fsyncSync and closeSync; a published file stays if they fail.
Sync(i) ==
    /\ At(i, "sync")
    /\ \/ Goto(i, "snapshot") /\ UNCHANGED failed
       \/ Fails(i, "refused")
    /\ UNCHANGED <<dirs, marker, temp, file, found, dead>>

\* unlinkSync, "best effort"
Unlink(i) ==
    /\ At(i, "unlink")
    /\ \/ file' = None /\ Goto(i, "refused") /\ UNCHANGED failed
       \/ Fails(i, "refused") /\ UNCHANGED file
    /\ UNCHANGED <<dirs, marker, temp, found, dead>>

Pending == file # None /\ file.mode = "0600"

\* (slip) a file that is there is taken as it is
AwaitNothing(i) ==
    /\ At(i, "wait")
    /\ Goto(i, IF file = None THEN "create" ELSE "snapshot")
    /\ UNCHANGED <<dirs, marker, temp, file, found, failed, dead>>

\* awaitPrivateFile, in one of its rounds
Await(i) ==
    /\ At(i, "wait")
    /\ \/ /\ ~ Pending
          /\ Goto(i, IF file = None THEN "create" ELSE "snapshot")
          /\ UNCHANGED failed
       \/ Fails(i, "refused")
    /\ UNCHANGED <<dirs, marker, temp, file, found, dead>>

\* (slip) every attempt has a deadline of its own
TimeOutRestarts(i) ==
    /\ At(i, "wait")
    /\ Goto(i, "create")
    /\ UNCHANGED <<dirs, marker, temp, file, found, failed, dead>>

\* publicationTimeout.  The deadline is looked at before the file is.
TimeOut(i) ==
    /\ At(i, "wait")
    /\ Goto(i, "refused")
    /\ UNCHANGED <<dirs, marker, temp, file, found, failed, dead>>

\* validatePrivateFile: the file is what was to be written.
PrivateFileValid(i) ==
    /\ TempDirectoryValid(i)
    /\ file # None /\ file.mode = "final" /\ file.whole

\* privateFileSnapshot: the file is read and validated.
Snapshot(i) ==
    /\ At(i, "snapshot")
    /\ \/ /\ IF PrivateFileValid(i)
             THEN found' = [found EXCEPT ![i] = file.by] /\ Goto(i, "done")
             ELSE Goto(i, "refused") /\ UNCHANGED found
          /\ UNCHANGED failed
       \/ Fails(i, "refused") /\ UNCHANGED found
    /\ UNCHANGED <<dirs, marker, temp, file, dead>>

\* opensslConfigPath() or modulePath() once more: the cached file is validated,
\* and must be the one that was found.
CallAgain(i) ==
    /\ At(i, "done")
    /\ \/ /\ Goto(i, IF PrivateFileValid(i) /\ file.by = found[i]
                    THEN "done" ELSE "refused")
          /\ UNCHANGED failed
       \/ Fails(i, "refused")
    /\ UNCHANGED <<dirs, marker, temp, file, found, dead>>

\* worker.terminate(), between two steps
Terminate(i) ==
    /\ pc[i] \notin Ended
    /\ dead < Deaths
    /\ dead' = dead + 1
    /\ Goto(i, "dead")
    /\ UNCHANGED <<dirs, marker, temp, file, found, failed>>

Step(i) ==
    \/ RendezvousRoot(i) \/ ReadRendezvous(i) \/ ValidateTempDirectory(i)
    \/ MakeCandidate(i) \/ LinkMarker(i)
    \/ Adopt(i) \/ Discard(i)
    \/ Create(i) \/ Write(i) \/ Publish(i) \/ Sync(i) \/ Unlink(i)
    \/ Await(i) \/ Snapshot(i)

Finished == (\A i \in Isolates : pc[i] \in Ended) /\ UNCHANGED vars

Next ==
    \/ \E i \in Isolates : Step(i) \/ TimeOut(i) \/ CallAgain(i) \/ Terminate(i)
    \/ Finished

Spec == Init /\ [][Next]_vars

\* An isolate that runs takes its next step; one that waits does not for longer
\* than its deadline allows.
FairSpec == Spec /\ \A i \in Isolates : WF_vars(Step(i)) /\ WF_vars(TimeOut(i))

-----------------------------------------------------------------------------
(***************************************************************************)
(* Properties                                                              *)
(***************************************************************************)
Steps == {"root", "rendezvous", "mkdtemp", "link", "adopt", "reread",
          "discard", "validate", "create", "write", "chmod", "sync", "unlink", "wait", "snapshot"} \cup Ended

\* The types of the variables.
TypeOK ==
    /\ pc \in [Isolates -> Steps]
    /\ dirs \subseteq Isolates
    /\ marker \in Isolates \cup {None}
    /\ temp \in [Isolates -> Isolates \cup {None}]
    /\ file \in PrivateFiles \cup {None}
    /\ found \in [Isolates -> Isolates \cup {None}]
    /\ failed \in 0..Failures /\ dead \in 0..Deaths

\* The candidate directories nobody is to remove any more
Litter == {i \in dirs \ {marker} : pc[i] \notin {"link", "adopt", "discard", "dead"}}

\* A directory is left over only by an isolate that was terminated, or whose
\* removal of it failed: once for the loser of a race that goes on, twice for
\* one that gave up.
LitterAccounted ==
    LET gaveUp == {i \in Litter : pc[i] = "refused" /\ temp[i] = None}
    IN  Cardinality(Litter) + Cardinality(gaveUp) <= failed

\* The README promises one directory, shared by the main thread and the
\* Workers: an isolate that has a directory has the one the marker names, and
\* it exists; one that works on the file has a directory.  The marker is never
\* seen before its directory is complete, and never replaced; and the losers of
\* the race leave no directory of their own behind (publishRendezvous).
OneDirectory ==
    /\ marker # None => marker \in dirs
    /\ \A i \in Isolates : temp[i] # None => temp[i] = marker
    /\ \A i \in Isolates :
          temp[i] = None =>
            pc[i] \in {"root", "rendezvous", "mkdtemp", "link", "adopt",
                      "reread", "discard", "refused", "dead"}
    /\ LitterAccounted

\* Every isolate that is given the path of the file is given the same file, and
\* the file is there, whole and read-only.
OneWholeFile ==
    \A i \in Isolates : found[i] # None =>
        /\ file # None
        /\ file.by = found[i] /\ file.mode = "final" /\ file.whole

\* An isolate that writes or removes the file has its own in front of it.
OwnFileOnly ==
    \A i \in Isolates : pc[i] \in {"write", "chmod", "unlink"} =>
        file # None /\ file.by = i /\ file.mode = "0600"

\* Every isolate gets the file, an error, or is terminated: nobody waits
\* for ever for a creator that is gone.
EverybodyEnds == \A i \in Isolates : <>(pc[i] \in Ended)

\* An isolate is refused only when one of its own calls has failed, or when its
\* deadline passed while it waited for the creator: never because it lost a
\* race, or because it read the file too early.
RefusedForAReason ==
    [][\A i \in Isolates :
        pc[i] # "refused" /\ pc'[i] = "refused" =>
            pc[i] \in {"wait", "discard", "unlink"} \/ failed' > failed]_vars

===============================================================================
