---------------------------- MODULE PlatformPackage ----------------------------
(***************************************************************************)
(* The platform package (npm/core/index.js): every isolate of a process,   *)
(* the main thread and the Workers, has its own copy of index.js, which    *)
(* finds the package, reads its three files, keeps their bytes, and reads  *)
(* the files again at every later call, while npm may be replacing them.   *)
(*                                                                         *)
(* The bytes of a file are the version it is of; one that npm is replacing *)
(* is not complete, or gone.  A call is a sequence of steps, each of which *)
(* may end it with an exception.  The three files are read in three steps  *)
(* and validated in one.  RuntimeFiles has what the steps of a private     *)
(* file are, which here appears at once, and Registration what the module  *)
(* does when it is loaded.                                                 *)
(***************************************************************************)
EXTENDS Naturals, Sequences

CONSTANTS
    Isolates,
    Versions,     \* those that are installed, one after the other
    Partial,      \* bytes of a file that is not complete, or that is gone
    MaxInstalls,  \* installations, at most, while the process runs
    None          \* no private file, or undefined

Files == {"manifest", "module", "config"}

\* What a file may have been read as
Bytes == Versions \cup Partial

ASSUME VersionsAssumption ==
    /\ Versions \cap Partial = {} /\ None \notin Bytes
    /\ MaxInstalls \in Nat

VARIABLES
    disk,        \* disk[f]: the bytes of file f, or of core's own files
    installing,  \* the version npm is installing, or None
    installs,    \* number of installations begun
    archive,     \* the package is inside a .zip archive
    core,        \* core[i]: version, of the index.js of isolate i, or None
    todo,        \* todo[i]: what is left of the call isolate i is in
    snap,        \* snap[i][f]: the bytes of manifestFile, moduleFile, configFile
    found,       \* found[i]: cachedModule is set
    private,     \* private[f]: the process's private module or config, or None
    quiet        \* quiet[i]: no file has been replaced since the call began

package == <<disk, installing, installs, archive>>
isolate == <<core, todo, snap, found, quiet>>
vars == <<package, isolate, private>>

Unread == [f \in Files |-> None]

\* The steps of which a call has some, in an order
StepNames == {"probe", "readManifest", "readModule", "readConfig", "validate",
    "resolveModule", "validateModule", "dlopen", "render", "return", "returnConfig"}

Init ==
    /\ \E v \in Versions : disk = [f \in Files \cup {"core"} |-> v]
    /\ installing = None /\ installs = 0
    /\ archive \in BOOLEAN
    /\ core = [i \in Isolates |-> None]
    /\ todo = [i \in Isolates |-> <<>>]
    /\ snap = [i \in Isolates |-> Unread]
    /\ found = [i \in Isolates |-> FALSE]
    /\ private = [f \in {"module", "config"} |-> None]
    /\ quiet = [i \in Isolates |-> FALSE]

-----------------------------------------------------------------------------
(***************************************************************************)
(* npm install of another version of core and of the platform package      *)
(***************************************************************************)
Install(v) ==
    /\ installs < MaxInstalls
    /\ installing = None
    /\ installing' = v /\ installs' = installs + 1
    /\ UNCHANGED <<disk, archive, isolate, private>>

\* A file comes bit by bit.  (No index.js is loaded while those of core do.)
Replace(f) ==
    /\ installing # None
    /\ disk[f] # installing
    /\ \E bytes \in {installing} \cup (IF f = "core" THEN {} ELSE Partial) :
          disk' = [disk EXCEPT ![f] = bytes]
    /\ quiet' = [i \in Isolates |-> FALSE]
    /\ UNCHANGED <<installing, installs, archive, core, todo, snap, found, private>>

\* npm ends, or is killed: some files are then of one version, some of another,
\* and some incomplete or gone.
InstallEnds ==
    /\ installing # None
    /\ installing' = None
    /\ UNCHANGED <<disk, installs, archive, isolate, private>>

-----------------------------------------------------------------------------
(***************************************************************************)
(* The exported functions                                                  *)
(***************************************************************************)
\* cachedSatellite is set when the last of the files has been read.
Cached(i) == snap[i]["config"] # None

\* resolveSatellite(): the files are read, or validated if they are cached.
Resolve(i) == IF Cached(i) THEN <<"validate">>
              ELSE <<"readManifest", "readModule", "readConfig">>

\* (slip) a module that is cached is not looked at again
ModulePathCached(i) ==
    IF found[i] THEN <<>>
    ELSE Resolve(i) \o <<"resolveModule", "validate", "validateModule">>

\* modulePath()
ModulePath(i) ==
    (IF found[i] THEN <<>> ELSE Append(Resolve(i), "resolveModule"))
    \o <<"validate", "validateModule">>

\* The steps of each function; isSupported() returns what modulePath() throws.
\* (A register() that returns at once, having been called before, has no step;
\* here it may go the whole way again.)
Steps(i) ==
    [modulePath        |-> ModulePath(i) \o <<"return">>,
     opensslConfigPath |-> ModulePath(i) \o <<"validate", "render", "returnConfig">>,
     isSupported       |-> <<"probe">> \o ModulePath(i) \o <<"return">>,
     register          |-> ModulePath(i) \o <<"dlopen", "return">>]

\* The import of index.js: version is that of core's package.json.
Import(i) ==
    /\ core[i] = None
    /\ core' = [core EXCEPT ![i] = disk["core"]]
    /\ UNCHANGED <<package, todo, snap, found, quiet, private>>

Call(i, f) ==
    /\ core[i] # None /\ todo[i] = <<>>
    /\ todo' = [todo EXCEPT ![i] = Steps(i)[f]]
    /\ quiet' = [quiet EXCEPT ![i] = TRUE]
    /\ UNCHANGED <<package, core, snap, found, private>>

At(i, step) == todo[i] # <<>> /\ Head(todo[i]) = step
Proceed(i) == todo' = [todo EXCEPT ![i] = Tail(@)] /\ UNCHANGED quiet

\* The call ends.
End(i) ==
    /\ todo' = [todo EXCEPT ![i] = <<>>]
    /\ quiet' = [quiet EXCEPT ![i] = FALSE]

\* The call ends with an exception.
Refuse(i) ==
    /\ End(i)
    /\ snap' = IF Cached(i) THEN snap ELSE [snap EXCEPT ![i] = Unread]

\* runtimeCapabilityFailure(): the runtime can load keys from URLs, or not.
Probe(i) ==
    /\ At(i, "probe")
    /\ Proceed(i) \/ End(i)
    /\ UNCHANGED <<package, core, snap, found, private>>

\* snapshot(), of the manifest, which must be complete and of core's version ...
ReadManifest(i) ==
    /\ At(i, "readManifest")
    /\ IF disk["manifest"] = core[i]
       THEN snap' = [snap EXCEPT ![i]["manifest"] = core[i]] /\ Proceed(i)
       ELSE Refuse(i)
    /\ UNCHANGED <<package, core, found, private>>

\* ... and of the other two, which are read as they are, if they are there.
ReadFile(i, f) ==
    /\ At(i, [module |-> "readModule", config |-> "readConfig"][f])
    /\ \/ snap' = [snap EXCEPT ![i][f] = disk[f]] /\ Proceed(i)
       \/ disk[f] \in Partial /\ Refuse(i)
    /\ UNCHANGED <<package, core, found, private>>

\* validateSnapshot(), of the three
Validate(i) ==
    /\ At(i, "validate")
    /\ IF \A f \in Files : disk[f] = snap[i][f] THEN Proceed(i) ELSE End(i)
    /\ UNCHANGED <<package, core, snap, found, private>>

\* (slip) a private file that is there is taken as it is
WriteUncompared(i, f) ==
    private' = [private EXCEPT ![f] = IF @ = None THEN snap[i][f] ELSE @]

\* writePrivateFile(), as RuntimeFiles has it: the file is created, or is there
\* with the same bytes; or the call is refused (FileFails).
WritePrivateFile(i, f) ==
    /\ private[f] \in {None, snap[i][f]}
    /\ private' = [private EXCEPT ![f] = snap[i][f]]

\* resolveModule(): a module inside an archive is copied out of it.
ResolveModule(i) ==
    /\ At(i, "resolveModule")
    /\ IF archive THEN WritePrivateFile(i, "module") ELSE UNCHANGED private
    /\ found' = [found EXCEPT ![i] = TRUE]
    /\ Proceed(i)
    /\ UNCHANGED <<package, core, snap>>

\* validatePrivateFile() of a module that was copied
ValidateModule(i) ==
    /\ At(i, "validateModule")
    /\ archive => private["module"] = snap[i]["module"]
    /\ Proceed(i)
    /\ UNCHANGED <<package, core, snap, found, private>>

\* renderConfig(), and the private config that is written, or validated.  An
\* incomplete template may have its line, or not (FileFails).
Render(i) ==
    /\ At(i, "render")
    /\ WritePrivateFile(i, "config")
    /\ Proceed(i)
    /\ UNCHANGED <<package, core, snap, found>>

\* The template has not the one line; the private file has other bytes, or
\* cannot be made or read.
FileFails(i) ==
    /\ \/ At(i, "render")
       \/ archive /\ (At(i, "resolveModule") \/ At(i, "validateModule"))
    /\ End(i)
    /\ UNCHANGED <<package, core, snap, found, private>>

\* What is at the path of the module
AtPath == IF archive THEN private["module"] ELSE disk["module"]

\* process.dlopen(), and what Registration has; a path that the process has
\* loaded before is not loaded again, whatever is there now.
Dlopen(i) ==
    /\ At(i, "dlopen")
    /\ Proceed(i) \/ End(i)
    /\ UNCHANGED <<package, core, snap, found, private>>

\* The path is returned.
Return(i) ==
    /\ At(i, "return") \/ At(i, "returnConfig")
    /\ End(i)
    /\ UNCHANGED <<package, core, snap, found, private>>

Next ==
    \/ \E i \in Isolates :
          \/ Import(i) \/ Probe(i) \/ ReadManifest(i)
          \/ ReadFile(i, "module") \/ ReadFile(i, "config") \/ Validate(i)
          \/ ResolveModule(i) \/ ValidateModule(i) \/ Render(i) \/ FileFails(i)
          \/ Dlopen(i) \/ Return(i)
          \/ \E f \in DOMAIN Steps(i) : Call(i, f)
    \/ \E v \in Versions : Install(v)
    \/ \E f \in DOMAIN disk : Replace(f)
    \/ InstallEnds

Spec == Init /\ [][Next]_vars

-----------------------------------------------------------------------------
(***************************************************************************)
(* Properties                                                              *)
(***************************************************************************)
\* The types of the files, of npm's work and of every isolate's.
TypeOK ==
    /\ disk \in [Files \cup {"core"} -> Bytes]
    /\ installing \in Versions \cup {None} /\ installs \in 0..MaxInstalls
    /\ archive \in BOOLEAN
    /\ core \in [Isolates -> Versions \cup {None}]
    /\ todo \in [Isolates -> Seq(StepNames)]
    /\ snap \in [Isolates -> [Files -> Bytes \cup {None}]]
    /\ found \in [Isolates -> BOOLEAN]
    /\ private \in [{"module", "config"} -> Bytes \cup {None}]
    /\ quiet \in [Isolates -> BOOLEAN]

\* A path that modulePath() returns or register() loads has the module, and the
\* config is made of the template, that are in the installed package, and the
\* package has the version of the core package that asks, by its manifest:
\* whatever has been installed, in part or as a whole, since this isolate or
\* another read the package, unless a file is replaced during the call itself
\* (index.js:541, "Throws if it cannot be found or verified").  Of a package
\* that is all of one version, what is handed out is therefore of core's
\* version.  Of one that npm has left half installed it is whatever lies
\* beside core's manifest: index.js:188 compares no version but the manifest's.
VerifiedBytes ==
    \A i \in Isolates :
        quiet[i] /\ (At(i, "dlopen") \/ At(i, "return") \/ At(i, "returnConfig")) =>
            /\ disk["manifest"] = core[i]
            /\ AtPath = disk["module"]
            /\ At(i, "returnConfig") => private["config"] = disk["config"]

\* The config, and a module that is copied out of an archive, are shared by all
\* isolates (index.js:573): each that is given the path has verified the bytes
\* that are there, one that has read another package included.
SharedFilesAgree ==
    \A i \in Isolates :
        /\ archive /\ (At(i, "return") \/ At(i, "dlopen")) =>
              private["module"] = snap[i]["module"]
        /\ At(i, "returnConfig") => private["config"] = snap[i]["config"]

===============================================================================
