---------------------------- MODULE ReleaseAssembly ----------------------------
(***************************************************************************)
(* assembleRelease (scripts/lib/npm-packaging.mjs) makes the files of a    *)
(* release out of the native archives of the targets: it verifies every    *)
(* archive, packs the core package and a satellite package per target in a *)
(* directory of its own, copies the archives beside them, and renames the  *)
(* directory to the output.  Several may run at once, be killed and be run *)
(* again, an archive may be built anew meanwhile, and somebody else may    *)
(* use the output directory.                                               *)
(*                                                                         *)
(* An archive is the build that made it and a kind: it is sound, or it is  *)
(* stale, its check.mjs, INSTALL.md and legal files being those of an old  *)
(* tree, or it lacks a file, or its module is the stub's or another        *)
(* target's.  The tree itself is not edited while an assembly runs.        *)
(***************************************************************************)
EXTENDS Naturals, Sequences, SequencesExt

CONSTANTS
    Assemblers,   \* processes that run assembleRelease on the same directories
    Order,        \* the targets, in their order
    CoreName,     \* the core package
    Tree,         \* the files of the tree at hand
    Absent,
    MaxBuilds     \* bound: archives built while assemblies run

ASSUME AssemblyAssumption ==
    /\ Order \in Seq(Range(Order)) /\ IsInjective(Order) /\ Len(Order) >= 1
    /\ CoreName \notin Range(Order)
    /\ Absent \notin Assemblers
    /\ MaxBuilds \in Nat

VARIABLES
    step,     \* step[a]: the step of assembler a; "idle", "done", "failed": it has
              \* thrown, returned, or thrown because it could not clean up
    at,       \* at[a]: the position of the target it is at
    source,   \* source[a][t]: what verifyReleaseArchives has read of t's archive
    temp,     \* temp[a]: the files of its .awskms-release. directory, or Absent
    work,     \* work[a]: its awskms-release-pack. directory exists
    archive,  \* archive[t]: the archive of t in the artifacts directory
    builds,   \* how many archives have been built anew
    out       \* the output directory: who made its files, and these

assemblyVars == <<step, at, source, temp, work, archive, builds, out>>

TargetSet == Range(Order)
Kinds == {"sound", "stale", "incomplete", "misfit"}
Unread == [bytes |-> Absent, module |-> Absent, config |-> Absent]
NoOutput == [by |-> Absent, files |-> Absent]
Empty == [by |-> Absent, files |-> <<>>]

AssemblyInit ==
    /\ step = [a \in Assemblers |-> "idle"] /\ at = [a \in Assemblers |-> 1]
    /\ source = [a \in Assemblers |-> [t \in TargetSet |-> Unread]]
    /\ temp = [a \in Assemblers |-> Absent] /\ work = [a \in Assemblers |-> FALSE]
    /\ archive = [t \in TargetSet |-> [build |-> 0, kind |-> "sound"]]
    /\ builds = 0
    /\ out \in {NoOutput, Empty}

Proceed(a, next) == step' = [step EXCEPT ![a] = next]
Current(a) == Order[at[a]]

\* The steps inside the try, and all that may throw
Guarded == {"core", "satellite", "copy", "sums", "exists", "rmdir", "rename"}
InProgress ==
    {"archive", "inventory", "module", "config", "project", "output", "mkdtemp"} \cup Guarded

\* It throws; inside the try, what it has made is removed next.
Throw(a) ==
    /\ Proceed(a, IF step[a] \in Guarded THEN "clean" ELSE "idle")
    /\ at' = [at EXCEPT ![a] = 1]

\* The loop over the targets is done, or goes on at first.
NextTarget(a, first, afterwards) ==
    IF at[a] = Len(Order)
    THEN at' = [at EXCEPT ![a] = 1] /\ Proceed(a, afterwards)
    ELSE at' = [at EXCEPT ![a] = @ + 1] /\ Proceed(a, first)

-----------------------------------------------------------------------------
(***************************************************************************)
(* verifyReleaseArchives                                                   *)
(***************************************************************************)
Start(a) ==
    /\ step[a] \in {"idle", "killed", "failed"}
    /\ Proceed(a, "archive")
    /\ source' = [source EXCEPT ![a] = [t \in TargetSet |-> Unread]]
    /\ temp' = [temp EXCEPT ![a] = Absent] /\ work' = [work EXCEPT ![a] = FALSE]
    /\ at' = [at EXCEPT ![a] = 1]
    /\ UNCHANGED <<archive, builds, out>>

\* The archive is read whole, ...
ReadArchive(a) ==
    /\ step[a] = "archive"
    /\ source' = [source EXCEPT ![a][Current(a)].bytes = archive[Current(a)]]
    /\ Proceed(a, "inventory")
    /\ UNCHANGED <<at, temp, work, archive, builds, out>>

\* ... then tar lists its files, which must be those of the target's archive, ...
CheckInventory(a) ==
    /\ step[a] = "inventory"
    /\ IF archive[Current(a)].kind = "incomplete" THEN Throw(a)
       ELSE Proceed(a, "module") /\ UNCHANGED at
    /\ UNCHANGED <<source, temp, work, archive, builds, out>>

\* What tar reads of the archive as it is now; a module is taken with its kind,
\* for its header is looked at later.
TarEntry(t) == [build |-> archive[t].build, kind |-> archive[t].kind]

\* ... it reads the module, ...
ReadModule(a) ==
    /\ step[a] = "module"
    /\ source' = [source EXCEPT ![a][Current(a)].module = TarEntry(Current(a))]
    /\ Proceed(a, "config")
    /\ UNCHANGED <<at, temp, work, archive, builds, out>>

\* The module that was read is the AWS one of the version, for the target.
ModuleFits(read) == read.module.kind # "misfit"

\* ... and the config, ...
ReadConfig(a) ==
    /\ step[a] = "config"
    /\ source' = [source EXCEPT ![a][Current(a)].config = TarEntry(Current(a)).build]
    /\ IF ModuleFits(source[a][Current(a)])
       THEN Proceed(a, "project") /\ UNCHANGED at
       ELSE Throw(a)
    /\ UNCHANGED <<temp, work, archive, builds, out>>

\* ... and the files that must be the tree's, by tar again.
CompareProject(a) ==
    /\ step[a] = "project"
    /\ IF archive[Current(a)].kind # "stale"
       THEN NextTarget(a, "archive", "output")
       ELSE Throw(a)
    /\ UNCHANGED <<source, temp, work, archive, builds, out>>

-----------------------------------------------------------------------------
(***************************************************************************)
(* assembleRelease                                                         *)
(***************************************************************************)
\* The output directory is absent or empty; then the directory to pack in is made.
CheckOutput(a) ==
    /\ step[a] = "output"
    /\ IF out \in {NoOutput, Empty}
       THEN /\ work' = [work EXCEPT ![a] = TRUE]
            /\ Proceed(a, "mkdtemp") /\ UNCHANGED at
       ELSE Throw(a) /\ UNCHANGED work
    /\ UNCHANGED <<source, temp, archive, builds, out>>

\* The directory beside the output; only from here on will anything be removed.
MakeTemp(a) ==
    /\ step[a] = "mkdtemp"
    /\ temp' = [temp EXCEPT ![a] = <<>>]
    /\ Proceed(a, "core")
    /\ UNCHANGED <<at, source, work, archive, builds, out>>

\* moveFile, and copyFileSync
WithFile(a, name, content) ==
    temp' = [temp EXCEPT ![a] =
                [n \in DOMAIN @ \cup {name} |-> IF n = name THEN content ELSE @[n]]]

\* stageCore: nine files of the tree
CorePackage == [tree |-> Tree]

\* The manifest and the README of a target, from the templates of the tree
Rendered(t) == [target |-> t, tree |-> Tree]

\* stageSatellite: these, the module and the config that were read, and the legal
\* files of the tree
SatellitePackage(t, read) ==
    [manifest |-> Rendered(t), module |-> read.module.build,
     config |-> read.config, tree |-> Tree]

Npm(name) == <<"npm", name>>
Native(t) == <<"native", t>>
SumsName == <<"file", "SHA256SUMS">>

\* npm pack of what has been staged, into a tarball of the name of the package,
\* which is compared with it and moved
Pack(a, name, content) == WithFile(a, Npm(name), content)

\* The core package is packed.
PackCore(a) ==
    /\ step[a] = "core"
    /\ Pack(a, CoreName, CorePackage)
    /\ Proceed(a, "satellite")
    /\ UNCHANGED <<at, source, work, archive, builds, out>>

\* A satellite is packed.
PackSatellite(a) ==
    /\ step[a] = "satellite"
    /\ Pack(a, Current(a), SatellitePackage(Current(a), source[a][Current(a)]))
    /\ Proceed(a, "copy")
    /\ UNCHANGED <<at, source, work, archive, builds, out>>

\* (slip) the copy is not compared
CopyUncompared(a) ==
    /\ step[a] = "copy"
    /\ WithFile(a, Native(Current(a)), archive[Current(a)])
    /\ NextTarget(a, "satellite", "sums")
    /\ UNCHANGED <<source, work, archive, builds, out>>

\* The archive is copied, and the copy compared with what was read of it first.
CopyArchive(a) ==
    /\ step[a] = "copy"
    /\ WithFile(a, Native(Current(a)), archive[Current(a)])
    /\ IF archive[Current(a)] = source[a][Current(a)].bytes
       THEN NextTarget(a, "satellite", "sums")
       ELSE Throw(a)
    /\ UNCHANGED <<source, work, archive, builds, out>>

TarballNames ==
    {Npm(name) : name \in TargetSet \cup {CoreName}} \cup {Native(t) : t \in TargetSet}
Checksums(files) == [n \in TarballNames |-> files[n]]

\* The checksums of eleven tarballs, and validateReleaseOutput
WriteSums(a) ==
    /\ step[a] = "sums"
    /\ WithFile(a, SumsName, Checksums(temp[a]))
    /\ Proceed(a, "exists")
    /\ UNCHANGED <<at, source, work, archive, builds, out>>

\* existsSync of the output
OutputExists(a) ==
    /\ step[a] = "exists"
    /\ Proceed(a, IF out = NoOutput THEN "rename" ELSE "rmdir")
    /\ UNCHANGED <<at, source, temp, work, archive, builds, out>>

\* (slip) whatever is there is removed
RemoveRecursively(a) ==
    /\ step[a] = "rmdir"
    /\ out' = NoOutput
    /\ Proceed(a, "rename")
    /\ UNCHANGED <<at, source, temp, work, archive, builds>>

\* rmdirSync removes an empty directory, and nothing else.
RemoveEmpty(a) ==
    /\ step[a] = "rmdir"
    /\ IF out = Empty
       THEN out' = NoOutput /\ Proceed(a, "rename") /\ UNCHANGED at
       ELSE Throw(a) /\ UNCHANGED out
    /\ UNCHANGED <<source, temp, work, archive, builds>>

\* renameSync of a directory, which replaces an empty one and no other
Rename(a) ==
    /\ step[a] = "rename"
    /\ IF out \in {NoOutput, Empty}
       THEN /\ out' = [by |-> a, files |-> temp[a]]
            /\ temp' = [temp EXCEPT ![a] = Absent]
            /\ Proceed(a, "removed") /\ UNCHANGED at
       ELSE Throw(a) /\ UNCHANGED <<out, temp>>
    /\ UNCHANGED <<source, work, archive, builds>>

\* What has been read is not used any more, or gone with its process.
Forget(a) == source' = [source EXCEPT ![a] = [t \in TargetSet |-> Unread]]

\* (slip) an assembly that has not been completed is not cleaned up after
RemoveWorkOnly(a) ==
    /\ step[a] \in {"removed", "clean"}
    /\ work' = [work EXCEPT ![a] = FALSE]
    /\ Proceed(a, IF step[a] = "clean" THEN "idle" ELSE "done")
    /\ Forget(a)
    /\ UNCHANGED <<at, temp, archive, builds, out>>

\* finally, the directory to pack in is removed, of a release that is complete and
\* of one that is not; or rmSync throws, and the rest of the block is left out.
RemoveWork(a) ==
    /\ step[a] \in {"removed", "clean"}
    /\ \/ /\ work' = [work EXCEPT ![a] = FALSE]
          /\ Proceed(a, IF step[a] = "clean" THEN "discard" ELSE "done")
       \/ Proceed(a, "failed") /\ UNCHANGED work
    /\ Forget(a)
    /\ UNCHANGED <<at, temp, archive, builds, out>>

\* The directory beside the output is removed of one that is not; or rmSync throws.
RemoveTemp(a) ==
    /\ step[a] = "discard"
    /\ \/ temp' = [temp EXCEPT ![a] = Absent] /\ Proceed(a, "idle")
       \/ Proceed(a, "failed") /\ UNCHANGED temp
    /\ UNCHANGED <<at, source, work, archive, builds, out>>

\* A policy refuses an archive, npm pack or a system call fails.
AssemblyFails(a) ==
    /\ step[a] \in InProgress
    /\ Throw(a)
    /\ UNCHANGED <<source, temp, work, archive, builds, out>>

\* The process is killed: nothing is cleaned up.
Kill(a) ==
    /\ step[a] \in InProgress \cup {"removed", "clean", "discard"}
    /\ Proceed(a, "killed") /\ Forget(a)
    /\ UNCHANGED <<at, temp, work, archive, builds, out>>

-----------------------------------------------------------------------------
(***************************************************************************)
(* Others                                                                  *)
(***************************************************************************)
\* An archive is replaced by another build, of any kind.
Rebuild(t) ==
    /\ builds < MaxBuilds /\ builds' = builds + 1
    /\ \E kind \in Kinds :
          archive' = [archive EXCEPT ![t] = [build |-> builds', kind |-> kind]]
    /\ UNCHANGED <<step, at, source, temp, work, out>>

\* Somebody makes the output directory, or puts a file in it.
UseOutput ==
    /\ out' \in (IF out = NoOutput THEN {Empty}
                 ELSE IF out = Empty THEN {[by |-> Absent, files |-> <<CoreName>>]}
                 ELSE {})
    /\ UNCHANGED <<step, at, source, temp, work, archive, builds>>

AssemblerStep(a) ==
    \/ Start(a) \/ ReadArchive(a) \/ CheckInventory(a) \/ ReadModule(a)
    \/ ReadConfig(a) \/ CompareProject(a) \/ CheckOutput(a) \/ MakeTemp(a)
    \/ PackCore(a) \/ PackSatellite(a) \/ CopyArchive(a) \/ WriteSums(a)
    \/ OutputExists(a) \/ RemoveEmpty(a) \/ Rename(a)
    \/ RemoveWork(a) \/ RemoveTemp(a) \/ AssemblyFails(a) \/ Kill(a)

AssemblyNext ==
    \/ \E a \in Assemblers : AssemblerStep(a)
    \/ \E t \in TargetSet : Rebuild(t)
    \/ UseOutput

AssemblySpec == AssemblyInit /\ [][AssemblyNext]_assemblyVars

-----------------------------------------------------------------------------
(***************************************************************************)
(* Properties                                                              *)
(***************************************************************************)
Archives == [build : 0..MaxBuilds, kind : Kinds]

\* What has been read of an archive; from its config only the build is kept.
Reads ==
    [bytes : Archives \cup {Absent}, module : Archives \cup {Absent},
     config : 0..MaxBuilds \cup {Absent}]

AssemblerSteps ==
    InProgress \cup {"idle", "killed", "removed", "clean", "discard", "done", "failed"}

\* The types of the assemblers, of the archives and of the output
AssemblyTypeOK ==
    /\ step \in [Assemblers -> AssemblerSteps] /\ at \in [Assemblers -> 1..Len(Order)]
    /\ source \in [Assemblers -> [TargetSet -> Reads]]
    /\ temp = [a \in Assemblers |-> temp[a]]
    /\ work \in [Assemblers -> BOOLEAN]
    /\ archive \in [TargetSet -> Archives] /\ builds \in 0..MaxBuilds
    /\ out = [by |-> out.by, files |-> out.files] /\ out.by \in Assemblers \cup {Absent}

\* A release is made of one tree, and of one build for each target: its satellite
\* has the module and the config of its archive, and that archive is sound, each
\* check of it having read the file anew.
Consistent(files) ==
    /\ DOMAIN files = TarballNames \cup {SumsName}
    /\ files[SumsName] = Checksums(files)
    /\ files[Npm(CoreName)].tree = Tree
    /\ \A t \in TargetSet :
          LET package == files[Npm(t)]
              native  == files[Native(t)]
          IN  /\ package.module = native.build /\ package.config = native.build
              /\ package.manifest.target = t
              /\ native.kind = "sound"

\* The output is never a part of a release, and no mixture of what was replaced
\* while it was read ("exact twelve-file payload from unchanged archives").
OutputWhole == out.by \in Assemblers => Consistent(out.files)

\* assembleRelease "never clobbers output": what has come to be in the directory,
\* by another assembler or anybody else, stays.
NeverClobbers == [][out \notin {NoOutput, Empty} => UNCHANGED out]_assemblyVars

\* An assembler that has ended has left nothing beside the output, unless it was
\* killed or could not remove one of its directories (npm-packaging.mjs:955, whose
\* exception leaves out line 956 too).  One that returns has made the release that
\* is there and has left no directory to pack in; and of a release that has been
\* made nothing is left beside it, in whatever way its assembler ends, so that
\* whoever is told of a failure finds the whole release or none of it there.
EndsCleanly ==
    \A a \in Assemblers :
        /\ step[a] \in {"idle", "done"} => temp[a] = Absent
        /\ step[a] = "done" => out.by = a /\ ~ work[a]
        /\ out.by = a => temp[a] = Absent
===============================================================================
