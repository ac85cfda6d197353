--------------------------- MODULE ReleaseLifecycle ---------------------------
(***************************************************************************)
(* The release of one version: scripts/release-lifecycle.mjs as the jobs   *)
(* of .github/workflows/release.yml call it.  An attempt of the workflow   *)
(* runs its jobs in order and may stop anywhere; a maintainer runs it      *)
(* again from any job whose predecessors have succeeded.  What outlives an *)
(* attempt is the payload artifact of the workflow run, the packages       *)
(* staged or published on npm, which maintainers approve or reject when    *)
(* they please, and the GitHub Release.                                    *)
(*                                                                         *)
(* A file is what it is made of: a package or an archive of a target is    *)
(* the build of that target, SHA256SUMS is all the builds, the attestation *)
(* bundle the builds it attests and its own number, since no two Sigstore  *)
(* bundles are equal.                                                      *)
(***************************************************************************)
EXTENDS Naturals, Sequences, FiniteSets

CONSTANTS
    Targets,     \* the platforms a release is built for
    Core,        \* the package that depends on those of the targets
    Builds,      \* what compiling the tagged commit for a target may give
    Corrupt,     \* the bytes of a damaged upload
    None,
    MaxAttests,  \* bound: how often the payload is attested
    MaxPolls     \* the polls of the registry that fit before the deadline

ASSUME LifecycleAssumption ==
    /\ Core \notin Targets /\ None # Core
    /\ None \notin Builds /\ Core \notin Builds /\ Corrupt \notin Builds
    /\ MaxAttests \in Nat /\ MaxPolls \in Nat \ {0}

VARIABLES
    pc,         \* the step of the running attempt, or "idle"
    passed,     \* how many of the jobs have succeeded, in order
    staged,     \* the packages whose job of the matrix has succeeded
    native,     \* native[t]: the build in the run's awskms-t artifact, or None
    artifacts,  \* the nonexpired release-payload artifacts of the run
    attests,    \* how many bundles have been made
    payload,    \* the payload the running job works on, or None
    prior,      \* that of an earlier attempt, in the job that assembles, or None
    left,       \* what the job still has to stage, to poll or to upload
    exact,      \* the packages this poll has found published as they should be
    polls,      \* the polls that are left
    npm,        \* npm[p]: [state, bytes] of package p
    github,     \* the GitHub Release of the tag, or None
    calm        \* from here on no call fails, and maintainers only approve and re-run

jobVars   == <<passed, staged, native>>
localVars == <<payload, prior, left, exact, polls>>
storeVars == <<artifacts, attests>>
vars == <<pc, jobVars, localVars, storeVars, npm, github, calm>>

Packages == Targets \cup {Core}

\* Where each job of an attempt begins
Entry == <<"build", "find", "stage", "fetch", "get">>

Init ==
    /\ pc = "idle" /\ passed = 0 /\ staged = {}
    /\ native = [t \in Targets |-> None]
    /\ artifacts = {} /\ attests = 0
    /\ payload = None /\ prior = None
    /\ left = {} /\ exact = {} /\ polls = 0
    /\ npm = [p \in Packages |-> [state |-> "absent", bytes |-> None]]
    /\ github = None
    /\ calm = FALSE

-----------------------------------------------------------------------------
(***************************************************************************)
(* Payloads                                                                *)
(***************************************************************************)
Sums == <<"file", "SHA256SUMS">>
Bundle == <<"file", "bundle">>
Foreign == <<"file", "foreign">>

\* expectedPayload: the tarballs, their checksums and their attestation
ExpectedPayload ==
    ({"npm"} \X Packages) \cup ({"native"} \X Targets) \cup {Sums, Bundle}

PackageBytes(p, build) == IF p = Core THEN Core ELSE build[p]

\* The bytes of the file called name of payload pl
Content(pl, name) ==
    CASE name[1] = "npm"    -> PackageBytes(name[2], pl.build)
      [] name[1] = "native" -> pl.build[name[2]]
      [] name = Sums        -> pl.build
      [] OTHER              -> pl.bundle

\* inspectAttestationBundle: the subjects of the bundle are the tarballs.
Attests(bundle, pl) == bundle.of = pl.build

\* inspectPayload: a bundle exactly when one is due
Inspected(pl, attested) ==
    /\ attested <=> pl.bundle # None
    /\ attested => Attests(pl.bundle, pl)

\* comparePayloads, but for the bundle, which has been copied
SamePayload(one, other) ==
    \A name \in ExpectedPayload \ {Bundle} : Content(one, name) = Content(other, name)

-----------------------------------------------------------------------------
(***************************************************************************)
(* Attempts and their jobs                                                 *)
(***************************************************************************)
Goto(step) == pc' = step

\* A job's runner is gone, when it ends; todo is for the next one.
Leave(todo) ==
    /\ payload' = None /\ prior' = None
    /\ left' = todo /\ exact' = {} /\ polls' = 0

\* A step fails, and with it the job and the attempt.
Stop == Goto("idle") /\ Leave({}) /\ UNCHANGED jobVars

\* The running job has succeeded; the next one begins, on a runner of its own.
Pass ==
    /\ passed' = passed + 1
    /\ Goto(IF passed' < Len(Entry) THEN Entry[passed' + 1] ELSE "idle")
    /\ Leave(IF passed' = 2 THEN Packages \ staged ELSE {})
    /\ UNCHANGED staged

\* The tag is pushed, or a maintainer runs the workflow again: all of it, what
\* has failed, or one job; with what depends on it.
Run(job) ==
    /\ pc = "idle" /\ job <= passed + 1 /\ job <= Len(Entry)
    /\ calm => job = passed + 1
    /\ Goto(Entry[job]) /\ passed' = job - 1
    /\ CASE job < 3 -> staged' = {}
         [] job = 3 /\ passed > 2 -> \E p \in staged : staged' = staged \ {p}
         [] OTHER -> UNCHANGED staged
    /\ Leave(IF job = 3 THEN Packages \ staged' ELSE {})
    /\ UNCHANGED <<native, storeVars, npm, github, calm>>

\* A call fails, a runner is lost, a job is cancelled or exceeds its time.
Fail ==
    /\ pc # "idle" /\ ~ calm
    /\ Stop
    /\ UNCHANGED <<storeVars, npm, github, calm>>

\* The ci job leaves the native archives; a build need not give the bytes the
\* last one gave.
Build ==
    /\ pc = "build"
    /\ native' \in [Targets -> Builds]
    /\ Pass
    /\ UNCHANGED <<storeVars, npm, github, calm>>

-----------------------------------------------------------------------------
(***************************************************************************)
(* The job that assembles and attests                                      *)
(***************************************************************************)
\* findPriorReleaseArtifact
FindPrior ==
    /\ pc = "find"
    /\ IF Cardinality(artifacts) > 1 THEN Stop
       ELSE /\ prior' \in (IF artifacts = {} THEN {None} ELSE artifacts)
            /\ Goto("assemble")
            /\ UNCHANGED <<jobVars, payload, left, exact, polls>>
    /\ UNCHANGED <<storeVars, npm, github, calm>>

\* The prior payload is downloaded, and dist/ assembled from the archives.
Assemble ==
    /\ pc = "assemble"
    /\ IF prior # None /\ prior \notin artifacts THEN Stop
       ELSE /\ payload' = [build |-> native, bundle |-> None]
            /\ Goto(IF prior = None THEN "attest" ELSE "lock")
            /\ UNCHANGED <<jobVars, prior, left, exact, polls>>
    /\ UNCHANGED <<storeVars, npm, github, calm>>

Attested(bundle) == [payload EXCEPT !.bundle = bundle]

\* reuseAttestationBundle and comparePayloads
ReuseAttestation ==
    /\ pc = "lock"
    /\ IF /\ Inspected(prior, TRUE) /\ Inspected(payload, FALSE)
          /\ SamePayload(prior, payload)
       THEN /\ payload' = Attested(prior.bundle)
            /\ Goto("delete")
            /\ UNCHANGED <<jobVars, prior, left, exact, polls>>
       ELSE Stop
    /\ UNCHANGED <<storeVars, npm, github, calm>>

\* The attest action and stageAttestationBundle
Attest ==
    /\ pc = "attest"
    /\ IF attests < MaxAttests
       THEN /\ attests' = attests + 1
            /\ payload' = Attested([of |-> payload.build, id |-> attests'])
            /\ Goto("delete")
            /\ UNCHANGED <<jobVars, prior, left, exact, polls>>
       ELSE Stop /\ UNCHANGED attests
    /\ UNCHANGED <<artifacts, npm, github, calm>>

\* upload-artifact overwrites: it deletes the artifact of that name, ...
DeleteArtifact ==
    /\ pc = "delete"
    /\ artifacts' = {}
    /\ Goto("save")
    /\ UNCHANGED <<jobVars, localVars, attests, npm, github, calm>>

\* ... and makes another.
SaveArtifact ==
    /\ pc = "save"
    /\ artifacts' = artifacts \cup {payload}
    /\ Pass /\ UNCHANGED native
    /\ UNCHANGED <<attests, npm, github, calm>>

\* The artifact is kept for thirty days.
Expire ==
    /\ artifacts # {} /\ ~ calm
    /\ artifacts' = {}
    /\ UNCHANGED <<pc, jobVars, localVars, attests, npm, github, calm>>

-----------------------------------------------------------------------------
(***************************************************************************)
(* npm                                                                     *)
(***************************************************************************)
AsNpm(state, p, build) == [state |-> state, bytes |-> PackageBytes(p, build)]

\* selectPackage: the package as the payload that was downloaded has it
SelectPackage(p) == {AsNpm("pending", p, pl.build) : pl \in artifacts}

\* One job of the matrix: the package is staged, or it is and the job fails all the
\* same; the job fails; or it is told that the version is published.  Whether the
\* action then succeeds is not for this repository to say; it fails while a stage
\* is pending.
Stage(p) ==
    /\ pc = "stage" /\ p \in left
    /\ left' = left \ {p}
    /\ \/ /\ npm[p].state = "absent"
          /\ \E selected \in SelectPackage(p) : npm' = [npm EXCEPT ![p] = selected]
          /\ staged' \in {staged \cup {p}} \cup (IF calm THEN {} ELSE {staged})
       \/ /\ npm[p].state = "published" /\ artifacts # {}
          /\ staged' = staged \cup {p}
          /\ UNCHANGED npm
       \/ /\ ~ calm \/ npm[p].state # "absent" \/ artifacts = {}
          /\ UNCHANGED <<npm, staged>>
    /\ UNCHANGED <<pc, passed, native, payload, prior, exact, polls, storeVars,
                   github, calm>>

StageDone ==
    /\ pc = "stage" /\ left = {}
    /\ IF staged = Packages THEN Pass /\ UNCHANGED native ELSE Stop
    /\ UNCHANGED <<storeVars, npm, github, calm>>

\* A maintainer decides; what is published stays.
Approve(p) ==
    /\ npm[p].state = "pending"
    /\ npm' = [npm EXCEPT ![p].state = "published"]
    /\ UNCHANGED <<pc, jobVars, localVars, storeVars, github, calm>>

Reject(p) ==
    /\ npm[p].state = "pending" /\ ~ calm
    /\ npm' = [npm EXCEPT ![p] = [state |-> "absent", bytes |-> None]]
    /\ UNCHANGED <<pc, jobVars, localVars, storeVars, github, calm>>

\* The job that waits downloads the payload.
WaitForNpm ==
    /\ pc = "fetch"
    /\ IF artifacts = {} THEN Stop
       ELSE /\ payload' \in artifacts
            /\ left' = Packages /\ exact' = {} /\ polls' = MaxPolls
            /\ Goto("poll")
            /\ UNCHANGED <<jobVars, prior>>
    /\ UNCHANGED <<storeVars, npm, github, calm>>

\* (slip) a package that is there is the one we have staged
PollAnyBytes(p) ==
    /\ pc = "poll" /\ p \in left
    /\ left' = left \ {p}
    /\ exact' = (IF npm[p].state = "published" THEN exact \cup {p} ELSE exact)
    /\ UNCHANGED <<pc, jobVars, payload, prior, polls, storeVars, npm, github,
                   calm>>

\* One of the requests of a poll, which are made at once: other bytes end the
\* job; an error, a time-out and a 404 leave the package pending.
Poll(p) ==
    /\ pc = "poll" /\ p \in left
    /\ \/ /\ npm[p] = AsNpm("published", p, payload.build)
          /\ exact' = exact \cup {p} /\ left' = left \ {p}
          /\ UNCHANGED <<pc, jobVars, payload, prior, polls>>
       \/ /\ npm[p].state = "published"
          /\ npm[p] # AsNpm("published", p, payload.build)
          /\ Stop
       \/ /\ calm => npm[p].state # "published"
          /\ left' = left \ {p}
          /\ UNCHANGED <<pc, jobVars, payload, prior, exact, polls>>
    /\ UNCHANGED <<storeVars, npm, github, calm>>

\* (slip) the deadline is not looked at
PollAgain ==
    /\ pc = "poll" /\ left = {}
    /\ IF exact = Packages THEN Pass /\ UNCHANGED native
       ELSE /\ left' = Packages /\ exact' = {}
            /\ UNCHANGED <<pc, jobVars, payload, prior, polls>>
    /\ UNCHANGED <<storeVars, npm, github, calm>>

\* The requests have all been answered.
PollDone ==
    /\ pc = "poll" /\ left = {}
    /\ IF exact = Packages THEN Pass /\ UNCHANGED native
       ELSE IF polls = 1 THEN Stop
       ELSE /\ polls' = polls - 1
            /\ left' = Packages /\ exact' = {}
            /\ UNCHANGED <<pc, jobVars, payload, prior>>
    /\ UNCHANGED <<storeVars, npm, github, calm>>

-----------------------------------------------------------------------------
(***************************************************************************)
(* publishGithubRelease                                                    *)
(***************************************************************************)
GetPayload ==
    /\ pc = "get"
    /\ IF artifacts = {} THEN Stop
       ELSE /\ payload' \in artifacts
            /\ Goto("view")
            /\ UNCHANGED <<jobVars, prior, left, exact, polls>>
    /\ UNCHANGED <<storeVars, npm, github, calm>>

Assets == DOMAIN github.assets

\* (slip) the names are compared and the bytes are not
VerifiedNames == Assets = ExpectedPayload

\* verifyRemoteAssets
Verified ==
    /\ Assets = ExpectedPayload
    /\ \A name \in Assets : github.assets[name] = Content(payload, name)

BeginUpload ==
    /\ Goto("put")
    /\ left' = ExpectedPayload
    /\ UNCHANGED <<jobVars, payload, prior, exact, polls>>

\* (slip) a release that is published is a draft like any other
ViewAsDraft ==
    /\ pc = "view"
    /\ IF github = None THEN Goto("create") /\ UNCHANGED <<jobVars, localVars>>
       ELSE IF Assets \subseteq ExpectedPayload THEN BeginUpload
       ELSE Stop
    /\ UNCHANGED <<storeVars, npm, github, calm>>

\* releaseView and what it decides
View ==
    /\ pc = "view"
    /\ IF github = None THEN Goto("create") /\ UNCHANGED <<jobVars, localVars>>
       ELSE IF ~ github.draft /\ Verified
       THEN Pass /\ UNCHANGED native
       ELSE IF github.draft /\ Assets \subseteq ExpectedPayload THEN BeginUpload
       ELSE Stop
    /\ UNCHANGED <<storeVars, npm, github, calm>>

\* gh release create --draft
Create ==
    /\ pc = "create"
    /\ github' = [draft |-> TRUE, assets |-> <<>>]
    /\ BeginUpload
    /\ UNCHANGED <<storeVars, npm, calm>>

\* (slip) gh release upload without --clobber refuses an asset that is there
KeepAsset(name) ==
    /\ pc = "put" /\ name \in left
    /\ github # None /\ name \in Assets
    /\ Stop
    /\ UNCHANGED <<storeVars, npm, github, calm>>

\* gh release upload --clobber removes an asset that is there, ...
Clobber(name) ==
    /\ pc = "put" /\ name \in left
    /\ github # None /\ name \in Assets
    /\ github' = [github EXCEPT !.assets =
                     [n \in Assets \ {name} |-> github.assets[n]]]
    /\ UNCHANGED <<pc, jobVars, localVars, storeVars, npm, calm>>

\* ... and puts ours in its place.
Put(name) ==
    /\ pc = "put" /\ name \in left
    /\ github # None /\ name \notin Assets
    /\ \E bytes \in {Content(payload, name)} \cup (IF calm THEN {} ELSE {Corrupt}) :
          github' = [github EXCEPT !.assets =
                        [n \in Assets \cup {name} |->
                            IF n = name THEN bytes ELSE github.assets[n]]]
    /\ left' = left \ {name}
    /\ UNCHANGED <<pc, jobVars, payload, prior, exact, polls, storeVars, npm, calm>>

\* The draft is looked at again, downloaded and compared.
VerifyUpload ==
    /\ pc = "put" /\ left = {}
    /\ IF github # None /\ Verified
       THEN Goto("publish") /\ UNCHANGED <<jobVars, localVars>>
       ELSE Stop
    /\ UNCHANGED <<storeVars, npm, github, calm>>

\* gh release edit --draft=false
Publish ==
    /\ pc = "publish" /\ github # None
    /\ github' = [github EXCEPT !.draft = FALSE]
    /\ Pass /\ UNCHANGED native
    /\ UNCHANGED <<storeVars, npm, calm>>

\* gh release upload, or edit, of a draft that is there no more
DraftGone ==
    /\ (pc = "put" /\ left # {}) \/ pc = "publish"
    /\ github = None
    /\ Stop
    /\ UNCHANGED <<storeVars, npm, github, calm>>

\* A maintainer discards the draft, ...
Discard ==
    /\ github # None /\ ~ calm
    /\ github.draft
    /\ github' = None
    /\ UNCHANGED <<pc, jobVars, localVars, storeVars, npm, calm>>

\* ... or adds a file to it, though not after it has been verified.
AddForeign ==
    /\ pc # "publish" /\ ~ calm
    /\ github # None
    /\ github.draft /\ Foreign \notin Assets
    /\ github' = [github EXCEPT !.assets =
                     [n \in Assets \cup {Foreign} |->
                         IF n = Foreign THEN Corrupt ELSE github.assets[n]]]
    /\ UNCHANGED <<pc, jobVars, localVars, storeVars, npm, calm>>

-----------------------------------------------------------------------------
CalmDown ==
    /\ ~ calm /\ calm' = TRUE
    /\ UNCHANGED <<pc, jobVars, localVars, storeVars, npm, github>>

\* What an attempt does of itself
Work ==
    \/ Build \/ FindPrior \/ Assemble \/ ReuseAttestation \/ Attest
    \/ DeleteArtifact \/ SaveArtifact
    \/ StageDone \/ WaitForNpm \/ PollDone
    \/ \E p \in Packages : Stage(p) \/ Poll(p)
    \/ GetPayload \/ View \/ Create \/ VerifyUpload \/ Publish \/ DraftGone
    \/ \E name \in ExpectedPayload : Clobber(name) \/ Put(name)

Next ==
    \/ Work
    \/ \E job \in DOMAIN Entry : Run(job)
    \/ \E p \in Packages : Approve(p) \/ Reject(p)
    \/ Fail \/ Expire \/ Discard \/ AddForeign \/ CalmDown

Fairness ==
    /\ WF_vars(Work)
    /\ WF_vars(calm /\ Run(passed + 1))
    /\ \A p \in Packages : WF_vars(calm /\ Approve(p))

Spec == Init /\ [][Next]_vars /\ Fairness
-----------------------------------------------------------------------------
(***************************************************************************)
(* Properties                                                              *)
(***************************************************************************)
Payloads ==
    LET build == [Targets -> Builds]
        bundle == [of : build, id : 1..MaxAttests]
    IN  [build : build, bundle : {None} \cup bundle]

Steps == {"idle", "assemble", "lock", "attest", "delete", "save", "poll", "view",
          "create", "put", "publish"} \cup {Entry[job] : job \in DOMAIN Entry}

\* The types of the variables; a payload of an earlier attempt is looked at only
\* where the new one is assembled.
TypeOK ==
    /\ pc \in Steps /\ passed \in 0..Len(Entry) /\ staged \subseteq Packages
    /\ native \in [Targets -> Builds \cup {None}]
    /\ artifacts \subseteq Payloads /\ Cardinality(artifacts) <= 1
    /\ attests \in 0..MaxAttests
    /\ payload \in Payloads \cup {None} /\ prior \in Payloads \cup {None}
    /\ prior # None => pc \in {"assemble", "lock", "delete", "save"}
    /\ left \subseteq Packages \cup ExpectedPayload
    /\ exact \subseteq Packages /\ polls \in 0..MaxPolls
    /\ npm \in [Packages -> [state : {"absent", "pending", "published"},
                             bytes : Builds \cup {Core, None}]]
    /\ github # None =>
          /\ github.draft \in BOOLEAN
          /\ Assets \subseteq ExpectedPayload \cup {Foreign}
    /\ calm \in BOOLEAN

Released == IF github = None THEN FALSE ELSE ~ github.draft

\* publishGithubRelease and waitForNpm, over all the attempts it takes: a public
\* release has every asset and no other, each package of it is on npm with the
\* same bytes, the archive of a target is the build its package carries, and
\* the checksums and the attestation are of those very bytes.
ReleasedExactly ==
    Released =>
        LET build == [t \in Targets |-> github.assets[<<"native", t>>]]
        IN  /\ Assets = ExpectedPayload
            /\ \A p \in Packages :
                  /\ npm[p] = AsNpm("published", p, build)
                  /\ github.assets[<<"npm", p>>] = npm[p].bytes
            /\ github.assets[Sums] = build
            /\ github.assets[Bundle].of = build

\* The attempts implement the promise of ReleaseService: what npm or GitHub has
\* published is never changed, by any later attempt, and GitHub follows npm.
Service == INSTANCE ReleaseService WITH
    AllBytes <- Builds \cup {Core},
    onNpm    <- [p \in Packages |->
                    IF npm[p].state = "published" THEN npm[p].bytes ELSE None],
    release  <- IF Released
                THEN [f \in Assets \ {Sums, Bundle} |-> github.assets[f]]
                ELSE None

ImplementsService == Service!ServiceSpec

\* Every attempt ends, whatever the registry answers and whether or not the
\* maintainers ever approve a stage (waitForNpm's deadline).
EveryAttemptEnds == pc # "idle" ~> pc = "idle"

\* What earlier attempts can leave behind and later ones still finish: the
\* payload is kept and need not be built again, npm has nothing else, nobody has
\* added to the draft, and npm has what the jobs that succeeded have staged and
\* nothing that a job still has to stage.
Recoverable ==
    \E pl \in artifacts :
        /\ passed >= 2 \/ (passed = 1 /\ native = pl.build)
        /\ \A p \in Packages :
              IF p \in staged THEN npm[p].bytes = PackageBytes(p, pl.build)
              ELSE npm[p].state = "absent"
        /\ IF github = None THEN TRUE
           ELSE github.draft /\ Assets \subseteq ExpectedPayload

\* Where earlier attempts have left stages pending, packages staged or published
\* in part, a draft with some assets, or damaged ones, running what has failed
\* again while the stages are approved ends with the release ("then rerun the
\* failed jobs", release-lifecycle.mjs:400; the --clobber of line 499).  Not so
\* where a version is published or pending whose job has not succeeded, since what
\* that job does then is not for this repository to say (release.yml:189-203); nor
\* where the ci job runs again, whose bytes may be others; nor where a stage has
\* been rejected after its job had succeeded.
RerunsRecover == calm /\ Recoverable ~> Released
===============================================================================
