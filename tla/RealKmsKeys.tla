------------------------------ MODULE RealKmsKeys ------------------------------
(***************************************************************************)
(* The keys of the tests against the real service                          *)
(* (scripts/real-kms-keys.mjs): setup creates one key per label (a role    *)
(* and a key spec) with concurrent workers, teardown and reap schedule the *)
(* deletion of keys, in two phases, and may be run again after a failure.  *)
(*                                                                         *)
(* A call of KMS is one action; it may fail, and a call that changes       *)
(* something may do so although its answer is lost.  Others use the same   *)
(* account: they move aliases, remove tags and lose manifests.  MaxTrouble *)
(* bounds how often any of that happens.                                   *)
(*                                                                         *)
(* The four tags of a key are one value: the label they were made for,     *)
(* OwnerOnly if just awskms-provider-test=1 can be relied on, Missing if   *)
(* not even that.                                                          *)
(***************************************************************************)
EXTENDS Naturals, FiniteSets

CONSTANTS
    Labels,      \* `${role}-${spec}` of the keys wanted
    Keys,        \* the keys of this account that carry, or may get, our tags
    Stray,       \* those an earlier run has left behind
    ForeignKey,  \* a key of somebody else
    Limit,       \* --concurrency
    MaxTrouble, MaxCleanups, \* bounds
    Missing, OwnerOnly, CorruptFile \* none of the above

ASSUME StrayAssumption == Stray \subseteq Keys /\ ForeignKey \notin Keys
ASSUME NamesAssumption ==
    /\ IsFiniteSet(Labels) /\ Missing \notin Labels /\ OwnerOnly \notin Labels
    /\ Missing \notin Keys /\ Missing # OwnerOnly
ASSUME LimitAssumption == Limit \in Nat \ {0}
ASSUME BoundsAssumption == MaxTrouble \in Nat /\ MaxCleanups \in Nat

VARIABLES
    keyState, \* KMS: the state of each key
    tags,     \* KMS: the tags of each key
    aliasOf,  \* KMS: the key the alias of each label names, or Missing
    manifest, \* the file: Missing, CorruptFile, or the key of each label
    worker,   \* setup: what has become of each label
    made,     \* setup: the key of each label whose creation was answered
    phase,    \* teardown: where it is
    expected, \* teardown: the tags each key must have; Missing if no target
    stage,    \* teardown: how far each target is
    aliasFailed, keyFailed,  \* teardown: the targets of the failures counted
    trouble, cleanups,       \* how much trouble, how many cleanups so far
    swept, ownedAtStart,     \* history: how the sweep was made, what there was
    moved, untagged          \* history: what others changed since the last look

kms == <<keyState, tags, aliasOf>>
setup == <<worker, made>>
locals == <<expected, stage, aliasFailed, keyFailed>>
history == <<swept, ownedAtStart, moved, untagged>>
keysVars == <<kms, manifest, setup, phase, locals, trouble, cleanups, history>>

Owned == {k \in Keys : keyState[k] \in {"enabled", "pending"} /\ tags[k] # Missing}

NoTargets == [k \in Keys |-> Missing]

KeysInit ==
    /\ keyState = [k \in Keys |-> IF k \in Stray THEN "enabled" ELSE "absent"]
    /\ tags = [k \in Keys |-> IF k \in Stray THEN OwnerOnly ELSE Missing]
    /\ aliasOf = [l \in Labels |-> Missing]
    /\ manifest = Missing
    /\ worker = [l \in Labels |-> "waiting"]
    /\ made = [l \in Labels |-> Missing]
    /\ phase = "idle"
    /\ expected = NoTargets /\ stage = [k \in Keys |-> "none"]
    /\ aliasFailed = {} /\ keyFailed = {}
    /\ trouble = 0 /\ cleanups = 0
    /\ swept = "no" /\ ownedAtStart = {}
    /\ moved = {} /\ untagged = {}

\* Something goes wrong in this step.
Trouble == trouble < MaxTrouble /\ trouble' = trouble + 1
Smooth == UNCHANGED trouble

-----------------------------------------------------------------------------
(***************************************************************************)
(* setup                                                                   *)
(***************************************************************************)
Becomes(l, state) == worker' = [worker EXCEPT ![l] = state]

Labelled(state) == {l \in Labels : worker[l] \in state}

\* mapLimit: a worker whose label failed takes no other, the rest go on.
FreeWorker ==
    Cardinality(Labelled({"create", "poll", "alias", "dead"})) < Limit

Fresh == {k \in Keys : keyState[k] = "absent"}

\* The tags are part of the request that creates the key.
Created(l, k) ==
    /\ k \in Fresh
    /\ keyState' = [keyState EXCEPT ![k] = "enabled"]
    /\ tags' = [tags EXCEPT ![k] = l]
    /\ UNCHANGED aliasOf

\* A label whose alias exists is refused.
RefuseAlias(l) ==
    /\ worker[l] = "waiting" /\ FreeWorker /\ aliasOf[l] # Missing
    /\ Becomes(l, "dead")
    /\ UNCHANGED <<kms, manifest, made, phase, locals, trouble, cleanups, history>>

\* withRetry: an error is retried if it is one of three, and not too often.
RetriesOrGivesUp(l) == Becomes(l, "create") \/ Becomes(l, "dead")

\* isUnsupportedSpec: a label this region has no keys for is passed over.
PassesOver(l) == Becomes(l, "unavailable")

\* A label is taken and its key created, under withRetry: a key may be created
\* although the answer is lost, and the retry then creates another.
CreateKey(l) ==
    /\ \/ worker[l] = "create"
       \/ worker[l] = "waiting" /\ FreeWorker /\ aliasOf[l] = Missing
    /\ \/ \E k \in Keys :
             /\ Created(l, k)
             /\ made' = [made EXCEPT ![l] = k]
             /\ Becomes(l, "poll") /\ Smooth
       \/ \E k \in Keys :
             /\ Created(l, k)
             /\ RetriesOrGivesUp(l)
             /\ Trouble /\ UNCHANGED made
       \/ /\ PassesOver(l) \/ Becomes(l, "dead")
          /\ Trouble /\ UNCHANGED <<kms, made>>
    /\ UNCHANGED <<manifest, phase, locals, cleanups, history>>

\* pollUntil the key is Enabled, or for too long
PollUntil(condition, l, state) ==
    Becomes(l, IF condition THEN state ELSE "dead")

PollKey(l) ==
    /\ worker[l] = "poll"
    /\ \/ PollUntil(keyState[made[l]] = "enabled", l, "alias") /\ Smooth
       \/ Becomes(l, "dead") /\ Trouble
    /\ UNCHANGED <<kms, manifest, made, phase, locals, cleanups, history>>

\* create-alias under withRetry: it fails if the alias exists, and that is what
\* a retry finds after a lost answer.
CreateAlias(l) ==
    /\ worker[l] = "alias"
    /\ LET usable == keyState[made[l]] = "enabled" /\ aliasOf[l] = Missing
           Aliased == usable /\ aliasOf' = [aliasOf EXCEPT ![l] = made[l]]
       IN  \/ Aliased /\ Becomes(l, "done") /\ Smooth
           \/ ~ usable /\ Becomes(l, "dead") /\ Smooth /\ UNCHANGED aliasOf
           \/ Becomes(l, "dead") /\ Trouble /\ (Aliased \/ UNCHANGED aliasOf)
    /\ UNCHANGED <<keyState, tags, manifest, made, phase, locals, cleanups, history>>

\* (slip) the manifest is written with what there is
SetupSettled == Labelled({"done", "unavailable", "dead"}) = Labels

\* Promise.all of the workers: the manifest is written if no label failed.
SetupSucceeded == Labelled({"done", "unavailable"}) = Labels

\* The file is written; a process killed meanwhile leaves half of it.
WriteManifest ==
    /\ SetupSucceeded
    /\ worker' = [l \in Labels |-> "written"]
    /\ \/ manifest' = [l \in Labels |-> IF worker[l] = "done" THEN made[l] ELSE Missing]
          /\ Smooth
       \/ manifest' \in {Missing, CorruptFile} /\ Trouble
    /\ UNCHANGED <<kms, made, phase, locals, cleanups, history>>

\* The process of setup is killed.
SetupKilled ==
    /\ Labelled({"dead", "written"}) # Labels
    /\ worker' = [l \in Labels |-> "dead"]
    /\ Trouble
    /\ UNCHANGED <<kms, manifest, made, phase, locals, cleanups, history>>

Setup ==
    \/ WriteManifest
    \/ SetupKilled
    \/ \E l \in Labels : RefuseAlias(l) \/ CreateKey(l) \/ PollKey(l) \/ CreateAlias(l)

-----------------------------------------------------------------------------
(***************************************************************************)
(* teardown: collecting targets                                            *)
(***************************************************************************)
\* collectTargets: the manifest's keys first, then what the sweep has found
TargetsOf(listed, found) ==
    [k \in Keys |->
        IF \E l \in Labels : listed[l] = k THEN CHOOSE l \in Labels : listed[l] = k
        ELSE IF k \in found THEN OwnerOnly ELSE Missing]

Running == phase \in {"preflight", "aliases", "keys"}

\* The process ends, and what it knew is gone.
End(how) ==
    /\ phase' = how
    /\ expected' = NoTargets /\ stage' = [k \in Keys |-> "none"]
    /\ aliasFailed' = {} /\ keyFailed' = {}
    /\ swept' = "no" /\ ownedAtStart' = {} /\ moved' = {} /\ untagged' = {}

HasManifest == manifest \notin {Missing, CorruptFile}

\* readManifest: optional only for a sweep over the implicit path
Unusable(sweep, explicit) == ~ HasManifest /\ ~ (sweep /\ ~ explicit)

Listed == IF HasManifest THEN manifest ELSE [l \in Labels |-> Missing]

\* sweepTagged: the tagging API, or else the tags of every key, where a key
\* whose tags cannot be listed is passed over
Sweep(how, found) ==
    \/ how = "no" /\ found = {} /\ Smooth
    \/ how = "api" /\ found = Owned /\ Smooth
    \/ how = "fallback" /\ Trouble
       /\ \E skipped \in SUBSET Owned :
             Cardinality(skipped) <= 1 /\ found = Owned \ skipped

\* teardown or reap is called, with or without --sweep and --manifest.
Begin(how, explicit) ==
    /\ ~ Running
    /\ cleanups < MaxCleanups /\ cleanups' = cleanups + 1
    /\ \/ Unusable(how # "no", explicit) /\ End("error") /\ Smooth
       \/ /\ ~ Unusable(how # "no", explicit)
          /\ \E found \in SUBSET Owned :
                LET targets == TargetsOf(Listed, found)
                IN  /\ Sweep(how, found)
                    /\ \/ targets = NoTargets /\ End("ok")
                       \/ /\ targets # NoTargets
                          /\ phase' = "preflight"
                          /\ expected' = targets
                          /\ stage' = [k \in Keys |->
                                 IF targets[k] = Missing THEN "none" ELSE "listed"]
                          /\ swept' = how /\ ownedAtStart' = Owned
                          /\ UNCHANGED <<aliasFailed, keyFailed, moved, untagged>>
    /\ UNCHANGED <<kms, manifest, setup>>

-----------------------------------------------------------------------------
(***************************************************************************)
(* teardown: the two phases                                                *)
(***************************************************************************)
At(k, from) == stage[k] = from
To(k, to) == stage' = [stage EXCEPT ![k] = to]

\* mapLimit: at most Limit targets are between the first and the last call.
FreeSlot ==
    Cardinality({k \in Keys : stage[k] \in {"tagged", "reverified", "rechecked", "due"}})
        < Limit

Exists(k) == keyState[k] \in {"enabled", "pending"}

\* verifyOwnedTarget: the tags the target is expected to have
TagsMatch(k) == tags[k] = expected[k] \/ (expected[k] = OwnerOnly /\ tags[k] # Missing)

FromManifest(k) == expected[k] \in Labels
AliasTarget(k) == aliasOf[expected[k]]

\* The target passes a check of the preflight.
Passes(k, to) == To(k, to) /\ UNCHANGED <<phase, expected, aliasFailed, keyFailed, history>>

PreflightTarget(k) ==
    /\ phase = "preflight" /\ At(k, "listed") /\ FreeSlot
    /\ \/ ~ Exists(k) /\ Passes(k, "absent") /\ Smooth
       \/ /\ Exists(k) /\ TagsMatch(k)
          /\ Passes(k, IF FromManifest(k) THEN "tagged" ELSE "plain") /\ Smooth
       \/ Exists(k) /\ ~ TagsMatch(k) /\ End("error") /\ Smooth
       \/ End("error") /\ Trouble
    /\ UNCHANGED <<kms, manifest, setup, cleanups>>

PreflightAlias(k) ==
    /\ phase = "preflight" /\ At(k, "tagged")
    /\ \/ AliasTarget(k) = Missing /\ Passes(k, "plain") /\ Smooth
       \/ AliasTarget(k) = k /\ Passes(k, "aliased") /\ Smooth
       \/ AliasTarget(k) \notin {Missing, k} /\ End("error") /\ Smooth
       \/ End("error") /\ Trouble
    /\ UNCHANGED <<kms, manifest, setup, cleanups>>

\* The await between two mapLimits: nobody is left in the first.
Barrier(before, from, to) ==
    /\ phase = before /\ phase' = to
    /\ \A k \in Keys : stage[k] \notin from
    /\ UNCHANGED <<kms, manifest, setup, expected, stage, aliasFailed,
                   keyFailed, trouble, cleanups, history>>

\* (slip) the aliases are deleted as their targets pass
StartAliasesAtOnce == Barrier("preflight", {"listed"}, "aliases")

StartAliases == Barrier("preflight", {"listed", "tagged"}, "aliases")
StartKeys == Barrier("aliases", {"aliased", "reverified", "rechecked"}, "keys")

\* The target is left to the key phase, with a failure counted or not.
AliasDone(k) == To(k, "plain") /\ UNCHANGED aliasFailed
AliasFails(k) == To(k, "plain") /\ aliasFailed' = aliasFailed \cup {k}

\* Of a key that has vanished the alias is described all the same, and only a
\* failure of that call makes a difference: it is that of the last disjunct.
ReverifyForAlias(k) ==
    /\ phase = "aliases" /\ At(k, "aliased") /\ FreeSlot
    /\ \/ ~ Exists(k) /\ AliasDone(k) /\ Smooth
       \/ Exists(k) /\ TagsMatch(k) /\ To(k, "reverified") /\ Smooth /\ UNCHANGED aliasFailed
       \/ Exists(k) /\ ~ TagsMatch(k) /\ AliasFails(k) /\ Smooth
       \/ AliasFails(k) /\ Trouble
    /\ untagged' = untagged \ {k} /\ moved' = moved \ {expected[k]}
    /\ UNCHANGED <<kms, manifest, setup, phase, expected, keyFailed,
                   cleanups, swept, ownedAtStart>>

\* (slip) what the preflight has seen is relied on
RecheckNothing(k) ==
    /\ phase = "aliases" /\ At(k, "reverified")
    /\ To(k, "rechecked") /\ Smooth
    /\ UNCHANGED <<kms, manifest, setup, phase, expected, aliasFailed,
                   keyFailed, cleanups, history>>

RecheckAlias(k) ==
    /\ phase = "aliases" /\ At(k, "reverified")
    /\ \/ AliasTarget(k) = Missing /\ AliasDone(k) /\ Smooth
       \/ AliasTarget(k) = k /\ To(k, "rechecked") /\ Smooth /\ UNCHANGED aliasFailed
       \/ AliasTarget(k) \notin {Missing, k} /\ AliasFails(k) /\ Smooth
       \/ AliasFails(k) /\ Trouble
    /\ moved' = moved \ {expected[k]}
    /\ UNCHANGED <<kms, manifest, setup, phase, expected, keyFailed,
                   cleanups, swept, ownedAtStart, untagged>>

\* delete-alias goes by the name, whatever it names by now.
DeleteAlias(k) ==
    /\ phase = "aliases" /\ At(k, "rechecked")
    /\ LET Deleted == aliasOf' = [aliasOf EXCEPT ![expected[k]] = Missing]
       IN  \/ Deleted /\ AliasDone(k) /\ Smooth
           \/ (Deleted \/ UNCHANGED aliasOf) /\ AliasFails(k) /\ Trouble
    /\ UNCHANGED <<keyState, tags, manifest, setup, phase, expected,
                   keyFailed, cleanups, history>>

\* (slip) a key whose alias failed is left alone
ReverifyUnlessAliasFailed(k) ==
    /\ phase = "keys" /\ At(k, "plain") /\ FreeSlot
    /\ To(k, IF Exists(k) /\ TagsMatch(k) /\ k \notin aliasFailed THEN "due" ELSE "done")
    /\ untagged' = untagged \ {k}
    /\ Smooth
    /\ UNCHANGED <<kms, manifest, setup, phase, expected, aliasFailed,
                   keyFailed, cleanups, swept, ownedAtStart, moved>>

ReverifyForKey(k) ==
    /\ phase = "keys" /\ At(k, "plain") /\ FreeSlot
    /\ LET Fails == To(k, "done") /\ keyFailed' = keyFailed \cup {k}
       IN  \/ ~ Exists(k) /\ To(k, "done") /\ Smooth /\ UNCHANGED keyFailed
           \/ Exists(k) /\ TagsMatch(k) /\ To(k, "due") /\ Smooth /\ UNCHANGED keyFailed
           \/ Exists(k) /\ ~ TagsMatch(k) /\ Fails /\ Smooth
           \/ Fails /\ Trouble
    /\ untagged' = untagged \ {k}
    /\ UNCHANGED <<kms, manifest, setup, phase, expected, aliasFailed,
                   cleanups, swept, ownedAtStart, moved>>

\* scheduleDeletion: pending already, or gone, is as good.
ScheduleDeletion(k) ==
    /\ phase = "keys" /\ At(k, "due") /\ To(k, "done")
    /\ LET Scheduled == keyState' = [keyState EXCEPT ![k] = IF @ = "enabled" THEN "pending" ELSE @]
       IN  \/ Scheduled /\ Smooth /\ UNCHANGED keyFailed
           \/ /\ Scheduled \/ UNCHANGED keyState
              /\ keyFailed' = keyFailed \cup {k} /\ Trouble
    /\ UNCHANGED <<tags, aliasOf, manifest, setup, phase, expected,
                   aliasFailed, cleanups, history>>

NoFailures == aliasFailed = {} /\ keyFailed = {}

Finish ==
    /\ phase = "keys"
    /\ \A k \in Keys : stage[k] \in {"none", "absent", "done"}
    /\ End(IF NoFailures THEN "ok" ELSE "error")
    /\ UNCHANGED <<kms, manifest, setup, trouble, cleanups>>

\* The process of teardown is killed.
TeardownKilled ==
    /\ Running
    /\ End("error") /\ Trouble
    /\ UNCHANGED <<kms, manifest, setup, cleanups>>

Teardown ==
    \/ StartAliases \/ StartKeys \/ Finish \/ TeardownKilled
    \/ \E how \in {"no", "api", "fallback"}, explicit \in BOOLEAN : Begin(how, explicit)
    \/ \E k \in Keys :
          \/ PreflightTarget(k) \/ PreflightAlias(k)
          \/ ReverifyForAlias(k) \/ RecheckAlias(k) \/ DeleteAlias(k)
          \/ ReverifyForKey(k) \/ ScheduleDeletion(k)

-----------------------------------------------------------------------------
(***************************************************************************)
(* The others                                                              *)
(***************************************************************************)
\* An alias is moved, to one of our keys or somebody else's, or deleted.
Repoint(l) ==
    /\ \E k \in {x \in Keys : keyState[x] = "enabled"} \cup {ForeignKey, Missing} :
          aliasOf' = [aliasOf EXCEPT ![l] = k]
    /\ aliasOf' # aliasOf
    /\ moved' = IF Running THEN moved \cup {l} ELSE {}
    /\ Trouble
    /\ UNCHANGED <<keyState, tags, manifest, setup, phase, locals, cleanups, swept,
                   ownedAtStart, untagged>>

\* Somebody takes a key over, or changes the tags of its run.
Untag(k) ==
    /\ \E tag \in {OwnerOnly, Missing} : tags' = [tags EXCEPT ![k] = tag]
    /\ tags[k] # Missing /\ tags' # tags
    /\ untagged' = IF Running THEN untagged \cup {k} ELSE {}
    /\ Trouble
    /\ UNCHANGED <<keyState, aliasOf, manifest, setup, phase, locals, cleanups, swept,
                   ownedAtStart, moved>>

\* The pending window of a key ends; its aliases go with it.
KeyGone(k) ==
    /\ keyState[k] = "pending"
    /\ keyState' = [keyState EXCEPT ![k] = "gone"]
    /\ aliasOf' = [l \in Labels |-> IF aliasOf[l] = k THEN Missing ELSE aliasOf[l]]
    /\ Trouble
    /\ UNCHANGED <<tags, manifest, setup, phase, locals, cleanups, history>>

\* The file is lost or damaged, as in another checkout.
LoseManifest ==
    /\ manifest \notin {Missing, CorruptFile}
    /\ manifest' \in {Missing, CorruptFile}
    /\ Trouble
    /\ UNCHANGED <<kms, setup, phase, locals, cleanups, history>>

Others ==
    \/ LoseManifest
    \/ \E l \in Labels : Repoint(l)
    \/ \E k \in Keys : Untag(k) \/ KeyGone(k)

KeysNext == Setup \/ Teardown \/ Others

KeysSpec == KeysInit /\ [][KeysNext]_keysVars

-----------------------------------------------------------------------------

\* Types, the bounds of mapLimit, and the barriers: a phase of a cleanup has
\* the targets of its own only (mapLimit, teardown).
KeysTypeOK ==
    /\ keyState \in [Keys -> {"absent", "enabled", "pending", "gone"}]
    /\ tags     \in [Keys -> Labels \cup {OwnerOnly, Missing}]
    /\ aliasOf  \in [Labels -> Keys \cup {ForeignKey, Missing}]
    /\ manifest \in {Missing, CorruptFile} \/ manifest \in [Labels -> Keys \cup {Missing}]
    /\ worker   \in [Labels -> {"waiting", "create", "poll", "alias", "done",
                                "unavailable", "dead", "written"}]
    /\ made     \in [Labels -> Keys \cup {Missing}]
    /\ phase    \in {"idle", "preflight", "aliases", "keys", "ok", "error"}
    /\ expected \in [Keys -> Labels \cup {OwnerOnly, Missing}]
    /\ stage    \in [Keys -> {"none", "listed", "tagged", "aliased", "plain", "absent",
                              "reverified", "rechecked", "due", "done"}]
    /\ aliasFailed \cup keyFailed \cup ownedAtStart \cup untagged \subseteq Keys
    /\ moved \subseteq Labels
    /\ Cardinality(Labelled({"create", "poll", "alias"})) <= Limit
    /\ \A k \in Keys :
          /\ stage[k] = "none" <=> expected[k] = Missing
          /\ stage[k] \in {"listed", "tagged"} => phase = "preflight"
          /\ stage[k] \in {"reverified", "rechecked"} => phase = "aliases" /\ FromManifest(k)
          /\ stage[k] \in {"due", "done"} => phase = "keys"

\* A cleanup changes nothing before every target has passed, deletes the alias
\* of a key of the manifest, and schedules a key, only as it has found them
\* tagged and named in its last look, even if others interfere between the
\* phases ("closes the ordinary tag/alias TOCTOU window", teardown).
TouchesOnlyItsOwn ==
    [][/\ \A k \in Keys :
             keyState[k] = "enabled" /\ keyState'[k] = "pending" =>
                /\ \A x \in Keys : stage[x] \notin {"listed", "tagged"}
                /\ expected[k] # Missing
                /\ TagsMatch(k) \/ k \in untagged
       /\ \A l \in Labels :
             aliasOf'[l] # aliasOf[l] /\ stage' # stage =>
                /\ \A x \in Keys : stage[x] \notin {"listed", "tagged"}
                /\ \E k \in Keys :
                      /\ expected[k] = l
                      /\ aliasOf[l] = k \/ l \in moved
                      /\ TagsMatch(k) \/ k \in untagged]_keysVars

\* Once the preflight is passed, a failure with one alias or one key withholds
\* no other: a cleanup that runs to its end leaves enabled the keys only that
\* it counts as failures ("must not keep other verified keys enabled and
\* billable", teardown).
NothingLeftBilling ==
    [][phase = "keys" /\ phase' \in {"ok", "error"} /\ Smooth =>
          \A k \in Keys : expected[k] # Missing /\ keyState[k] = "enabled" =>
             k \in keyFailed]_keysVars

\* Success leaves nothing behind: no alias of the manifest names its key still;
\* with the manifest, no key that setup knows of is enabled; and by the tagging
\* API, none that was owned when the sweep was made, lost answers, failed
\* set-ups and earlier runs included.
SuccessLeavesNothing ==
    [][phase = "keys" /\ phase' = "ok" =>
          /\ \A k \in Keys : FromManifest(k) => AliasTarget(k) # k \/ expected[k] \in moved
          /\ \A l \in Labels :
                made[l] # Missing /\ (\E k \in Keys : FromManifest(k)) =>
                   keyState[made[l]] # "enabled"
          /\ swept = "api" => \A k \in ownedAtStart : keyState[k] # "enabled"]_keysVars

\* The header says that --sweep includes every owned tagged key.  The fallback
\* of sweepTagged passes over a key whose tags it cannot list.
EveryOwnedKeySwept ==
    [][phase = "keys" /\ phase' = "ok" /\ swept # "no" =>
          \A k \in ownedAtStart : keyState[k] # "enabled"]_keysVars
===============================================================================
