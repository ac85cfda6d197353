----------------------------- MODULE ScriptProofs -----------------------------
(***************************************************************************)
(* Proofs about the scripts that share what they work on with others,      *)
(* themselves included, and may be stopped anywhere and be run again:      *)
(* RealKmsKeys (a cleanup touches its own only, withholds no key because   *)
(* another has failed, and succeeds only if all is clean), ReleaseAssembly *)
(* (what is left in the output directory is whole, and nobody else's files *)
(* are removed) and ReleaseLifecycle (what is released is exact, and is    *)
(* released as ReleaseService promises).  One part for each.               *)
(***************************************************************************)
EXTENDS RealKmsKeys, ReleaseAssembly, ReleaseLifecycle, FiniteSetTheorems, TLAPS

(***************************************************************************)
(* What setup and teardown know of the keys                                *)
(***************************************************************************)
AllWritten == \A l \in Labels : worker[l] = "written"

\* A key that setup knows of was created, and the manifest has all of them.
SetupInv ==
    /\ \A l \in Labels :
          /\ made[l] # Missing => keyState[made[l]] # "absent"
          /\ worker[l] \in {"waiting", "create", "unavailable"} => made[l] = Missing
    /\ HasManifest => AllWritten /\ manifest = made
    /\ \A k \in Keys : keyState[k] = "gone" => \A l \in Labels : aliasOf[l] # k

\* A target, while there are any, is a key that was created; those of the manifest
\* are those of setup.
Targeted(k) ==
    /\ expected[k] # Missing => Running /\ keyState[k] # "absent"
    /\ FromManifest(k) =>
          /\ AllWritten /\ made[expected[k]] = k
          /\ \A l \in Labels : made[l] # Missing => FromManifest(made[l])
    /\ swept = "api" /\ k \in ownedAtStart => expected[k] # Missing

\* The tags were as expected in the last look, unless others have changed them since.
LookedAt(k) == TagsMatch(k) \/ k \in untagged

\* The same of an alias, which may have gone with its key
AliasLookedAt(k) == AliasTarget(k) \in {k, Missing} \/ expected[k] \in moved

\* The alias is gone, or counted as a failure, or somebody else's doing.
AliasSettled(k) == k \in aliasFailed \/ AliasTarget(k) # k \/ expected[k] \in moved

\* What a cleanup knows of a target by where it is
StageMatches(k) ==
    /\ stage[k] \in {"tagged", "aliased", "reverified", "rechecked"} => FromManifest(k)
    /\ stage[k] \in {"reverified", "rechecked", "due"} => LookedAt(k)
    /\ stage[k] = "rechecked" => AliasLookedAt(k)
    /\ stage[k] \in {"plain", "absent", "due", "done"} /\ FromManifest(k) => AliasSettled(k)
    /\ stage[k] = "absent" => keyState[k] = "gone"
    /\ stage[k] = "done" => keyState[k] # "enabled" \/ k \in keyFailed

KeysInv ==
    /\ KeysTypeOK /\ SetupInv
    /\ \A k \in Keys : Targeted(k) /\ StageMatches(k)

Bounded == trouble \in 0..MaxTrouble /\ cleanups \in 0..MaxCleanups

-----------------------------------------------------------------------------
(***************************************************************************)
(* Frames: what a step leaves alone it keeps true                          *)
(***************************************************************************)
Active == Labelled({"create", "poll", "alias"})

\* Workers are finitely many.
LEMMA WorkersFinite ==
    \A S : IsFiniteSet(Labelled(S)) /\ Cardinality(Labelled(S)) \in Nat
<1> SUFFICES ASSUME NEW S PROVE IsFiniteSet(Labelled(S)) /\ Cardinality(Labelled(S)) \in Nat
  OBVIOUS
<1>1. Labelled(S) \subseteq Labels
  BY DEF Labelled
<1>2. IsFiniteSet(Labelled(S))
  BY <1>1, NamesAssumption, FS_Subset
<1>3. QED
  BY <1>2, FS_CardinalityType

\* Workers that stop keep the bound of mapLimit.
LEMMA FewerActive ==
    ASSUME KeysTypeOK, \A l \in Labels :
               worker'[l] \in {"create", "poll", "alias"} =>
               worker[l] \in {"create", "poll", "alias"}
    PROVE  Cardinality(Active') <= Limit
<1>1. Active' \subseteq Active
  BY DEF Active, Labelled
<1>2. Cardinality(Active) <= Limit
  BY DEF KeysTypeOK, Active
<1>3. Cardinality(Active') \in Nat /\ Cardinality(Active) \in Nat
      /\ Cardinality(Active') <= Cardinality(Active)
  BY <1>1, WorkersFinite, FS_Subset, FS_CardinalityType DEF Active
<1>4. QED
  BY <1>2, <1>3, LimitAssumption

\* So does a worker that was free.
LEMMA OneMoreActive ==
    ASSUME NEW l \in Labels, FreeWorker,
           \A x \in Labels : x # l => worker'[x] = worker[x]
    PROVE  Cardinality(Active') <= Limit
<1> DEFINE busy == Labelled({"create", "poll", "alias", "dead"})
<1>1. Active' \subseteq busy \cup {l}
  BY DEF Active, Labelled
<1>2. IsFiniteSet(busy) /\ Cardinality(busy) \in Nat /\ Cardinality(busy) < Limit
  BY WorkersFinite DEF FreeWorker
<1> HIDE DEF busy
<1>3. /\ IsFiniteSet(busy \cup {l}) /\ Cardinality(busy \cup {l}) \in Nat
      /\ Cardinality(busy \cup {l}) <= Cardinality(busy) + 1
  <2>1. /\ IsFiniteSet(busy \cup {l})
        /\ Cardinality(busy \cup {l}) =
              IF l \in busy THEN Cardinality(busy) ELSE Cardinality(busy) + 1
    BY <1>2, FS_AddElement
  <2>2. QED
    BY <1>2, <2>1, FS_CardinalityType
<1>4. Cardinality(Active') \in Nat /\ Cardinality(Active') <= Cardinality(busy \cup {l})
  BY <1>1, <1>3, FS_Subset, FS_CardinalityType
<1>5. QED
  BY <1>2, <1>3, <1>4, LimitAssumption

\* A step of teardown leaves setup alone.
LEMMA SetupKept ==
    ASSUME KeysTypeOK, SetupInv, UNCHANGED <<manifest, setup>>,
           \A k \in Keys : keyState[k] # "absent" => keyState'[k] # "absent",
           \A k \in Keys, l \in Labels :
              keyState'[k] = "gone" => aliasOf'[l] # k
    PROVE  SetupInv' /\ Cardinality(Active') <= Limit
<1>1. SetupInv'
  BY DEF SetupInv, KeysTypeOK, HasManifest, AllWritten, setup
<1>2. Cardinality(Active') <= Limit
  BY FewerActive DEF setup
<1>3. QED
  BY <1>1, <1>2

\* A step that changes nothing of teardown keeps what that knows of the keys.
LEMMA TargetsKept ==
    ASSUME KeysInv, UNCHANGED <<phase, locals, history>>,
           UNCHANGED made \/ ~ AllWritten, worker' = worker \/ ~ AllWritten,
           \A k \in Keys : keyState'[k] = keyState[k] \/ keyState[k] = "absent",
           \A k \in Keys : tags'[k] = tags[k] \/ keyState[k] = "absent",
           aliasOf' = aliasOf \/ ~ AllWritten
    PROVE  \A k \in Keys : Targeted(k)' /\ StageMatches(k)'
<1> SUFFICES ASSUME NEW k \in Keys PROVE Targeted(k)' /\ StageMatches(k)'
  OBVIOUS
<1>1. Targeted(k) /\ StageMatches(k) /\ (stage[k] = "none" <=> expected[k] = Missing)
  BY DEF KeysInv, KeysTypeOK
<1>2. expected'[k] = expected[k] /\ stage'[k] = stage[k] /\ FromManifest(k)' = FromManifest(k)
  BY DEF locals, FromManifest
<1>3. CASE AllWritten
  <2>1. worker' = worker /\ made' = made /\ aliasOf' = aliasOf
    BY <1>3
  <2>2. CASE expected[k] = Missing
    BY <1>1, <1>2, <2>1, <2>2, NamesAssumption
       DEF Targeted, Running, StageMatches, FromManifest, locals, history
  <2>3. CASE expected[k] # Missing
    <3>1. keyState'[k] = keyState[k] /\ tags'[k] = tags[k]
      BY <1>1, <2>3 DEF Targeted
    <3>2. QED
      BY <1>1, <1>2, <2>1, <2>3, <3>1
         DEF Targeted, Running, StageMatches, FromManifest, AllWritten, LookedAt, TagsMatch,
             AliasLookedAt, AliasSettled, AliasTarget, locals, history
  <2>4. QED
    BY <2>2, <2>3
<1>4. CASE ~ AllWritten
  <2>1. ~ FromManifest(k)
    BY <1>1, <1>4 DEF Targeted
  <2>2. CASE expected[k] = Missing
    BY <1>1, <1>2, <2>1, <2>2 DEF Targeted, Running, StageMatches, locals, history
  <2>3. CASE expected[k] # Missing
    <3>1. keyState'[k] = keyState[k] /\ tags'[k] = tags[k]
      BY <1>1, <2>3 DEF Targeted
    <3>2. QED
      BY <1>1, <1>2, <2>1, <2>3, <3>1
         DEF Targeted, Running, StageMatches, LookedAt, TagsMatch, locals, history
  <2>4. QED
    BY <2>2, <2>3
<1>5. QED
  BY <1>3, <1>4

-----------------------------------------------------------------------------
(***************************************************************************)
(* setup                                                                   *)
(***************************************************************************)
\* A label whose alias exists changes nothing else.
LEMMA RefuseAliasStep ==
    ASSUME KeysInv, NEW l \in Labels, RefuseAlias(l)
    PROVE  KeysInv'
<1> USE DEF RefuseAlias, Becomes, kms
<1>1. KeysTypeOK /\ SetupInv /\ ~ AllWritten /\ Cardinality(Active') <= Limit
  BY FewerActive DEF KeysInv, AllWritten, KeysTypeOK
<1>2. KeysTypeOK'
  BY <1>1 DEF KeysTypeOK, Active, locals, history, FromManifest
<1>3. SetupInv'
  BY <1>1, <1>2 DEF SetupInv, HasManifest, AllWritten, KeysTypeOK
<1>4. QED
  BY <1>1, <1>2, <1>3, TargetsKept DEF KeysInv

\* A key that is created is nobody's target yet.
LEMMA CreateKeyStep ==
    ASSUME KeysInv, NEW l \in Labels, CreateKey(l)
    PROVE  KeysInv'
<1>1. KeysTypeOK /\ SetupInv /\ ~ AllWritten
  BY DEF KeysInv, AllWritten, CreateKey
<1>2. /\ worker[l] \in {"waiting", "create"}
      /\ worker' \in [Labels -> {"waiting", "create", "poll", "alias", "done",
                                 "unavailable", "dead", "written"}]
      /\ \A x \in Labels : x # l => worker'[x] = worker[x] /\ made'[x] = made[x]
      /\ made' \in [Labels -> Keys \cup {Missing}]
      /\ aliasOf' = aliasOf /\ UNCHANGED <<manifest, phase, locals, history>>
      /\ worker[l] = "waiting" => FreeWorker
      /\ worker'[l] \in {"poll", "create", "dead", "unavailable"}
      /\ worker'[l] # "poll" => made' = made
      /\ made' = made \/ (\E k \in Keys : made'[l] = k /\ keyState'[k] = "enabled")
  BY <1>1 DEF CreateKey, Created, Becomes, RetriesOrGivesUp, PassesOver, KeysTypeOK, kms, Fresh
<1>3. /\ keyState' \in [Keys -> {"absent", "enabled", "pending", "gone"}]
      /\ tags' \in [Keys -> Labels \cup {OwnerOnly, Missing}]
      /\ \A k \in Keys : \/ keyState'[k] = keyState[k] /\ tags'[k] = tags[k]
                         \/ keyState[k] = "absent" /\ keyState'[k] = "enabled"
  BY <1>1 DEF CreateKey, Created, KeysTypeOK, kms, Fresh
<1>4. Cardinality(Active') <= Limit
  <2>1. CASE worker[l] = "create"
    BY <1>1, <1>2, <2>1, FewerActive
  <2>2. CASE worker[l] = "waiting"
    BY <1>2, <2>2, OneMoreActive
  <2>3. QED
    BY <1>2, <2>1, <2>2
<1>5. KeysTypeOK'
  BY <1>1, <1>2, <1>3, <1>4 DEF KeysTypeOK, Active, locals, history, FromManifest
<1>6. SetupInv'
  <2>1. ASSUME NEW x \in Labels
        PROVE  /\ made'[x] # Missing => keyState'[made'[x]] # "absent"
               /\ worker'[x] \in {"waiting", "create", "unavailable"} => made'[x] = Missing
    <3>1. CASE x = l
      BY <1>1, <1>2, <1>3, <3>1, NamesAssumption DEF SetupInv, KeysTypeOK
    <3>2. CASE x # l
      BY <1>1, <1>2, <1>3, <3>2 DEF SetupInv, KeysTypeOK
    <3>3. QED
      BY <3>1, <3>2
  <2>2. ~ HasManifest'
    BY <1>1, <1>2 DEF SetupInv, HasManifest
  <2>3. QED
    BY <1>1, <1>2, <1>3, <2>1, <2>2 DEF SetupInv
<1>7. QED
  BY <1>1, <1>2, <1>3, <1>5, <1>6, TargetsKept DEF KeysInv

\* A key is waited for.
LEMMA PollKeyStep ==
    ASSUME KeysInv, NEW l \in Labels, PollKey(l)
    PROVE  KeysInv'
<1> USE DEF PollKey, PollUntil, Becomes, kms
<1>1. KeysTypeOK /\ SetupInv /\ ~ AllWritten /\ Cardinality(Active') <= Limit
  BY FewerActive DEF KeysInv, AllWritten, KeysTypeOK
<1>2. KeysTypeOK'
  BY <1>1 DEF KeysTypeOK, Active, locals, history, FromManifest
<1>3. SetupInv'
  BY <1>1, <1>2 DEF SetupInv, HasManifest, AllWritten, KeysTypeOK
<1>4. QED
  BY <1>1, <1>2, <1>3, TargetsKept DEF KeysInv

\* An alias is made for a key that is enabled.
LEMMA CreateAliasStep ==
    ASSUME KeysInv, NEW l \in Labels, CreateAlias(l)
    PROVE  KeysInv'
<1>1. /\ KeysTypeOK /\ SetupInv /\ ~ AllWritten /\ worker[l] = "alias"
      /\ \/ aliasOf' = aliasOf
         \/ keyState[made[l]] = "enabled" /\ aliasOf' = [aliasOf EXCEPT ![l] = made[l]]
      /\ worker' = [worker EXCEPT ![l] = "done"] \/ worker' = [worker EXCEPT ![l] = "dead"]
      /\ UNCHANGED <<keyState, tags, manifest, made, phase, locals, history>>
  BY DEF KeysInv, AllWritten, CreateAlias, Becomes
<1>2. Cardinality(Active') <= Limit
  BY <1>1, FewerActive DEF KeysTypeOK
<1>3. KeysTypeOK'
  BY <1>1, <1>2 DEF KeysTypeOK, Active, locals, history, FromManifest
<1>4. SetupInv'
  BY <1>1, <1>3 DEF SetupInv, HasManifest, AllWritten, KeysTypeOK
<1>5. QED
  BY <1>1, <1>3, <1>4, TargetsKept DEF KeysInv

\* The manifest has every key that setup knows of.
LEMMA WriteManifestStep ==
    ASSUME KeysInv, WriteManifest
    PROVE  KeysInv'
<1>1. /\ KeysTypeOK /\ SetupInv /\ UNCHANGED <<kms, made, phase, locals, history>>
      /\ worker' = [l \in Labels |-> "written"]
      /\ \A l \in Labels : worker[l] \in {"done", "unavailable"}
      /\ \/ manifest' = [l \in Labels |-> IF worker[l] = "done" THEN made[l] ELSE Missing]
         \/ manifest' \in {Missing, CorruptFile}
  BY DEF KeysInv, WriteManifest, SetupSucceeded, Labelled
<1>2. \/ manifest' \in {Missing, CorruptFile}
      \/ manifest' = made /\ manifest' \in [Labels -> Keys \cup {Missing}]
  BY <1>1 DEF KeysTypeOK, SetupInv
<1>3. Cardinality(Active') <= Limit
  BY <1>1, FewerActive
<1>4. KeysTypeOK'
  BY <1>1, <1>2, <1>3 DEF KeysTypeOK, Active, locals, history, FromManifest, kms
<1>5. SetupInv'
  BY <1>1, <1>2 DEF SetupInv, HasManifest, AllWritten, kms
<1>6. ~ AllWritten \/ worker' = worker
  BY <1>1 DEF AllWritten, KeysTypeOK
<1>7. QED
  BY <1>1, <1>4, <1>5, <1>6, TargetsKept DEF KeysInv, kms

\* A set-up that is killed has written no manifest that can be read.
LEMMA SetupKilledStep ==
    ASSUME KeysInv, SetupKilled
    PROVE  KeysInv'
<1>1. /\ KeysTypeOK /\ SetupInv /\ UNCHANGED <<kms, manifest, made, phase, locals, history>>
      /\ worker' = [l \in Labels |-> "dead"] /\ ~ AllWritten
  BY DEF KeysInv, SetupKilled, Labelled, AllWritten
<1>2. Cardinality(Active') <= Limit
  BY <1>1, FewerActive
<1>3. KeysTypeOK'
  BY <1>1, <1>2 DEF KeysTypeOK, Active, locals, history, FromManifest, kms
<1>4. SetupInv'
  BY <1>1 DEF SetupInv, HasManifest, kms
<1>5. QED
  BY <1>1, <1>3, <1>4, TargetsKept DEF KeysInv, kms

-----------------------------------------------------------------------------
(***************************************************************************)
(* teardown: the targets                                                   *)
(***************************************************************************)
\* When the process ends there are no targets.
LEMMA EndStep ==
    ASSUME KeysInv, NEW how \in {"ok", "error"}, End(how), UNCHANGED <<kms, manifest, setup>>
    PROVE  KeysInv'
<1>1. /\ KeysTypeOK /\ SetupInv
  BY DEF KeysInv
<1>2. SetupInv' /\ Cardinality(Active') <= Limit
  BY <1>1, SetupKept DEF SetupInv, kms
<1>3. KeysTypeOK'
  BY <1>1, <1>2, NamesAssumption
     DEF KeysTypeOK, Active, End, NoTargets, FromManifest, kms, setup
<1>4. ASSUME NEW k \in Keys PROVE Targeted(k)' /\ StageMatches(k)'
  BY NamesAssumption DEF Targeted, Running, StageMatches, End, NoTargets, FromManifest
<1>5. QED
  BY <1>2, <1>3, <1>4 DEF KeysInv

\* The targets are the keys of the manifest, under their labels, and those found.
LEMMA TargetsAre ==
    ASSUME NEW listed \in [Labels -> Keys \cup {Missing}], NEW found, NEW k \in Keys
    PROVE  LET target == TargetsOf(listed, found)[k]
           IN  /\ target \in Labels \cup {OwnerOnly, Missing}
               /\ target \in Labels => listed[target] = k
               /\ target \in Labels <=> \E l \in Labels : listed[l] = k
               /\ k \in found => target # Missing
               /\ target = OwnerOnly => k \in found
BY NamesAssumption DEF TargetsOf

\* A cleanup begins with targets that have been created.
LEMMA BeginStep ==
    ASSUME KeysInv, NEW how \in {"no", "api", "fallback"}, NEW explicit \in BOOLEAN,
           Begin(how, explicit)
    PROVE  KeysInv'
<1>1. KeysTypeOK /\ SetupInv /\ UNCHANGED <<kms, manifest, setup>>
  BY DEF KeysInv, Begin
<1>2. CASE End("error") \/ End("ok")
  BY <1>1, <1>2, EndStep
<1>3. CASE ~ (End("error") \/ End("ok"))
  <2>1. PICK found \in SUBSET Owned :
           /\ Sweep(how, found)
           /\ phase' = "preflight"
           /\ expected' = TargetsOf(Listed, found)
           /\ stage' = [k \in Keys |->
                  IF TargetsOf(Listed, found)[k] = Missing THEN "none" ELSE "listed"]
           /\ swept' = how /\ ownedAtStart' = Owned
           /\ UNCHANGED <<aliasFailed, keyFailed, moved, untagged>>
    BY <1>3 DEF Begin
  <2>2. /\ Listed \in [Labels -> Keys \cup {Missing}]
        /\ HasManifest => Listed = made /\ AllWritten
        /\ ~ HasManifest => \A l \in Labels : Listed[l] = Missing
    BY <1>1 DEF Listed, SetupInv, HasManifest, KeysTypeOK
  <2>3. ASSUME NEW k \in Keys
        PROVE  /\ expected'[k] \in Labels \cup {OwnerOnly, Missing}
               /\ expected'[k] \in Labels => Listed[expected'[k]] = k
               /\ expected'[k] \in Labels <=> \E l \in Labels : Listed[l] = k
               /\ k \in found => expected'[k] # Missing
               /\ expected'[k] = OwnerOnly => k \in found
    BY <2>1, <2>2, TargetsAre
  <2>4. SetupInv' /\ Cardinality(Active') <= Limit
    BY <1>1, SetupKept DEF SetupInv, kms
  <2>5. DOMAIN expected' = Keys /\ expected' = [k \in Keys |-> expected'[k]]
    BY <2>1 DEF TargetsOf
  <2>6. expected' \in [Keys -> Labels \cup {OwnerOnly, Missing}]
    BY <2>3, <2>5
  <2>7. Owned \subseteq Keys
    BY DEF Owned
  <2>8. /\ stage' \in [Keys -> {"none", "listed"}]
        /\ \A k \in Keys : stage'[k] = "none" <=> expected'[k] = Missing
    BY <2>1
  <2>9. KeysTypeOK'
    BY <1>1, <2>1, <2>4, <2>6, <2>7, <2>8 DEF KeysTypeOK, Active, kms, setup
  <2>10. ASSUME NEW k \in Keys PROVE Targeted(k)' /\ StageMatches(k)'
    <3>1. StageMatches(k)'
      BY <2>8 DEF StageMatches
    <3>2. expected'[k] # Missing => keyState[k] # "absent"
      <4>1. expected'[k] \in Labels => keyState[k] # "absent"
        BY <1>1, <2>2, <2>3, NamesAssumption DEF SetupInv
      <4>2. expected'[k] = OwnerOnly => keyState[k] # "absent"
        BY <2>3 DEF Owned
      <4>3. QED
        BY <2>3, <4>1, <4>2
    <3>3. expected'[k] \in Labels =>
             /\ AllWritten /\ made[expected'[k]] = k
             /\ \A l \in Labels : made[l] # Missing => expected'[made[l]] \in Labels
      <4>1. SUFFICES ASSUME expected'[k] \in Labels
                     PROVE  /\ AllWritten /\ made[expected'[k]] = k
                            /\ \A l \in Labels :
                                  made[l] # Missing => expected'[made[l]] \in Labels
        OBVIOUS
      <4>2. HasManifest /\ Listed = made /\ AllWritten
        BY <2>2, <2>3, <4>1, NamesAssumption
      <4>3. ASSUME NEW l \in Labels, made[l] # Missing PROVE expected'[made[l]] \in Labels
        BY <1>1, <2>3, <4>2, <4>3 DEF KeysTypeOK
      <4>4. QED
        BY <2>3, <4>1, <4>2, <4>3
    <3>4. how = "api" /\ k \in Owned => expected'[k] # Missing
      BY <2>1, <2>3 DEF Sweep
    <3>5. Targeted(k)'
      BY <1>1, <2>1, <3>2, <3>3, <3>4 DEF Targeted, Running, FromManifest, AllWritten, kms, setup
    <3>6. QED
      BY <3>1, <3>5
  <2>11. QED
    BY <2>4, <2>9, <2>10 DEF KeysInv
<1>4. QED
  BY <1>2, <1>3

\* Two targets of the manifest have two labels.
LEMMA LabelsDiffer ==
    ASSUME KeysInv, NEW x \in Keys, NEW k \in Keys, FromManifest(x), expected[x] = expected[k]
    PROVE  x = k
BY DEF KeysInv, Targeted, Running, FromManifest

\* What else is a target is not affected when one goes a step further.
LEMMA OtherTarget ==
    ASSUME KeysInv, NEW k \in Keys, NEW x \in Keys, x # k, FromManifest(k) \/ moved' = moved,
           UNCHANGED <<tags, setup, phase, expected, swept, ownedAtStart>>,
           keyState'[x] = keyState[x],
           \/ aliasOf' = aliasOf
           \/ FromManifest(k) /\ aliasOf' = [aliasOf EXCEPT ![expected[k]] = Missing],
           stage'[x] = stage[x], moved' = moved \/ moved' = moved \ {expected[k]},
           untagged' = untagged \/ untagged' = untagged \ {k},
           aliasFailed \subseteq aliasFailed', keyFailed \subseteq keyFailed'
    PROVE  Targeted(x)' /\ StageMatches(x)'
<1>1. Targeted(x) /\ StageMatches(x)
  BY DEF KeysInv
<1>2. FromManifest(x) => expected[x] # expected[k]
  BY LabelsDiffer
<1>3. Targeted(x)'
  BY <1>1 DEF Targeted, Running, FromManifest, AllWritten, setup
<1>4. /\ FromManifest(x)' = FromManifest(x) /\ (LookedAt(x) => LookedAt(x)')
      /\ FromManifest(x) => /\ AliasTarget(x)' = AliasTarget(x)
                            /\ expected[x] \in moved => expected'[x] \in moved'
  BY <1>2 DEF FromManifest, LookedAt, TagsMatch, AliasTarget, KeysInv, KeysTypeOK
<1>5. StageMatches(x)'
  BY <1>1, <1>4 DEF StageMatches, AliasLookedAt, AliasSettled
<1>6. QED
  BY <1>3, <1>5

-----------------------------------------------------------------------------
(***************************************************************************)
(* teardown: its steps                                                     *)
(***************************************************************************)
\* A target that exists has the tags it is expected to have; one that does not
\* has been deleted, and with it its aliases.
LEMMA PreflightTargetStep ==
    ASSUME KeysInv, NEW k \in Keys, PreflightTarget(k)
    PROVE  KeysInv'
<1>1. /\ KeysTypeOK /\ SetupInv /\ Targeted(k) /\ StageMatches(k) /\ stage[k] = "listed"
      /\ phase = "preflight" /\ UNCHANGED <<kms, manifest, setup>>
  BY DEF KeysInv, PreflightTarget, At
<1>2. CASE End("error")
  BY <1>1, <1>2, EndStep
<1>3. CASE ~ End("error")
  <2>1. PICK to \in {"absent", "tagged", "plain"} :
           /\ stage' = [stage EXCEPT ![k] = to]
           /\ UNCHANGED <<phase, expected, aliasFailed, keyFailed, history>>
           /\ to = "absent" => ~ Exists(k)
           /\ to = "tagged" => FromManifest(k)
           /\ to = "plain" => ~ FromManifest(k)
    BY <1>3 DEF PreflightTarget, Passes, To
  <2>2. SetupInv' /\ Cardinality(Active') <= Limit
    BY <1>1, SetupKept DEF SetupInv, kms
  <2>3. KeysTypeOK'
    BY <1>1, <2>1, <2>2 DEF KeysTypeOK, Active, kms, setup, history, FromManifest
  <2>4. to = "absent" => keyState[k] = "gone" /\ \A l \in Labels : aliasOf[l] # k
    BY <1>1, <2>1, NamesAssumption DEF Exists, Targeted, KeysTypeOK, SetupInv
  <2>5. Targeted(k)' /\ StageMatches(k)'
    BY <1>1, <2>1, <2>4
       DEF Targeted, Running, StageMatches, AllWritten, AliasSettled, AliasTarget, FromManifest,
           KeysTypeOK, kms, setup, history
  <2>6. ASSUME NEW x \in Keys, x # k PROVE Targeted(x)' /\ StageMatches(x)'
    BY <1>1, <2>1, <2>6, OtherTarget DEF KeysTypeOK, kms, history
  <2>7. QED
    BY <2>2, <2>3, <2>5, <2>6 DEF KeysInv
<1>4. QED
  BY <1>2, <1>3

\* Its alias names it, or nothing.
LEMMA PreflightAliasStep ==
    ASSUME KeysInv, NEW k \in Keys, PreflightAlias(k)
    PROVE  KeysInv'
<1>1. /\ KeysTypeOK /\ SetupInv /\ Targeted(k) /\ StageMatches(k) /\ stage[k] = "tagged"
      /\ phase = "preflight" /\ UNCHANGED <<kms, manifest, setup>>
  BY DEF KeysInv, PreflightAlias, At
<1>2. CASE End("error")
  BY <1>1, <1>2, EndStep
<1>3. CASE ~ End("error")
  <2>1. PICK to \in {"plain", "aliased"} :
           /\ stage' = [stage EXCEPT ![k] = to]
           /\ UNCHANGED <<phase, expected, aliasFailed, keyFailed, history>>
           /\ to = "plain" => AliasTarget(k) = Missing
    BY <1>3 DEF PreflightAlias, Passes, To
  <2>2. SetupInv' /\ Cardinality(Active') <= Limit
    BY <1>1, SetupKept DEF SetupInv, kms
  <2>3. KeysTypeOK'
    BY <1>1, <2>1, <2>2 DEF KeysTypeOK, Active, kms, setup, history, FromManifest
  <2>4. Targeted(k)' /\ StageMatches(k)'
    BY <1>1, <2>1, NamesAssumption
       DEF Targeted, Running, StageMatches, AllWritten, AliasSettled, AliasTarget, FromManifest,
           KeysTypeOK, kms, setup, history
  <2>5. ASSUME NEW x \in Keys, x # k PROVE Targeted(x)' /\ StageMatches(x)'
    BY <1>1, <2>1, <2>5, OtherTarget DEF KeysTypeOK, kms, history
  <2>6. QED
    BY <2>2, <2>3, <2>4, <2>5 DEF KeysInv
<1>4. QED
  BY <1>2, <1>3

\* A phase begins when nobody is left in the one before.
LEMMA BarrierStep ==
    ASSUME KeysInv, StartAliases \/ StartKeys
    PROVE  KeysInv'
<1>1. /\ KeysTypeOK /\ SetupInv
      /\ UNCHANGED <<kms, manifest, setup, expected, stage, aliasFailed, keyFailed, history>>
      /\ Running'
  BY DEF KeysInv, StartAliases, StartKeys, Barrier, Running
<1>2. SetupInv' /\ Cardinality(Active') <= Limit
  BY <1>1, SetupKept DEF SetupInv, kms
<1>3. KeysTypeOK'
  BY <1>1, <1>2
     DEF KeysTypeOK, Active, StartAliases, StartKeys, Barrier, FromManifest, kms, setup, history
<1>4. ASSUME NEW x \in Keys PROVE Targeted(x)' /\ StageMatches(x)'
  BY <1>1 DEF KeysInv, Targeted, StageMatches, AllWritten, AliasSettled, AliasTarget,
              AliasLookedAt, LookedAt, TagsMatch, FromManifest, kms, setup, history
<1>5. QED
  BY <1>2, <1>3, <1>4 DEF KeysInv

\* The tags are looked at again before the alias is, ...
LEMMA ReverifyForAliasStep ==
    ASSUME KeysInv, NEW k \in Keys, ReverifyForAlias(k)
    PROVE  KeysInv'
<1>1. /\ KeysTypeOK /\ SetupInv /\ Targeted(k) /\ StageMatches(k) /\ stage[k] = "aliased"
      /\ phase = "aliases" /\ FromManifest(k)
      /\ UNCHANGED <<kms, manifest, setup, phase, expected, keyFailed, swept, ownedAtStart>>
      /\ untagged' = untagged \ {k} /\ moved' = moved \ {expected[k]}
  BY DEF KeysInv, ReverifyForAlias, At, StageMatches
<1>2. PICK to \in {"plain", "reverified"} :
         /\ stage' = [stage EXCEPT ![k] = to]
         /\ \/ aliasFailed' = aliasFailed /\ (to = "plain" => ~ Exists(k))
            \/ aliasFailed' = aliasFailed \cup {k}
         /\ to = "reverified" => TagsMatch(k)
  BY <1>1 DEF ReverifyForAlias, AliasDone, AliasFails, To
<1>3. SetupInv' /\ Cardinality(Active') <= Limit
  BY <1>1, SetupKept DEF SetupInv, kms
<1>4. KeysTypeOK'
  BY <1>1, <1>2, <1>3 DEF KeysTypeOK, Active, kms, setup, FromManifest
<1>5. ~ Exists(k) => \A l \in Labels : aliasOf[l] # k
  BY <1>1, NamesAssumption DEF Exists, Targeted, KeysTypeOK, SetupInv, FromManifest
<1>6. Targeted(k)' /\ StageMatches(k)'
  BY <1>1, <1>2, <1>5
     DEF Targeted, Running, StageMatches, AllWritten, AliasSettled, AliasTarget, LookedAt, TagsMatch,
         FromManifest, KeysTypeOK, kms, setup
<1>7. ASSUME NEW x \in Keys, x # k PROVE Targeted(x)' /\ StageMatches(x)'
  BY <1>1, <1>2, <1>7, OtherTarget DEF KeysTypeOK, kms
<1>8. QED
  BY <1>3, <1>4, <1>6, <1>7 DEF KeysInv

\* ... and the alias is looked at again ...
LEMMA RecheckAliasStep ==
    ASSUME KeysInv, NEW k \in Keys, RecheckAlias(k)
    PROVE  KeysInv'
<1>1. /\ KeysTypeOK /\ SetupInv /\ Targeted(k) /\ StageMatches(k) /\ stage[k] = "reverified"
      /\ phase = "aliases" /\ FromManifest(k) /\ LookedAt(k)
      /\ UNCHANGED <<kms, manifest, setup, phase, expected, keyFailed, swept,
                     ownedAtStart, untagged>>
      /\ moved' = moved \ {expected[k]}
  BY DEF KeysInv, RecheckAlias, At, StageMatches
<1>2. PICK to \in {"plain", "rechecked"} :
         /\ stage' = [stage EXCEPT ![k] = to]
         /\ \/ aliasFailed' = aliasFailed /\ (to = "plain" => AliasTarget(k) = Missing)
            \/ aliasFailed' = aliasFailed \cup {k}
         /\ to = "rechecked" => AliasTarget(k) = k
  BY <1>1 DEF RecheckAlias, AliasDone, AliasFails, To
<1>3. SetupInv' /\ Cardinality(Active') <= Limit
  BY <1>1, SetupKept DEF SetupInv, kms
<1>4. KeysTypeOK'
  BY <1>1, <1>2, <1>3 DEF KeysTypeOK, Active, kms, setup, FromManifest
<1>5. Targeted(k)' /\ StageMatches(k)'
  BY <1>1, <1>2, NamesAssumption
     DEF Targeted, Running, StageMatches, AllWritten, AliasSettled, AliasLookedAt, AliasTarget,
         LookedAt, TagsMatch, FromManifest, KeysTypeOK, kms, setup
<1>6. ASSUME NEW x \in Keys, x # k PROVE Targeted(x)' /\ StageMatches(x)'
  BY <1>1, <1>2, <1>6, OtherTarget DEF KeysTypeOK, kms
<1>7. QED
  BY <1>3, <1>4, <1>5, <1>6 DEF KeysInv

\* ... before it is deleted.
LEMMA DeleteAliasStep ==
    ASSUME KeysInv, NEW k \in Keys, DeleteAlias(k)
    PROVE  KeysInv'
<1>1. /\ KeysTypeOK /\ SetupInv /\ Targeted(k) /\ StageMatches(k) /\ stage[k] = "rechecked"
      /\ phase = "aliases" /\ FromManifest(k)
      /\ UNCHANGED <<keyState, tags, manifest, setup, phase, expected, keyFailed, history>>
      /\ stage' = [stage EXCEPT ![k] = "plain"]
      /\ aliasOf' = aliasOf \/ aliasOf' = [aliasOf EXCEPT ![expected[k]] = Missing]
      /\ \/ aliasFailed' = aliasFailed /\ aliasOf' = [aliasOf EXCEPT ![expected[k]] = Missing]
         \/ aliasFailed' = aliasFailed \cup {k}
  BY DEF KeysInv, DeleteAlias, At, To, AliasDone, AliasFails, StageMatches
<1>2. \A l \in Labels : aliasOf'[l] \in {aliasOf[l], Missing}
  BY <1>1 DEF KeysTypeOK, FromManifest
<1>3. SetupInv' /\ Cardinality(Active') <= Limit
  BY <1>1, <1>2, SetupKept, NamesAssumption DEF SetupInv
<1>4. KeysTypeOK'
  BY <1>1, <1>3 DEF KeysTypeOK, Active, setup, history, FromManifest
<1>5. Targeted(k)' /\ StageMatches(k)'
  BY <1>1, NamesAssumption
     DEF Targeted, Running, StageMatches, AllWritten, AliasSettled, AliasTarget, FromManifest,
         KeysTypeOK, setup, history
<1>6. ASSUME NEW x \in Keys, x # k PROVE Targeted(x)' /\ StageMatches(x)'
  BY <1>1, <1>6, OtherTarget DEF KeysTypeOK, history
<1>7. QED
  BY <1>3, <1>4, <1>5, <1>6 DEF KeysInv

\* The tags are looked at again before the key is scheduled, ...
LEMMA ReverifyForKeyStep ==
    ASSUME KeysInv, NEW k \in Keys, ReverifyForKey(k)
    PROVE  KeysInv'
<1>1. /\ KeysTypeOK /\ SetupInv /\ Targeted(k) /\ StageMatches(k) /\ stage[k] = "plain"
      /\ phase = "keys"
      /\ UNCHANGED <<kms, manifest, setup, phase, expected, aliasFailed, swept,
                     ownedAtStart, moved>>
      /\ untagged' = untagged \ {k}
  BY DEF KeysInv, ReverifyForKey, At
<1>2. PICK to \in {"due", "done"} :
         /\ stage' = [stage EXCEPT ![k] = to]
         /\ \/ keyFailed' = keyFailed /\ (to = "done" => ~ Exists(k))
            \/ keyFailed' = keyFailed \cup {k}
         /\ to = "due" => TagsMatch(k)
  BY <1>1 DEF ReverifyForKey, To
<1>3. SetupInv' /\ Cardinality(Active') <= Limit
  BY <1>1, SetupKept DEF SetupInv, kms
<1>4. KeysTypeOK'
  BY <1>1, <1>2, <1>3 DEF KeysTypeOK, Active, kms, setup, FromManifest
<1>5. Targeted(k)' /\ StageMatches(k)'
  BY <1>1, <1>2
     DEF Targeted, Running, StageMatches, AllWritten, AliasSettled, AliasTarget, LookedAt, TagsMatch,
         FromManifest, Exists, KeysTypeOK, kms, setup
<1>6. ASSUME NEW x \in Keys, x # k PROVE Targeted(x)' /\ StageMatches(x)'
  BY <1>1, <1>2, <1>6, OtherTarget DEF KeysTypeOK, kms
<1>7. QED
  BY <1>3, <1>4, <1>5, <1>6 DEF KeysInv

\* ... and a key that is not scheduled is counted.
LEMMA ScheduleDeletionStep ==
    ASSUME KeysInv, NEW k \in Keys, ScheduleDeletion(k)
    PROVE  KeysInv'
<1>1. /\ KeysTypeOK /\ SetupInv /\ Targeted(k) /\ StageMatches(k) /\ stage[k] = "due"
      /\ phase = "keys"
      /\ UNCHANGED <<tags, aliasOf, manifest, setup, phase, expected, aliasFailed, history>>
      /\ stage' = [stage EXCEPT ![k] = "done"]
      /\ \/ keyFailed' = keyFailed
            /\ keyState' = [keyState EXCEPT ![k] = IF @ = "enabled" THEN "pending" ELSE @]
         \/ keyFailed' = keyFailed \cup {k}
      /\ \/ keyState' = [keyState EXCEPT ![k] = IF @ = "enabled" THEN "pending" ELSE @]
         \/ keyState' = keyState
  BY DEF KeysInv, ScheduleDeletion, At, To
<1>2. \A x \in Keys : \/ keyState'[x] = keyState[x]
                      \/ x = k /\ keyState[x] = "enabled" /\ keyState'[x] = "pending"
  BY <1>1 DEF KeysTypeOK
<1>3. SetupInv' /\ Cardinality(Active') <= Limit
  BY <1>1, <1>2, SetupKept DEF SetupInv
<1>4. KeysTypeOK'
  BY <1>1, <1>3 DEF KeysTypeOK, Active, setup, history, FromManifest
<1>5. Targeted(k)' /\ StageMatches(k)'
  BY <1>1, <1>2
     DEF Targeted, Running, StageMatches, AllWritten, AliasSettled, AliasTarget, FromManifest,
         KeysTypeOK, setup, history
<1>6. ASSUME NEW x \in Keys, x # k PROVE Targeted(x)' /\ StageMatches(x)'
  BY <1>1, <1>2, <1>6, OtherTarget DEF KeysTypeOK, history
<1>7. QED
  BY <1>3, <1>4, <1>5, <1>6 DEF KeysInv

-----------------------------------------------------------------------------
(***************************************************************************)
(* The others                                                              *)
(***************************************************************************)
\* What others move while a cleanup runs is remembered.
LEMMA RepointStep ==
    ASSUME KeysInv, NEW l \in Labels, Repoint(l)
    PROVE  KeysInv'
<1>1. /\ KeysTypeOK /\ SetupInv
      /\ UNCHANGED <<keyState, tags, manifest, setup, phase, locals, swept, ownedAtStart,
                     untagged>>
      /\ moved' = IF Running THEN moved \cup {l} ELSE {}
  BY DEF KeysInv, Repoint
<1>2. PICK named \in {x \in Keys : keyState[x] = "enabled"} \cup {ForeignKey, Missing} :
         aliasOf' = [aliasOf EXCEPT ![l] = named]
  BY DEF Repoint
<1>3. ASSUME NEW x \in Keys, keyState[x] = "gone" PROVE named # x
  BY <1>3, StrayAssumption, NamesAssumption
<1>4. SetupInv' /\ Cardinality(Active') <= Limit
  <2>1. ASSUME NEW x \in Keys, NEW m \in Labels, keyState'[x] = "gone" PROVE aliasOf'[m] # x
    BY <1>1, <1>2, <1>3, <2>1 DEF SetupInv, KeysTypeOK
  <2>2. QED
    BY <1>1, <2>1, SetupKept
<1>5. KeysTypeOK'
  BY <1>1, <1>2, <1>4 DEF KeysTypeOK, Active, setup, locals, FromManifest
<1>6. ASSUME NEW x \in Keys PROVE Targeted(x)' /\ StageMatches(x)'
  <2>1. Targeted(x) /\ StageMatches(x)
    BY DEF KeysInv
  <2>2. Targeted(x)'
    BY <1>1, <2>1 DEF Targeted, Running, FromManifest, AllWritten, setup, locals
  <2>3. CASE Running
    <3>1. /\ FromManifest(x)' = FromManifest(x) /\ (LookedAt(x) => LookedAt(x)')
          /\ FromManifest(x) =>
                expected'[x] \in moved' \/ (AliasTarget(x)' = AliasTarget(x) /\
                                            (expected[x] \in moved => expected'[x] \in moved'))
      BY <1>1, <1>2, <2>3
         DEF FromManifest, LookedAt, TagsMatch, AliasTarget, KeysTypeOK, locals
    <3>2. QED
      BY <1>1, <2>1, <2>2, <3>1 DEF StageMatches, AliasLookedAt, AliasSettled, locals
  <2>4. CASE ~ Running
    <3>1. stage[x] = "none"
      BY <1>1, <2>1, <2>4 DEF Targeted, KeysTypeOK
    <3>2. QED
      BY <1>1, <2>2, <3>1 DEF StageMatches, locals
  <2>5. QED
    BY <2>3, <2>4
<1>7. QED
  BY <1>4, <1>5, <1>6 DEF KeysInv

\* So are the keys whose tags they change.
LEMMA UntagStep ==
    ASSUME KeysInv, NEW k \in Keys, Untag(k)
    PROVE  KeysInv'
<1>1. /\ KeysTypeOK /\ SetupInv
      /\ UNCHANGED <<keyState, aliasOf, manifest, setup, phase, locals, swept, ownedAtStart,
                     moved>>
      /\ untagged' = IF Running THEN untagged \cup {k} ELSE {}
  BY DEF KeysInv, Untag
<1>2. PICK tag \in {OwnerOnly, Missing} : tags' = [tags EXCEPT ![k] = tag]
  BY DEF Untag
<1>3. SetupInv' /\ Cardinality(Active') <= Limit
  BY <1>1, SetupKept DEF SetupInv
<1>4. KeysTypeOK'
  BY <1>1, <1>2, <1>3 DEF KeysTypeOK, Active, setup, locals, FromManifest
<1>5. ASSUME NEW x \in Keys PROVE Targeted(x)' /\ StageMatches(x)'
  <2>1. Targeted(x) /\ StageMatches(x)
    BY DEF KeysInv
  <2>2. Targeted(x)'
    BY <1>1, <2>1 DEF Targeted, Running, FromManifest, AllWritten, setup, locals
  <2>3. CASE Running
    <3>1. /\ FromManifest(x)' = FromManifest(x) /\ (LookedAt(x) => LookedAt(x)')
          /\ AliasTarget(x)' = AliasTarget(x)
      BY <1>1, <1>2, <2>3
         DEF FromManifest, LookedAt, TagsMatch, AliasTarget, KeysTypeOK, locals
    <3>2. QED
      BY <1>1, <2>1, <2>2, <3>1 DEF StageMatches, AliasLookedAt, AliasSettled, locals
  <2>4. CASE ~ Running
    <3>1. stage[x] = "none"
      BY <1>1, <2>1, <2>4 DEF Targeted, KeysTypeOK
    <3>2. QED
      BY <1>1, <2>2, <3>1 DEF StageMatches, locals
  <2>5. QED
    BY <2>2, <2>3, <2>4
<1>6. QED
  BY <1>3, <1>4, <1>5 DEF KeysInv

\* A key that goes takes its aliases with it.
LEMMA KeyGoneStep ==
    ASSUME KeysInv, NEW k \in Keys, KeyGone(k)
    PROVE  KeysInv'
<1>1. /\ KeysTypeOK /\ SetupInv /\ keyState[k] = "pending"
      /\ UNCHANGED <<tags, manifest, setup, phase, locals, history>>
      /\ keyState' = [keyState EXCEPT ![k] = "gone"]
      /\ aliasOf' = [l \in Labels |-> IF aliasOf[l] = k THEN Missing ELSE aliasOf[l]]
  BY DEF KeysInv, KeyGone
<1>2. \A x \in Keys : keyState'[x] = keyState[x] \/ (x = k /\ keyState'[x] = "gone")
  BY <1>1 DEF KeysTypeOK
<1>3. \A l \in Labels : aliasOf'[l] = aliasOf[l] \/ aliasOf'[l] = Missing
  BY <1>1
<1>4. SetupInv' /\ Cardinality(Active') <= Limit
  <2>1. ASSUME NEW x \in Keys, NEW m \in Labels, keyState'[x] = "gone" PROVE aliasOf'[m] # x
    BY <1>1, <1>2, <2>1, NamesAssumption DEF SetupInv
  <2>2. QED
    BY <1>1, <1>2, <2>1, SetupKept
<1>5. KeysTypeOK'
  BY <1>1, <1>4 DEF KeysTypeOK, Active, setup, locals, history, FromManifest
<1>6. ASSUME NEW x \in Keys PROVE Targeted(x)' /\ StageMatches(x)'
  <2>1. Targeted(x) /\ StageMatches(x)
    BY DEF KeysInv
  <2>2. Targeted(x)'
    BY <1>1, <1>2, <2>1 DEF Targeted, Running, FromManifest, AllWritten, setup, locals, history
  <2>3. /\ FromManifest(x)' = FromManifest(x) /\ LookedAt(x)' = LookedAt(x)
        /\ FromManifest(x) => AliasTarget(x)' \in {AliasTarget(x), Missing}
    BY <1>1, <1>3 DEF FromManifest, LookedAt, TagsMatch, AliasTarget, locals, history
  <2>4. QED
    BY <1>1, <1>2, <2>1, <2>2, <2>3, NamesAssumption
       DEF StageMatches, AliasLookedAt, AliasSettled, locals, history
<1>7. QED
  BY <1>4, <1>5, <1>6 DEF KeysInv

\* Without its file a cleanup goes by what it has read.
LEMMA LoseManifestStep ==
    ASSUME KeysInv, LoseManifest
    PROVE  KeysInv'
<1>1. /\ KeysTypeOK /\ SetupInv /\ manifest' \in {Missing, CorruptFile}
      /\ UNCHANGED <<kms, setup, phase, locals, history>>
  BY DEF KeysInv, LoseManifest
<1>2. SetupInv'
  BY <1>1 DEF SetupInv, HasManifest, kms, setup
<1>3. Cardinality(Active') <= Limit
  BY <1>1, FewerActive DEF setup
<1>4. KeysTypeOK'
  BY <1>1, <1>3 DEF KeysTypeOK, Active, kms, setup, locals, history, FromManifest
<1>5. QED
  BY <1>1, <1>2, <1>4, TargetsKept DEF KeysInv, kms, setup

-----------------------------------------------------------------------------
(***************************************************************************)
(* The theorems                                                            *)
(***************************************************************************)
\* At first there are the keys an earlier run has left, and no targets.
LEMMA KeysInitially == KeysInit => KeysInv
<1> SUFFICES ASSUME KeysInit PROVE KeysInv
  OBVIOUS
<1>1. Labelled({"create", "poll", "alias"}) = {}
  BY DEF KeysInit, Labelled
<1>2. Cardinality(Labelled({"create", "poll", "alias"})) <= Limit
  BY <1>1, FS_EmptySet, LimitAssumption
<1>3. KeysTypeOK
  BY <1>2, NamesAssumption, StrayAssumption DEF KeysInit, KeysTypeOK, NoTargets, FromManifest
<1>4. SetupInv
  BY DEF KeysInit, SetupInv, HasManifest
<1>5. \A k \in Keys : Targeted(k) /\ StageMatches(k)
  BY NamesAssumption DEF KeysInit, Targeted, StageMatches, NoTargets, FromManifest
<1>6. QED
  BY <1>3, <1>4, <1>5 DEF KeysInv

\* Every step of setup, of teardown and of the others keeps it.
LEMMA KeysStep == KeysInv /\ [KeysNext]_keysVars => KeysInv'
<1> SUFFICES ASSUME KeysInv, [KeysNext]_keysVars PROVE KeysInv'
  OBVIOUS
<1>1. CASE Setup
  BY <1>1, WriteManifestStep, SetupKilledStep, RefuseAliasStep, CreateKeyStep, PollKeyStep,
     CreateAliasStep DEF Setup
<1>2. CASE Teardown
  <2>1. CASE Finish \/ TeardownKilled
    BY <2>1, EndStep DEF Finish, TeardownKilled
  <2>2. CASE ~ (Finish \/ TeardownKilled)
    BY <1>2, <2>2, BarrierStep, BeginStep, PreflightTargetStep, PreflightAliasStep,
       ReverifyForAliasStep, RecheckAliasStep, DeleteAliasStep, ReverifyForKeyStep,
       ScheduleDeletionStep DEF Teardown
  <2>3. QED
    BY <2>1, <2>2
<1>3. CASE Others
  BY <1>3, LoseManifestStep, RepointStep, UntagStep, KeyGoneStep DEF Others
<1>4. CASE UNCHANGED keysVars
  <2>1. SetupInv' /\ Cardinality(Active') <= Limit
    BY <1>4, SetupKept DEF KeysInv, SetupInv, keysVars, kms
  <2>2. KeysTypeOK'
    BY <1>4, <2>1 DEF KeysInv, KeysTypeOK, Active, FromManifest, keysVars, kms, setup, locals, history
  <2>3. QED
    BY <1>4, <2>1, <2>2, TargetsKept DEF KeysInv, keysVars, kms, setup
<1>5. QED
  BY <1>1, <1>2, <1>3, <1>4 DEF KeysNext

\* The invariant of setup, teardown and everybody else, for any number of labels,
\* keys and workers, however often anything goes wrong.
THEOREM KeysInvariant == KeysSpec => []KeysInv
BY KeysInitially, KeysStep, PTL DEF KeysSpec

\* Troubles and cleanups are counted in every step.
LEMMA BoundedStep == Bounded /\ [KeysNext]_keysVars => Bounded'
<1> SUFFICES ASSUME Bounded, [KeysNext]_keysVars PROVE Bounded'
  OBVIOUS
<1> USE BoundsAssumption DEF Bounded, Trouble, Smooth
<1>1. CASE Setup
  BY <1>1 DEF Setup, WriteManifest, SetupKilled, RefuseAlias, CreateKey, PollKey, CreateAlias
<1>2. CASE Teardown
  <2>1. CASE StartAliases \/ StartKeys \/ Finish \/ TeardownKilled
    BY <2>1 DEF StartAliases, StartKeys, Barrier, Finish, TeardownKilled
  <2>2. ASSUME NEW how, NEW explicit, Begin(how, explicit) PROVE Bounded'
    BY <2>2 DEF Begin, Sweep
  <2>3. ASSUME NEW k \in Keys,
               PreflightTarget(k) \/ PreflightAlias(k) \/ ReverifyForAlias(k)
               \/ RecheckAlias(k) \/ DeleteAlias(k) \/ ReverifyForKey(k)
               \/ ScheduleDeletion(k)
        PROVE  Bounded'
    BY <2>3 DEF PreflightTarget, PreflightAlias, ReverifyForAlias, RecheckAlias, DeleteAlias,
                ReverifyForKey, ScheduleDeletion
  <2>4. QED
    BY <1>2, <2>1, <2>2, <2>3 DEF Teardown
<1>3. CASE Others
  BY <1>3 DEF Others, LoseManifest, Repoint, Untag, KeyGone
<1>4. CASE UNCHANGED keysVars
  BY <1>4 DEF keysVars
<1>5. QED
  BY <1>1, <1>2, <1>3, <1>4 DEF KeysNext

\* The types, the bound of mapLimit, the barriers between the phases, and the
\* bounds of the counters
THEOREM KeysTypeCorrect == KeysSpec => [](KeysTypeOK /\ Bounded)
<1>1. KeysInv => KeysTypeOK
  BY DEF KeysInv
<1>2. KeysInit => Bounded
  BY BoundsAssumption DEF KeysInit, Bounded
<1>3. QED
  BY <1>1, <1>2, BoundedStep, KeysInvariant, PTL DEF KeysSpec

\* teardown changes nothing before the preflight is passed, and then what it has
\* last seen to be its own only.
THEOREM CleanupTouchesOnlyItsOwn == KeysSpec => TouchesOnlyItsOwn
<1> DEFINE Scheduled ==
             \A k \in Keys :
                keyState[k] = "enabled" /\ keyState'[k] = "pending" =>
                   /\ \A x \in Keys : stage[x] \notin {"listed", "tagged"}
                   /\ expected[k] # Missing
                   /\ TagsMatch(k) \/ k \in untagged
           Unaliased ==
             \A l \in Labels :
                aliasOf'[l] # aliasOf[l] /\ stage' # stage =>
                   /\ \A x \in Keys : stage[x] \notin {"listed", "tagged"}
                   /\ \E k \in Keys :
                         /\ expected[k] = l
                         /\ aliasOf[l] = k \/ l \in moved
                         /\ TagsMatch(k) \/ k \in untagged
<1>1. ASSUME KeysInv, KeysNext, NEW k \in Keys, keyState[k] = "enabled", keyState'[k] = "pending"
      PROVE  ScheduleDeletion(k)
  <2>1. KeysTypeOK
    BY <1>1 DEF KeysInv
  <2>2. ~ Setup
    BY <1>1, <2>1
       DEF Setup, WriteManifest, SetupKilled, RefuseAlias, CreateKey, Created, PollKey,
           CreateAlias, KeysTypeOK, kms
  <2>3. ~ Others
    BY <1>1, <2>1
       DEF Others, LoseManifest, Repoint, Untag, KeyGone, KeysTypeOK, kms
  <2>4. \A x \in Keys : x # k => ~ ScheduleDeletion(x)
    BY <1>1, <2>1 DEF ScheduleDeletion, KeysTypeOK
  <2>5. QED
    BY <1>1, <2>2, <2>3, <2>4
       DEF KeysNext, Teardown, StartAliases, StartKeys, Barrier, Finish, TeardownKilled, Begin,
           PreflightTarget, PreflightAlias, ReverifyForAlias, RecheckAlias, DeleteAlias,
           ReverifyForKey, kms
<1>2. KeysInv /\ KeysNext => Scheduled
  BY <1>1
     DEF KeysInv, StageMatches, LookedAt, KeysTypeOK, ScheduleDeletion, At
<1>3. ASSUME KeysInv, KeysNext, NEW l \in Labels, aliasOf'[l] # aliasOf[l], stage' # stage
      PROVE  \E k \in Keys : DeleteAlias(k)
  <2>1. ~ Setup
    BY <1>3
       DEF Setup, WriteManifest, SetupKilled, RefuseAlias, CreateKey, Created, PollKey,
           CreateAlias, kms, locals
  <2>2. ~ Others
    BY <1>3 DEF Others, LoseManifest, Repoint, Untag, KeyGone, kms, locals
  <2>3. QED
    BY <1>3, <2>1, <2>2
       DEF KeysNext, Teardown, StartAliases, StartKeys, Barrier, Finish, TeardownKilled, Begin,
           PreflightTarget, PreflightAlias, ReverifyForAlias, RecheckAlias,
           ReverifyForKey, ScheduleDeletion, kms
<1>4. KeysInv /\ KeysNext => Unaliased
  <2> SUFFICES ASSUME KeysInv, KeysNext, NEW l \in Labels,
                      aliasOf'[l] # aliasOf[l], stage' # stage
               PROVE  /\ \A x \in Keys : stage[x] \notin {"listed", "tagged"}
                      /\ \E k \in Keys :
                            /\ expected[k] = l
                            /\ aliasOf[l] = k \/ l \in moved
                            /\ TagsMatch(k) \/ k \in untagged
    OBVIOUS
  <2>1. PICK k \in Keys : DeleteAlias(k)
    BY <1>3
  <2>2. /\ KeysTypeOK /\ StageMatches(k) /\ stage[k] = "rechecked" /\ phase = "aliases"
        /\ aliasOf' = [aliasOf EXCEPT ![expected[k]] = Missing]
        /\ aliasOf \in [Labels -> Keys \cup {ForeignKey, Missing}]
    BY <2>1 DEF KeysInv, DeleteAlias, At, KeysTypeOK
  <2>3. expected[k] = l /\ aliasOf[l] # Missing
    BY <2>2
  <2>4. QED
    BY <2>2, <2>3 DEF StageMatches, LookedAt, AliasLookedAt, AliasTarget, KeysTypeOK
<1>5. KeysInv /\ [KeysNext]_keysVars => [Scheduled /\ Unaliased]_keysVars
  BY <1>2, <1>4
<1>6. QED
  BY <1>5, KeysInvariant, PTL DEF KeysSpec, TouchesOnlyItsOwn

\* A cleanup that reaches its end in the key phase has finished.
LEMMA EndsInFinish ==
    ASSUME Bounded, KeysNext, phase = "keys", phase' \in {"ok", "error"},
           phase' = "ok" \/ Smooth
    PROVE  Finish
<1>1. ~ Setup
  BY DEF Setup, WriteManifest, SetupKilled, RefuseAlias, CreateKey, PollKey, CreateAlias
<1>2. ~ Others
  BY DEF Others, LoseManifest, Repoint, Untag, KeyGone
<1>3. ~ TeardownKilled
  BY DEF TeardownKilled, End, Trouble, Smooth, Bounded
<1>4. QED
  BY <1>1, <1>2, <1>3
     DEF KeysNext, Teardown, StartAliases, StartKeys, Barrier, Begin, Running, PreflightTarget,
         PreflightAlias, ReverifyForAlias, RecheckAlias, DeleteAlias, ReverifyForKey,
         ScheduleDeletion

\* Then a target that is still enabled is a failure.
LEMMA WhatFinishFinds ==
    ASSUME KeysInv, Finish, NEW k \in Keys, expected[k] # Missing
    PROVE  /\ keyState[k] = "enabled" => k \in keyFailed
           /\ FromManifest(k) => AliasSettled(k)
<1>1. KeysTypeOK /\ StageMatches(k) /\ stage[k] \in {"absent", "done"}
  BY DEF KeysInv, KeysTypeOK, Finish
<1>2. QED
  BY <1>1 DEF StageMatches

\* What is enabled when a cleanup reaches its end is what it has counted.
THEOREM NothingLeftUnlessFailed == KeysSpec => NothingLeftBilling
<1>1. ASSUME KeysInv, Bounded, KeysNext, phase = "keys" /\ phase' \in {"ok", "error"} /\ Smooth,
             NEW k \in Keys, expected[k] # Missing, keyState[k] = "enabled"
      PROVE  k \in keyFailed
  BY <1>1, EndsInFinish, WhatFinishFinds
<1>2. KeysInv /\ Bounded /\ [KeysNext]_keysVars =>
         [phase = "keys" /\ phase' \in {"ok", "error"} /\ Smooth =>
             \A k \in Keys : expected[k] # Missing /\ keyState[k] = "enabled" =>
                k \in keyFailed]_keysVars
  BY <1>1
<1>3. QED
  BY <1>2, KeysInvariant, KeysTypeCorrect, PTL DEF KeysSpec, NothingLeftBilling

\* A cleanup that succeeds has left none of the aliases and keys it was to remove.
THEOREM SuccessIsClean == KeysSpec => SuccessLeavesNothing
<1> DEFINE Clean ==
             phase = "keys" /\ phase' = "ok" =>
                /\ \A k \in Keys :
                      FromManifest(k) => AliasTarget(k) # k \/ expected[k] \in moved
                /\ \A l \in Labels :
                      made[l] # Missing /\ (\E k \in Keys : FromManifest(k)) =>
                         keyState[made[l]] # "enabled"
                /\ swept = "api" => \A k \in ownedAtStart : keyState[k] # "enabled"
<1>1. ASSUME KeysInv, Bounded, KeysNext, phase = "keys", phase' = "ok"
      PROVE  Clean
  <2>1. Finish /\ aliasFailed = {} /\ keyFailed = {} /\ KeysTypeOK
    BY <1>1, EndsInFinish DEF Finish, End, NoFailures, KeysInv
  <2>2. ASSUME NEW k \in Keys, expected[k] # Missing
        PROVE  /\ keyState[k] # "enabled"
               /\ FromManifest(k) => AliasTarget(k) # k \/ expected[k] \in moved
    BY <1>1, <2>1, <2>2, WhatFinishFinds DEF AliasSettled
  <2>3. \A k \in Keys : FromManifest(k) => expected[k] # Missing
    BY NamesAssumption DEF FromManifest
  <2>4. ASSUME NEW l \in Labels, made[l] # Missing, NEW k \in Keys, FromManifest(k)
        PROVE  keyState[made[l]] # "enabled"
    <3>1. made[l] \in Keys /\ FromManifest(made[l])
      BY <1>1, <2>1, <2>4 DEF KeysInv, Targeted, KeysTypeOK
    <3>2. QED
      BY <2>2, <2>3, <3>1
  <2>5. ASSUME swept = "api", NEW k \in ownedAtStart PROVE keyState[k] # "enabled"
    <3>1. k \in Keys /\ expected[k] # Missing
      BY <1>1, <2>1, <2>5 DEF KeysInv, Targeted, KeysTypeOK
    <3>2. QED
      BY <2>2, <3>1
  <2>6. QED
    BY <2>2, <2>3, <2>4, <2>5
<1>2. KeysInv /\ Bounded /\ [KeysNext]_keysVars => [Clean]_keysVars
  BY <1>1
<1>3. QED
  BY <1>2, KeysInvariant, KeysTypeCorrect, PTL DEF KeysSpec, SuccessLeavesNothing

-----------------------------------------------------------------------------
(***************************************************************************)
(* What an assembler has read, and what it has packed of it                *)
(***************************************************************************)
Verifying == {"archive", "inventory", "module", "config", "project"}
Packing == {"satellite", "copy"}
Summing == {"sums", "exists", "rmdir", "rename"}
Making == {"output", "mkdtemp", "core"} \cup Packing \cup Summing

\* The output was free, and is not this assembler's.
Unmade == {"mkdtemp", "clean", "discard"} \cup Guarded

\* The archive of t was read whole, and its build has not come back since.
ReadOf(a, t) ==
    LET bytes == source[a][t].bytes
    IN  /\ bytes \in Archives
        /\ bytes.build <= archive[t].build
        /\ bytes.build = archive[t].build => bytes = archive[t]

Unchanged(a, t) == source[a][t].bytes = archive[t]

\* If t's archive is still the one that was read, every check was of that one.
ArchiveVerified(a, t) ==
    /\ ReadOf(a, t)
    /\ Unchanged(a, t) =>
          /\ archive[t].kind = "sound" /\ source[a][t].module = archive[t]
          /\ source[a][t].config = archive[t].build

\* The checks that have been made of the archive at hand
Checked(a, t) ==
    /\ step[a] \in Verifying \ {"archive"} => ReadOf(a, t)
    /\ Unchanged(a, t) =>
          /\ step[a] \in {"module", "config", "project"} =>
                archive[t].kind # "incomplete"
          /\ step[a] \in {"config", "project"} => source[a][t].module = archive[t]
          /\ step[a] = "project" =>
                archive[t].kind # "misfit" /\ source[a][t].config = archive[t].build

\* The targets are verified in their order.
SourcesVerified(a) ==
    /\ step[a] \in Verifying \ {"archive"} => Checked(a, Current(a))
    /\ step[a] \in Verifying => \A n \in 1..(at[a] - 1) : ArchiveVerified(a, Order[n])
    /\ step[a] \in Making => \A t \in TargetSet : ArchiveVerified(a, t)

\* What was read of an archive is of one sound build.
OneSoundBuild(read) ==
    /\ read.bytes.kind = "sound"
    /\ read.module.build = read.bytes.build /\ read.config = read.bytes.build

\* The targets whose archive has been copied, and whose satellite has been packed
Copied(a) ==
    IF step[a] \in Packing THEN {Order[n] : n \in 1..(at[a] - 1)} ELSE TargetSet

Packed(a) == Copied(a) \cup (IF step[a] = "copy" THEN {Current(a)} ELSE {})

\* The files of an assembler that has copied and packed these targets
TempFiles(a, copied, packed) ==
    /\ DOMAIN temp[a] \ {SumsName} =
          {Npm(name) : name \in packed \cup {CoreName}} \cup {Native(t) : t \in copied}
    /\ temp[a][Npm(CoreName)] = CorePackage
    /\ \A t \in packed : temp[a][Npm(t)] = SatellitePackage(t, source[a][t])
    /\ \A t \in copied :
          temp[a][Native(t)] = source[a][t].bytes /\ OneSoundBuild(source[a][t])

TempMatches(a) ==
    /\ step[a] \in {"output", "mkdtemp", "core"} => at[a] = 1
    /\ step[a] = "core" => temp[a] = <<>>
    /\ step[a] \in Packing \cup Summing => TempFiles(a, Copied(a), Packed(a))
    /\ step[a] \in Packing \cup {"sums"} => SumsName \notin DOMAIN temp[a]
    /\ step[a] \in Summing \ {"sums"} =>
          SumsName \in DOMAIN temp[a] /\ temp[a][SumsName] = Checksums(temp[a])

\* Nothing is left beside the output, and it is the assembler's own if it says so;
\* nobody who has made it is still at work on it.
LeftClean(a) ==
    /\ step[a] \in Verifying \cup {"idle", "output", "mkdtemp", "removed", "done"} =>
          temp[a] = Absent
    /\ step[a] \in {"removed", "done"} => out.by = a
    /\ step[a] = "done" => ~ work[a]
    /\ out.by = a => temp[a] = Absent /\ step[a] \notin Unmade

AssemblerInv(a) == SourcesVerified(a) /\ TempMatches(a) /\ LeftClean(a)

BuildsCounted == \A t \in TargetSet : archive[t].build <= builds

AssemblyInv ==
    /\ AssemblyTypeOK /\ BuildsCounted
    /\ \A a \in Assemblers : AssemblerInv(a)
    /\ OutputWhole

-----------------------------------------------------------------------------
(***************************************************************************)
(* Release assembly: names, targets, and who moves                         *)
(***************************************************************************)
\* The files of a release have different names.
LEMMA NamesDiffer ==
    \A x, y : /\ Npm(x) = Npm(y) => x = y
              /\ Native(x) = Native(y) => x = y
              /\ Npm(x) # Native(y) /\ Npm(x) # SumsName /\ Native(x) # SumsName
BY DEF Npm, Native, SumsName

\* Every target has one position.
LEMMA OrderOfTargets ==
    /\ Len(Order) \in Nat \ {0}
    /\ \A n \in 1..Len(Order) : Order[n] \in TargetSet
    /\ \A m, n \in 1..Len(Order) : Order[m] = Order[n] => m = n
    /\ \A t \in TargetSet : \E n \in 1..Len(Order) : t = Order[n]
BY AssemblyAssumption DEF TargetSet, Range, IsInjective

\* The others stay where they are.
Moves(a) ==
    /\ \A b \in Assemblers \ {a} :
          /\ step'[b] = step[b] /\ at'[b] = at[b] /\ source'[b] = source[b]
          /\ temp'[b] = temp[b] /\ work'[b] = work[b]
    /\ UNCHANGED <<archive, builds>>

\* A step of an assembler moves only this one.
LEMMA OneMoves ==
    ASSUME AssemblyTypeOK, NEW a \in Assemblers, AssemblerStep(a)
    PROVE  Moves(a)
<1> USE DEF AssemblyTypeOK, Moves, Proceed, Throw, NextTarget, WithFile, Pack
<1>1. CASE Start(a)
  BY <1>1 DEF Start
<1>2. CASE ReadArchive(a)
  BY <1>2 DEF ReadArchive
<1>3. CASE CheckInventory(a)
  BY <1>3 DEF CheckInventory
<1>4. CASE ReadModule(a)
  BY <1>4 DEF ReadModule
<1>5. CASE ReadConfig(a)
  BY <1>5 DEF ReadConfig
<1>6. CASE CompareProject(a)
  BY <1>6 DEF CompareProject
<1>7. CASE CheckOutput(a)
  BY <1>7 DEF CheckOutput
<1>8. CASE MakeTemp(a)
  BY <1>8 DEF MakeTemp
<1>9. CASE PackCore(a)
  BY <1>9 DEF PackCore
<1>10. CASE PackSatellite(a)
  BY <1>10 DEF PackSatellite
<1>11. CASE CopyArchive(a)
  BY <1>11 DEF CopyArchive
<1>12. CASE WriteSums(a)
  BY <1>12 DEF WriteSums
<1>13. CASE OutputExists(a)
  BY <1>13 DEF OutputExists
<1>14. CASE RemoveEmpty(a)
  BY <1>14 DEF RemoveEmpty
<1>15. CASE Rename(a)
  BY <1>15 DEF Rename
<1>16. CASE RemoveWork(a) \/ RemoveTemp(a)
  BY <1>16 DEF RemoveWork, RemoveTemp, Forget
<1>17. CASE AssemblyFails(a)
  BY <1>17 DEF AssemblyFails
<1>18. CASE Kill(a)
  BY <1>18 DEF Kill, Forget
<1>19. QED
  BY <1>1, <1>2, <1>3, <1>4, <1>5, <1>6, <1>7, <1>8, <1>9, <1>10, <1>11, <1>12,
     <1>13, <1>14, <1>15, <1>16, <1>17, <1>18 DEF AssemblerStep

\* An assembler that does not move keeps its invariant, whatever the output
\* becomes that is not its own.
LEMMA UnmovedKeeps ==
    ASSUME NEW b \in Assemblers, AssemblerInv(b),
           step'[b] = step[b], at'[b] = at[b], source'[b] = source[b],
           temp'[b] = temp[b], work'[b] = work[b], archive' = archive,
           out.by = b <=> out'.by = b
    PROVE  AssemblerInv(b)'
<1>1. SourcesVerified(b)'
  <2>1. ASSUME NEW t
        PROVE  /\ ArchiveVerified(b, t) => ArchiveVerified(b, t)'
               /\ Checked(b, t) => Checked(b, t)'
    <3>1. ReadOf(b, t) => ReadOf(b, t)'
      BY DEF ReadOf
    <3>2. Unchanged(b, t)' => Unchanged(b, t)
      BY DEF Unchanged
    <3>3. ArchiveVerified(b, t) => ArchiveVerified(b, t)'
      BY <3>1, <3>2 DEF ArchiveVerified
    <3>4. Checked(b, t) => Checked(b, t)'
      BY <3>1, <3>2 DEF Checked
    <3>5. QED
      BY <3>3, <3>4
  <2>2. PICK t : t = Current(b) /\ Current(b)' = t
    BY DEF Current
  <2>3. Checked(b, t)' => Checked(b, Current(b))'
    BY <2>2 DEF Checked, ReadOf, Unchanged
  <2>4. step[b] \in Verifying \ {"archive"} => Checked(b, Current(b))
    BY DEF AssemblerInv, SourcesVerified
  <2>5. step[b] \in Verifying \ {"archive"} => Checked(b, t)
    BY <2>2, <2>4
  <2>6. step'[b] \in Verifying \ {"archive"} => Checked(b, Current(b))'
    BY <2>1, <2>3, <2>5
  <2>7. QED
    BY <2>1, <2>6 DEF AssemblerInv, SourcesVerified
<1>2. TempMatches(b)'
  <2>1. Copied(b)' = Copied(b) /\ Packed(b)' = Packed(b)
    BY DEF Copied, Packed, Current
  <2>2. TempFiles(b, Copied(b), Packed(b)) => TempFiles(b, Copied(b), Packed(b))'
    BY <2>1 DEF TempFiles
  <2>3. QED
    BY <2>2 DEF AssemblerInv, TempMatches
<1>3. LeftClean(b)'
  BY DEF AssemblerInv, LeftClean
<1>4. QED
  BY <1>1, <1>2, <1>3 DEF AssemblerInv

\* What the checks and the reads keep of an archive has its type.
LEMMA ArchiveTypes ==
    ASSUME AssemblyTypeOK, NEW t \in TargetSet
    PROVE  /\ archive[t] \in Archives /\ TarEntry(t) = archive[t]
           /\ archive[t].build \in 0..MaxBuilds /\ archive[t].build \in Int
           /\ archive[t].kind \in Kinds
           /\ \A a \in Assemblers :
                 source[a] = [u \in TargetSet |-> source[a][u]] /\ source[a][t] \in Reads
BY AssemblyAssumption DEF AssemblyTypeOK, Archives, TarEntry, Reads

\* The target at hand is one.
LEMMA CurrentIsTarget ==
    ASSUME AssemblyTypeOK, NEW a \in Assemblers
    PROVE  /\ at[a] \in 1..Len(Order) /\ at[a] \in Nat /\ Current(a) \in TargetSet
           /\ Current(a) = Order[at[a]]
BY OrderOfTargets DEF AssemblyTypeOK, Current

\* Where an assembler may go is one of the steps.
LEMMA StepsOf ==
    /\ InProgress \subseteq AssemblerSteps /\ Guarded \subseteq InProgress
    /\ {"idle", "killed", "removed", "clean", "discard", "done", "failed"}
          \subseteq AssemblerSteps
    /\ {"archive", "inventory", "module", "config", "project", "output", "mkdtemp",
        "core", "satellite", "copy", "sums", "exists", "rmdir", "rename"} \subseteq AssemblerSteps
BY DEF InProgress, Guarded, AssemblerSteps

\* Throwing keeps the types.
LEMMA ThrowTypes ==
    ASSUME AssemblyTypeOK, NEW a \in Assemblers, Throw(a)
    PROVE  step' \in [Assemblers -> AssemblerSteps] /\ at' \in [Assemblers -> 1..Len(Order)]
BY StepsOf, OrderOfTargets DEF Throw, Proceed, AssemblyTypeOK

\* Going on with the next target keeps the types.
LEMMA NextTargetTypes ==
    ASSUME AssemblyTypeOK, NEW a \in Assemblers,
           NEW first \in AssemblerSteps, NEW last \in AssemblerSteps,
           NextTarget(a, first, last)
    PROVE  step' \in [Assemblers -> AssemblerSteps] /\ at' \in [Assemblers -> 1..Len(Order)]
<1>1. Len(Order) \in Nat \ {0} /\ at[a] \in 1..Len(Order)
  BY OrderOfTargets DEF AssemblyTypeOK
<1>2. CASE at[a] = Len(Order)
  <2>1. 1 \in 1..Len(Order) /\ at' = [at EXCEPT ![a] = 1]
    BY <1>1, <1>2 DEF NextTarget
  <2>2. QED
    BY <1>2, <2>1 DEF NextTarget, Proceed, AssemblyTypeOK
<1>3. CASE at[a] # Len(Order)
  <2>1. at[a] + 1 \in 1..Len(Order) /\ at' = [at EXCEPT ![a] = at[a] + 1]
    BY <1>1, <1>3 DEF NextTarget, AssemblyTypeOK
  <2>2. QED
    BY <1>3, <2>1 DEF NextTarget, Proceed, AssemblyTypeOK
<1>4. QED
  BY <1>2, <1>3

\* What each variable becomes has its type.
LEMMA TypesFrom ==
    ASSUME AssemblyTypeOK, NEW a \in Assemblers,
           step' \in [Assemblers -> AssemblerSteps], at' \in [Assemblers -> 1..Len(Order)],
           source' \in [Assemblers -> [TargetSet -> Reads]],
           work' \in [Assemblers -> BOOLEAN], UNCHANGED <<archive, builds>>,
           temp' = temp \/ \E files : temp' = [temp EXCEPT ![a] = files],
           out' = out \/ out' = NoOutput \/ \E files : out' = [by |-> a, files |-> files]
    PROVE  AssemblyTypeOK'
<1>1. temp' = [b \in Assemblers |-> temp'[b]]
  BY DEF AssemblyTypeOK
<1>2. /\ out' = [by |-> out'.by, files |-> out'.files]
      /\ out'.by \in Assemblers \cup {Absent}
  BY DEF AssemblyTypeOK, NoOutput
<1>3. QED
  BY <1>1, <1>2 DEF AssemblyTypeOK

\* One value of an assembler changes.
LEMMA SetTypes ==
    ASSUME AssemblyTypeOK, NEW a \in Assemblers
    PROVE  /\ \A next \in AssemblerSteps :
                [step EXCEPT ![a] = next] \in [Assemblers -> AssemblerSteps]
           /\ [at EXCEPT ![a] = 1] \in [Assemblers -> 1..Len(Order)]
           /\ \A b \in BOOLEAN : [work EXCEPT ![a] = b] \in [Assemblers -> BOOLEAN]
           /\ step \in [Assemblers -> AssemblerSteps] /\ at \in [Assemblers -> 1..Len(Order)]
           /\ source \in [Assemblers -> [TargetSet -> Reads]]
           /\ work \in [Assemblers -> BOOLEAN]
BY OrderOfTargets DEF AssemblyTypeOK

\* An assembler that goes to a step of the module's stays at its target.
LEMMA ProceedTypes ==
    ASSUME AssemblyTypeOK, NEW a \in Assemblers, NEW next \in AssemblerSteps,
           Proceed(a, next), UNCHANGED at
    PROVE  step' \in [Assemblers -> AssemblerSteps] /\ at' \in [Assemblers -> 1..Len(Order)]
BY DEF Proceed, AssemblyTypeOK

\* An assembler that has read nothing
LEMMA UnreadTyped == [t \in TargetSet |-> Unread] \in [TargetSet -> Reads]
BY DEF Unread, Reads

\* The steps of an assembler keep the types.
LEMMA AssemblyTypesKept ==
    ASSUME AssemblyTypeOK, NEW a \in Assemblers, AssemblerStep(a)
    PROVE  AssemblyTypeOK'
<1> DEFINE t == Current(a)
           MoveTyped == /\ step' \in [Assemblers -> AssemblerSteps]
                        /\ at' \in [Assemblers -> 1..Len(Order)]
<1>0. /\ t \in TargetSet /\ archive[t] \in Archives /\ TarEntry(t) = archive[t]
      /\ archive[t].build \in 0..MaxBuilds /\ source[a][t] \in Reads
      /\ source \in [Assemblers -> [TargetSet -> Reads]]
      /\ work \in [Assemblers -> BOOLEAN]
      /\ \A w \in BOOLEAN : [work EXCEPT ![a] = w] \in [Assemblers -> BOOLEAN]
  BY CurrentIsTarget, ArchiveTypes, SetTypes
<1> HIDE DEF t
<1>1. CASE Start(a)
  <2>1. MoveTyped
    <3>1. /\ step' = [step EXCEPT ![a] = "archive"] /\ at' = [at EXCEPT ![a] = 1]
          /\ "archive" \in AssemblerSteps
      BY <1>1, StepsOf DEF Start, Proceed
    <3>2. QED
      BY <3>1, SetTypes
  <2>2. [u \in TargetSet |-> Unread] \in [TargetSet -> Reads]
    BY UnreadTyped
  <2>3. source' \in [Assemblers -> [TargetSet -> Reads]]
    BY <1>0, <1>1, <2>2 DEF Start
  <2>4. work' \in [Assemblers -> BOOLEAN]
    BY <1>0, <1>1 DEF Start
  <2>5. QED
    BY <1>1, <2>1, <2>3, <2>4, TypesFrom DEF Start
<1>2. CASE ReadArchive(a)
  <2>1. MoveTyped
    <3>1. Proceed(a, "inventory") /\ UNCHANGED at
      BY <1>2 DEF ReadArchive
    <3>2. QED
      BY <3>1, StepsOf, ProceedTypes
  <2>2. source' \in [Assemblers -> [TargetSet -> Reads]]
    BY <1>0, <1>2 DEF ReadArchive, Reads, t
  <2>3. work' \in [Assemblers -> BOOLEAN] /\ UNCHANGED <<archive, builds>>
    BY <1>0, <1>2 DEF ReadArchive
  <2>4. /\ temp' = temp \/ \E files : temp' = [temp EXCEPT ![a] = files]
        /\ out' = out \/ out' = NoOutput \/ \E files : out' = [by |-> a, files |-> files]
    BY <1>2 DEF ReadArchive
  <2>5. QED
    BY <2>1, <2>2, <2>3, <2>4, TypesFrom
<1>3. CASE CheckInventory(a)
  <2>1. MoveTyped
    <3>1. Throw(a) \/ (Proceed(a, "module") /\ UNCHANGED at)
      BY <1>3 DEF CheckInventory
    <3>2. "module" \in AssemblerSteps
      BY StepsOf
    <3>3. QED
      BY <3>1, <3>2, ThrowTypes, ProceedTypes
  <2>2. source' \in [Assemblers -> [TargetSet -> Reads]]
    BY <1>0, <1>3 DEF CheckInventory
  <2>3. work' \in [Assemblers -> BOOLEAN] /\ UNCHANGED <<archive, builds>>
    BY <1>0, <1>3 DEF CheckInventory
  <2>4. /\ temp' = temp \/ \E files : temp' = [temp EXCEPT ![a] = files]
        /\ out' = out \/ out' = NoOutput \/ \E files : out' = [by |-> a, files |-> files]
    BY <1>3 DEF CheckInventory
  <2>5. QED
    BY <2>1, <2>2, <2>3, <2>4, TypesFrom
<1>4. CASE ReadModule(a)
  <2>1. MoveTyped
    <3>1. Proceed(a, "config") /\ UNCHANGED at
      BY <1>4 DEF ReadModule
    <3>2. QED
      BY <3>1, StepsOf, ProceedTypes
  <2>2. source' \in [Assemblers -> [TargetSet -> Reads]]
    BY <1>0, <1>4 DEF ReadModule, Reads, t
  <2>3. work' \in [Assemblers -> BOOLEAN] /\ UNCHANGED <<archive, builds>>
    BY <1>0, <1>4 DEF ReadModule
  <2>4. /\ temp' = temp \/ \E files : temp' = [temp EXCEPT ![a] = files]
        /\ out' = out \/ out' = NoOutput \/ \E files : out' = [by |-> a, files |-> files]
    BY <1>4 DEF ReadModule
  <2>5. QED
    BY <2>1, <2>2, <2>3, <2>4, TypesFrom
<1>5. CASE ReadConfig(a)
  <2>1. MoveTyped
    <3>1. Throw(a) \/ (Proceed(a, "project") /\ UNCHANGED at)
      BY <1>5 DEF ReadConfig
    <3>2. "project" \in AssemblerSteps
      BY StepsOf
    <3>3. QED
      BY <3>1, <3>2, ThrowTypes, ProceedTypes
  <2>2. source' \in [Assemblers -> [TargetSet -> Reads]]
    BY <1>0, <1>5 DEF ReadConfig, Reads, t
  <2>3. work' \in [Assemblers -> BOOLEAN] /\ UNCHANGED <<archive, builds>>
    BY <1>0, <1>5 DEF ReadConfig
  <2>4. /\ temp' = temp \/ \E files : temp' = [temp EXCEPT ![a] = files]
        /\ out' = out \/ out' = NoOutput \/ \E files : out' = [by |-> a, files |-> files]
    BY <1>5 DEF ReadConfig
  <2>5. QED
    BY <2>1, <2>2, <2>3, <2>4, TypesFrom
<1>6. CASE CompareProject(a)
  <2>1. MoveTyped
    <3>1. Throw(a) \/ NextTarget(a, "archive", "output")
      BY <1>6 DEF CompareProject
    <3>2. "archive" \in AssemblerSteps /\ "output" \in AssemblerSteps
      BY StepsOf
    <3>3. QED
      BY <3>1, <3>2, ThrowTypes, NextTargetTypes
  <2>2. source' \in [Assemblers -> [TargetSet -> Reads]]
    BY <1>0, <1>6 DEF CompareProject
  <2>3. work' \in [Assemblers -> BOOLEAN] /\ UNCHANGED <<archive, builds>>
    BY <1>0, <1>6 DEF CompareProject
  <2>4. /\ temp' = temp \/ \E files : temp' = [temp EXCEPT ![a] = files]
        /\ out' = out \/ out' = NoOutput \/ \E files : out' = [by |-> a, files |-> files]
    BY <1>6 DEF CompareProject
  <2>5. QED
    BY <2>1, <2>2, <2>3, <2>4, TypesFrom
<1>7. CASE CheckOutput(a)
  <2>1. MoveTyped
    <3>1. Throw(a) \/ (Proceed(a, "mkdtemp") /\ UNCHANGED at)
      BY <1>7 DEF CheckOutput
    <3>2. "mkdtemp" \in AssemblerSteps
      BY StepsOf
    <3>3. QED
      BY <3>1, <3>2, ThrowTypes, ProceedTypes
  <2>2. source' \in [Assemblers -> [TargetSet -> Reads]]
    BY <1>0, <1>7 DEF CheckOutput
  <2>3. work' \in [Assemblers -> BOOLEAN] /\ UNCHANGED <<archive, builds>>
    BY <1>0, <1>7 DEF CheckOutput
  <2>4. /\ temp' = temp \/ \E files : temp' = [temp EXCEPT ![a] = files]
        /\ out' = out \/ out' = NoOutput \/ \E files : out' = [by |-> a, files |-> files]
    BY <1>7 DEF CheckOutput
  <2>5. QED
    BY <2>1, <2>2, <2>3, <2>4, TypesFrom
<1>8. CASE MakeTemp(a)
  <2>1. MoveTyped
    <3>1. Proceed(a, "core") /\ UNCHANGED at
      BY <1>8 DEF MakeTemp
    <3>2. QED
      BY <3>1, StepsOf, ProceedTypes
  <2>2. source' \in [Assemblers -> [TargetSet -> Reads]]
    BY <1>0, <1>8 DEF MakeTemp
  <2>3. work' \in [Assemblers -> BOOLEAN] /\ UNCHANGED <<archive, builds>>
    BY <1>0, <1>8 DEF MakeTemp
  <2>4. /\ temp' = temp \/ \E files : temp' = [temp EXCEPT ![a] = files]
        /\ out' = out \/ out' = NoOutput \/ \E files : out' = [by |-> a, files |-> files]
    BY <1>8 DEF MakeTemp
  <2>5. QED
    BY <2>1, <2>2, <2>3, <2>4, TypesFrom
<1>9. CASE PackCore(a)
  <2>1. MoveTyped
    <3>1. Proceed(a, "satellite") /\ UNCHANGED at
      BY <1>9 DEF PackCore
    <3>2. QED
      BY <3>1, StepsOf, ProceedTypes
  <2>2. source' \in [Assemblers -> [TargetSet -> Reads]]
    BY <1>0, <1>9 DEF PackCore
  <2>3. work' \in [Assemblers -> BOOLEAN] /\ UNCHANGED <<archive, builds>>
    BY <1>0, <1>9 DEF PackCore
  <2>4. /\ temp' = temp \/ \E files : temp' = [temp EXCEPT ![a] = files]
        /\ out' = out \/ out' = NoOutput \/ \E files : out' = [by |-> a, files |-> files]
    BY <1>9 DEF PackCore, Pack, WithFile
  <2>5. QED
    BY <2>1, <2>2, <2>3, <2>4, TypesFrom
<1>10. CASE PackSatellite(a)
  <2>1. MoveTyped
    <3>1. Proceed(a, "copy") /\ UNCHANGED at
      BY <1>10 DEF PackSatellite
    <3>2. QED
      BY <3>1, StepsOf, ProceedTypes
  <2>2. source' \in [Assemblers -> [TargetSet -> Reads]]
    BY <1>0, <1>10 DEF PackSatellite
  <2>3. work' \in [Assemblers -> BOOLEAN] /\ UNCHANGED <<archive, builds>>
    BY <1>0, <1>10 DEF PackSatellite
  <2>4. /\ temp' = temp \/ \E files : temp' = [temp EXCEPT ![a] = files]
        /\ out' = out \/ out' = NoOutput \/ \E files : out' = [by |-> a, files |-> files]
    BY <1>10 DEF PackSatellite, Pack, WithFile
  <2>5. QED
    BY <2>1, <2>2, <2>3, <2>4, TypesFrom
<1>11. CASE CopyArchive(a)
  <2>1. MoveTyped
    <3>1. Throw(a) \/ NextTarget(a, "satellite", "sums")
      BY <1>11 DEF CopyArchive
    <3>2. "satellite" \in AssemblerSteps /\ "sums" \in AssemblerSteps
      BY StepsOf
    <3>3. QED
      BY <3>1, <3>2, ThrowTypes, NextTargetTypes
  <2>2. source' \in [Assemblers -> [TargetSet -> Reads]]
    BY <1>0, <1>11 DEF CopyArchive
  <2>3. work' \in [Assemblers -> BOOLEAN] /\ UNCHANGED <<archive, builds>>
    BY <1>0, <1>11 DEF CopyArchive
  <2>4. /\ temp' = temp \/ \E files : temp' = [temp EXCEPT ![a] = files]
        /\ out' = out \/ out' = NoOutput \/ \E files : out' = [by |-> a, files |-> files]
    BY <1>11 DEF CopyArchive, WithFile
  <2>5. QED
    BY <2>1, <2>2, <2>3, <2>4, TypesFrom
<1>12. CASE WriteSums(a)
  <2>1. MoveTyped
    <3>1. Proceed(a, "exists") /\ UNCHANGED at
      BY <1>12 DEF WriteSums
    <3>2. QED
      BY <3>1, StepsOf, ProceedTypes
  <2>2. source' \in [Assemblers -> [TargetSet -> Reads]]
    BY <1>0, <1>12 DEF WriteSums
  <2>3. work' \in [Assemblers -> BOOLEAN] /\ UNCHANGED <<archive, builds>>
    BY <1>0, <1>12 DEF WriteSums
  <2>4. /\ temp' = temp \/ \E files : temp' = [temp EXCEPT ![a] = files]
        /\ out' = out \/ out' = NoOutput \/ \E files : out' = [by |-> a, files |-> files]
    BY <1>12 DEF WriteSums, WithFile
  <2>5. QED
    BY <2>1, <2>2, <2>3, <2>4, TypesFrom
<1>13. CASE OutputExists(a)
  <2>1. MoveTyped
    <3>1. (Proceed(a, "rename") \/ Proceed(a, "rmdir")) /\ UNCHANGED at
      BY <1>13 DEF OutputExists
    <3>2. "rename" \in AssemblerSteps /\ "rmdir" \in AssemblerSteps
      BY StepsOf
    <3>3. QED
      BY <3>1, <3>2, ProceedTypes
  <2>2. source' \in [Assemblers -> [TargetSet -> Reads]]
    BY <1>0, <1>13 DEF OutputExists
  <2>3. work' \in [Assemblers -> BOOLEAN] /\ UNCHANGED <<archive, builds>>
    BY <1>0, <1>13 DEF OutputExists
  <2>4. /\ temp' = temp \/ \E files : temp' = [temp EXCEPT ![a] = files]
        /\ out' = out \/ out' = NoOutput \/ \E files : out' = [by |-> a, files |-> files]
    BY <1>13 DEF OutputExists
  <2>5. QED
    BY <2>1, <2>2, <2>3, <2>4, TypesFrom
<1>14. CASE RemoveEmpty(a)
  <2>1. MoveTyped
    <3>1. Throw(a) \/ (Proceed(a, "rename") /\ UNCHANGED at)
      BY <1>14 DEF RemoveEmpty
    <3>2. "rename" \in AssemblerSteps
      BY StepsOf
    <3>3. QED
      BY <3>1, <3>2, ThrowTypes, ProceedTypes
  <2>2. source' \in [Assemblers -> [TargetSet -> Reads]]
    BY <1>0, <1>14 DEF RemoveEmpty
  <2>3. work' \in [Assemblers -> BOOLEAN] /\ UNCHANGED <<archive, builds>>
    BY <1>0, <1>14 DEF RemoveEmpty
  <2>4. /\ temp' = temp \/ \E files : temp' = [temp EXCEPT ![a] = files]
        /\ out' = out \/ out' = NoOutput \/ \E files : out' = [by |-> a, files |-> files]
    BY <1>14 DEF RemoveEmpty
  <2>5. QED
    BY <2>1, <2>2, <2>3, <2>4, TypesFrom
<1>15. CASE Rename(a)
  <2>1. MoveTyped
    <3>1. Throw(a) \/ (Proceed(a, "removed") /\ UNCHANGED at)
      BY <1>15 DEF Rename
    <3>2. "removed" \in AssemblerSteps
      BY StepsOf
    <3>3. QED
      BY <3>1, <3>2, ThrowTypes, ProceedTypes
  <2>2. source' \in [Assemblers -> [TargetSet -> Reads]]
    BY <1>0, <1>15 DEF Rename
  <2>3. work' \in [Assemblers -> BOOLEAN] /\ UNCHANGED <<archive, builds>>
    BY <1>0, <1>15 DEF Rename
  <2>4. /\ temp' = temp \/ \E files : temp' = [temp EXCEPT ![a] = files]
        /\ out' = out \/ out' = NoOutput \/ \E files : out' = [by |-> a, files |-> files]
    BY <1>15 DEF Rename
  <2>5. QED
    BY <2>1, <2>2, <2>3, <2>4, TypesFrom
<1>16. CASE RemoveWork(a) \/ RemoveTemp(a)
  <2>1. MoveTyped
    <3>1. /\ \E next \in {"idle", "done", "discard", "failed"} : Proceed(a, next)
          /\ UNCHANGED at
      BY <1>16 DEF RemoveWork, RemoveTemp
    <3>2. {"idle", "done", "discard", "failed"} \subseteq AssemblerSteps
      BY StepsOf
    <3>3. QED
      BY <3>1, <3>2, ProceedTypes
  <2>2. source' \in [Assemblers -> [TargetSet -> Reads]]
    <3>1. Forget(a) => source' \in [Assemblers -> [TargetSet -> Reads]]
      BY <1>0, UnreadTyped DEF Forget
    <3>2. QED
      BY <1>0, <1>16, <3>1 DEF RemoveWork, RemoveTemp
  <2>3. work' \in [Assemblers -> BOOLEAN] /\ UNCHANGED <<archive, builds>>
    BY <1>0, <1>16 DEF RemoveWork, RemoveTemp
  <2>4. /\ temp' = temp \/ \E files : temp' = [temp EXCEPT ![a] = files]
        /\ out' = out \/ out' = NoOutput \/ \E files : out' = [by |-> a, files |-> files]
    BY <1>16 DEF RemoveWork, RemoveTemp
  <2>5. QED
    BY <2>1, <2>2, <2>3, <2>4, TypesFrom
<1>17. CASE AssemblyFails(a)
  <2>1. MoveTyped
    BY <1>17, ThrowTypes DEF AssemblyFails
  <2>2. source' \in [Assemblers -> [TargetSet -> Reads]]
    BY <1>0, <1>17 DEF AssemblyFails
  <2>3. work' \in [Assemblers -> BOOLEAN] /\ UNCHANGED <<archive, builds>>
    BY <1>0, <1>17 DEF AssemblyFails
  <2>4. /\ temp' = temp \/ \E files : temp' = [temp EXCEPT ![a] = files]
        /\ out' = out \/ out' = NoOutput \/ \E files : out' = [by |-> a, files |-> files]
    BY <1>17 DEF AssemblyFails
  <2>5. QED
    BY <2>1, <2>2, <2>3, <2>4, TypesFrom
<1>18. CASE Kill(a)
  <2>1. MoveTyped
    <3>1. Proceed(a, "killed") /\ UNCHANGED at
      BY <1>18 DEF Kill
    <3>2. QED
      BY <3>1, StepsOf, ProceedTypes
  <2>2. source' \in [Assemblers -> [TargetSet -> Reads]]
    BY <1>0, <1>18, UnreadTyped DEF Kill, Forget
  <2>3. work' \in [Assemblers -> BOOLEAN] /\ UNCHANGED <<archive, builds>>
    BY <1>0, <1>18 DEF Kill
  <2>4. /\ temp' = temp \/ \E files : temp' = [temp EXCEPT ![a] = files]
        /\ out' = out \/ out' = NoOutput \/ \E files : out' = [by |-> a, files |-> files]
    BY <1>18 DEF Kill
  <2>5. QED
    BY <2>1, <2>2, <2>3, <2>4, TypesFrom
<1>19. QED
  BY <1>1, <1>2, <1>3, <1>4, <1>5, <1>6, <1>7, <1>8, <1>9, <1>10, <1>11, <1>12,
     <1>13, <1>14, <1>15, <1>16, <1>17, <1>18 DEF AssemblerStep

-----------------------------------------------------------------------------
(***************************************************************************)
(* Release assembly: what was verified                                     *)
(***************************************************************************)
\* Where an assembler goes that throws, and one that is done with a target
LEMMA WhereNext ==
    ASSUME AssemblyTypeOK, NEW a \in Assemblers
    PROVE  /\ Throw(a) => /\ step'[a] = IF step[a] \in Guarded THEN "clean" ELSE "idle"
                          /\ at'[a] = 1
           /\ \A next : Proceed(a, next) => step'[a] = next
           /\ \A first, last : NextTarget(a, first, last) =>
                 \/ at[a] = Len(Order) /\ at'[a] = 1 /\ step'[a] = last
                 \/ at[a] # Len(Order) /\ at'[a] = at[a] + 1 /\ step'[a] = first
BY DEF AssemblyTypeOK, Throw, Proceed, NextTarget

\* A step that verifies nothing and has nothing left to verify keeps the sources.
LEMMA SourcesStay ==
    ASSUME NEW a \in Assemblers, SourcesVerified(a),
           source'[a] = source[a], archive' = archive,
           step'[a] \notin Verifying, step[a] \in Making \/ step'[a] \notin Making
    PROVE  SourcesVerified(a)'
BY DEF SourcesVerified, ArchiveVerified, ReadOf, Unchanged, Verifying, Making,
       Packing, Summing

\* ReadArchive: what is read is the archive; the targets before it stay verified.
LEMMA SourcesReadArchive ==
    ASSUME AssemblyTypeOK, NEW a \in Assemblers, SourcesVerified(a), ReadArchive(a)
    PROVE  SourcesVerified(a)'
<1> DEFINE t == Current(a)
<1>1. /\ at[a] \in 1..Len(Order) /\ at[a] \in Nat /\ t = Order[at[a]] /\ t \in TargetSet
      /\ source[a] = [u \in TargetSet |-> source[a][u]] /\ source[a][t] \in Reads
      /\ archive[t] \in Archives /\ archive[t].build \in Int
  BY CurrentIsTarget, ArchiveTypes
<1>2. /\ step[a] = "archive" /\ step'[a] = "inventory" /\ at' = at /\ archive' = archive
      /\ source' = [source EXCEPT ![a] = [source[a] EXCEPT ![t].bytes = archive[t]]]
  BY WhereNext DEF ReadArchive
<1>3. source'[a] = [source[a] EXCEPT ![t].bytes = archive[t]]
  BY <1>2 DEF AssemblyTypeOK
<1> HIDE DEF t
<1>4. source'[a][t].bytes = archive[t]
  <2>1. source'[a][t] = [source[a][t] EXCEPT !.bytes = archive[t]]
    BY <1>1, <1>3
  <2>2. PICK read \in Reads : read = source[a][t]
    BY <1>1
  <2>3. [read EXCEPT !.bytes = archive[t]].bytes = archive[t]
    BY <2>2 DEF Reads
  <2>4. QED
    BY <2>1, <2>2, <2>3
<1>5. \A u \in TargetSet : u # t => source'[a][u] = source[a][u]
  BY <1>1, <1>3
<1>6. Current(a)' = t
  BY <1>1, <1>2 DEF Current
<1>7. Checked(a, Current(a))'
  <2>1. archive'[t] = archive[t]
    BY <1>2
  <2>2. source'[a][t].bytes = archive'[t]
    BY <1>4, <2>1
  <2>3. archive'[t] \in Archives /\ archive'[t].build <= archive'[t].build
    BY <1>1, <2>1
  <2>4. /\ source'[a][t].bytes \in Archives
        /\ source'[a][t].bytes.build <= archive'[t].build
        /\ source'[a][t].bytes.build = archive'[t].build => source'[a][t].bytes = archive'[t]
    BY <2>2, <2>3
  <2>5. step'[a] \notin {"module", "config", "project"}
    BY <1>2
  <2>6. PICK u : u = Current(a)'
    OBVIOUS
  <2>7. Checked(a, u)'
    BY <1>6, <2>4, <2>5, <2>6 DEF Checked, ReadOf
  <2>8. QED
    BY <2>6, <2>7 DEF Checked, ReadOf, Unchanged
<1>8. ASSUME NEW n \in 1..(at[a] - 1)
      PROVE  ArchiveVerified(a, Order[n])'
  <2>1. n \in 1..Len(Order) /\ n # at[a]
    BY <1>1, OrderOfTargets
  <2>2. Order[n] \in TargetSet /\ Order[n] # t
    BY <1>1, <2>1, OrderOfTargets
  <2>3. ArchiveVerified(a, Order[n])
    BY <1>2 DEF SourcesVerified, Verifying
  <2>4. QED
    BY <1>2, <1>5, <2>2, <2>3 DEF ArchiveVerified, ReadOf, Unchanged
<1>9. QED
  BY <1>2, <1>7, <1>8 DEF SourcesVerified, Verifying, Making, Packing, Summing

\* CheckInventory: an archive that lacks a file ends the assembly.
LEMMA SourcesCheckInventory ==
    ASSUME AssemblyTypeOK, NEW a \in Assemblers, SourcesVerified(a), CheckInventory(a)
    PROVE  SourcesVerified(a)'
<1>1. step[a] = "inventory" /\ source' = source /\ archive' = archive
  BY DEF CheckInventory
<1>2. CASE Throw(a)
  <2>1. step'[a] = "idle"
    BY <1>1, <1>2, WhereNext DEF Guarded
  <2>2. QED
    BY <1>1, <2>1, SourcesStay DEF Verifying, Making, Packing, Summing
<1>3. CASE ~ Throw(a)
  <2>1. step'[a] = "module" /\ at' = at /\ archive[Current(a)].kind # "incomplete"
    BY <1>3, WhereNext DEF CheckInventory
  <2>2. Checked(a, Current(a))'
    BY <1>1, <2>1
       DEF SourcesVerified, Checked, ReadOf, Unchanged, Current, Verifying
  <2>3. \A n \in 1..(at[a] - 1) : ArchiveVerified(a, Order[n])'
    BY <1>1 DEF SourcesVerified, ArchiveVerified, ReadOf, Unchanged, Verifying
  <2>4. QED
    BY <2>1, <2>2, <2>3 DEF SourcesVerified, Verifying, Making, Packing, Summing
<1>4. QED
  BY <1>2, <1>3

\* ReadModule and ReadConfig change one field of what was read of the target at hand.
LEMMA SourcesReadEntry ==
    ASSUME AssemblyTypeOK, NEW a \in Assemblers, SourcesVerified(a), UNCHANGED <<at, archive>>,
           step[a] \in Verifying \ {"archive"}, step'[a] \in Verifying \ {"archive"},
           NEW read, read.bytes = source[a][Current(a)].bytes,
           source' = [source EXCEPT ![a] = [source[a] EXCEPT ![Current(a)] = read]],
           Unchanged(a, Current(a)) =>
               /\ archive[Current(a)].kind # "incomplete" /\ read.module = archive[Current(a)]
               /\ step'[a] \in {"module", "config", "project"}
               /\ step'[a] = "project" =>
                     /\ archive[Current(a)].kind # "misfit"
                     /\ read.config = archive[Current(a)].build
    PROVE  SourcesVerified(a)'
<1> DEFINE t == Current(a)
<1>1. /\ at[a] \in 1..Len(Order) /\ at[a] \in Nat /\ t = Order[at[a]] /\ t \in TargetSet
      /\ source[a] = [u \in TargetSet |-> source[a][u]]
  BY CurrentIsTarget, ArchiveTypes
<1>2. source'[a] = [source[a] EXCEPT ![t] = read]
  BY DEF AssemblyTypeOK
<1> HIDE DEF t
<1>3. /\ source'[a][t] = read
      /\ \A u \in TargetSet : u # t => source'[a][u] = source[a][u]
  BY <1>1, <1>2
<1>4. Current(a)' = t
  BY DEF Current, t
<1>5. Checked(a, t) /\ read.bytes = source[a][t].bytes
  BY DEF SourcesVerified, t
<1>6. Checked(a, Current(a))'
  BY <1>3, <1>4, <1>5 DEF Checked, ReadOf, Unchanged, Verifying, t
<1>7. ASSUME NEW n \in 1..(at[a] - 1)
      PROVE  ArchiveVerified(a, Order[n])'
  <2>1. n \in 1..Len(Order) /\ n # at[a]
    BY <1>1, OrderOfTargets
  <2>2. Order[n] \in TargetSet /\ Order[n] # t
    BY <1>1, <2>1, OrderOfTargets
  <2>3. ArchiveVerified(a, Order[n])
    BY DEF SourcesVerified
  <2>4. QED
    BY <1>3, <2>2, <2>3 DEF ArchiveVerified, ReadOf, Unchanged
<1>8. QED
  BY <1>6, <1>7 DEF SourcesVerified, Verifying, Making, Packing, Summing

\* ReadModule
LEMMA SourcesReadModule ==
    ASSUME AssemblyTypeOK, NEW a \in Assemblers, SourcesVerified(a), ReadModule(a)
    PROVE  SourcesVerified(a)'
<1> DEFINE t == Current(a)
           read == [source[a][t] EXCEPT !.module = archive[t]]
<1>1. t \in TargetSet /\ source[a][t] \in Reads /\ TarEntry(t) = archive[t]
  BY CurrentIsTarget, ArchiveTypes
<1>2. /\ step[a] = "module" /\ step'[a] = "config" /\ UNCHANGED <<at, archive>>
      /\ source' = [source EXCEPT ![a] = [source[a] EXCEPT ![t] = read]]
  BY <1>1, WhereNext DEF ReadModule
<1>3. read.bytes = source[a][t].bytes /\ read.module = archive[t]
  BY <1>1 DEF Reads
<1>4. Unchanged(a, t) => archive[t].kind # "incomplete"
  BY <1>2 DEF SourcesVerified, Checked, Verifying
<1> HIDE DEF read
<1>5. QED
  BY <1>2, <1>3, <1>4, SourcesReadEntry DEF Verifying

\* ReadConfig: a module that does not fit ends the assembly.
LEMMA SourcesReadConfig ==
    ASSUME AssemblyTypeOK, NEW a \in Assemblers, SourcesVerified(a), ReadConfig(a)
    PROVE  SourcesVerified(a)'
<1> DEFINE t == Current(a)
           read == [source[a][t] EXCEPT !.config = archive[t].build]
<1>1. t \in TargetSet /\ source[a][t] \in Reads /\ TarEntry(t) = archive[t]
  BY CurrentIsTarget, ArchiveTypes
<1>2. /\ step[a] = "config" /\ archive' = archive
      /\ source' = [source EXCEPT ![a] = [source[a] EXCEPT ![t] = read]]
  BY <1>1 DEF ReadConfig
<1>3. /\ read.bytes = source[a][t].bytes /\ read.module = source[a][t].module
      /\ read.config = archive[t].build
  BY <1>1 DEF Reads
<1>4. /\ Unchanged(a, t) => archive[t].kind # "incomplete"
      /\ Unchanged(a, t) => source[a][t].module = archive[t]
  BY <1>2 DEF SourcesVerified, Checked, Verifying
<1> HIDE DEF read
<1>5. CASE Throw(a)
  <2>1. step'[a] = "idle"
    BY <1>2, <1>5, WhereNext DEF Guarded
  <2>2. QED
    BY <2>1 DEF SourcesVerified, Verifying, Making, Packing, Summing
<1>6. CASE ~ Throw(a)
  <2>1. step'[a] = "project" /\ at' = at /\ source[a][t].module.kind # "misfit"
    BY <1>6, WhereNext DEF ReadConfig, ModuleFits
  <2>2. QED
    BY <1>2, <1>3, <1>4, <2>1, SourcesReadEntry DEF Verifying
<1>7. QED
  BY <1>5, <1>6

\* CompareProject: files of another tree end the assembly; the target is verified.
LEMMA SourcesCompareProject ==
    ASSUME AssemblyTypeOK, NEW a \in Assemblers, SourcesVerified(a), CompareProject(a)
    PROVE  SourcesVerified(a)'
<1> DEFINE t == Current(a)
<1>1. /\ at[a] \in 1..Len(Order) /\ at[a] \in Nat /\ t = Order[at[a]] /\ t \in TargetSet
      /\ archive[t].kind \in Kinds
  BY CurrentIsTarget, ArchiveTypes
<1> HIDE DEF t
<1>2. step[a] = "project" /\ source' = source /\ archive' = archive
  BY DEF CompareProject
<1>3. CASE Throw(a)
  <2>1. step'[a] = "idle"
    BY <1>2, <1>3, WhereNext DEF Guarded
  <2>2. QED
    BY <2>1 DEF SourcesVerified, Verifying, Making, Packing, Summing
<1>4. CASE ~ Throw(a)
  <2>1. archive[t].kind # "stale" /\ NextTarget(a, "archive", "output")
    BY <1>4 DEF CompareProject, t
  <2>2. ArchiveVerified(a, t)
    BY <1>1, <1>2, <2>1
       DEF SourcesVerified, Checked, ArchiveVerified, Verifying, Kinds, t
  <2>3. \A n \in 1..at[a] : ArchiveVerified(a, Order[n])
    <3>1. \A n \in 1..(at[a] - 1) : ArchiveVerified(a, Order[n])
      BY <1>2 DEF SourcesVerified, Verifying
    <3>2. \A n \in 1..at[a] : n = at[a] \/ n \in 1..(at[a] - 1)
      BY <1>1
    <3>3. QED
      BY <1>1, <2>2, <3>1, <3>2
  <2>4. \A u : ArchiveVerified(a, u) => ArchiveVerified(a, u)'
    BY <1>2 DEF ArchiveVerified, ReadOf, Unchanged
  <2>5. CASE at[a] = Len(Order)
    <3>1. step'[a] = "output"
      BY <2>1, <2>5, WhereNext
    <3>2. \A u \in TargetSet : ArchiveVerified(a, u)
      BY <2>3, <2>5, OrderOfTargets
    <3>3. QED
      BY <2>4, <3>1, <3>2 DEF SourcesVerified, Verifying
  <2>6. CASE at[a] # Len(Order)
    <3>1. step'[a] = "archive" /\ at'[a] = at[a] + 1
      BY <2>1, <2>6, WhereNext
    <3>2. \A n \in 1..(at'[a] - 1) : ArchiveVerified(a, Order[n])
      BY <1>1, <2>3, <3>1
    <3>3. QED
      BY <2>4, <3>1, <3>2 DEF SourcesVerified, Verifying, Making, Packing, Summing
  <2>7. QED
    BY <2>5, <2>6
<1>5. QED
  BY <1>3, <1>4

\* The steps of an assembler keep what it has verified.
LEMMA SourcesKept ==
    ASSUME AssemblyTypeOK, NEW a \in Assemblers, SourcesVerified(a), AssemblerStep(a)
    PROVE  SourcesVerified(a)'
<1>1. CASE Start(a)
  <2>1. /\ step'[a] = "archive" /\ at'[a] = 1
    BY <1>1 DEF Start, Proceed, AssemblyTypeOK
  <2>2. QED
    BY <2>1 DEF SourcesVerified, Verifying, Making, Packing, Summing
<1>2. CASE ReadArchive(a)
  BY <1>2, SourcesReadArchive
<1>3. CASE CheckInventory(a)
  BY <1>3, SourcesCheckInventory
<1>4. CASE ReadModule(a)
  BY <1>4, SourcesReadModule
<1>5. CASE ReadConfig(a)
  BY <1>5, SourcesReadConfig
<1>6. CASE CompareProject(a)
  BY <1>6, SourcesCompareProject
<1>7. CASE CheckOutput(a) \/ MakeTemp(a) \/ PackCore(a) \/ PackSatellite(a) \/ CopyArchive(a)
  <2>1. step[a] \in Making /\ source' = source /\ archive' = archive
    BY <1>7 DEF CheckOutput, MakeTemp, PackCore, PackSatellite, CopyArchive,
                Making, Packing, Summing
  <2>2. step'[a] \notin Verifying
    BY <1>7, WhereNext
       DEF CheckOutput, MakeTemp, PackCore, PackSatellite, CopyArchive, Verifying
  <2>3. QED
    BY <2>1, <2>2, SourcesStay
<1>8. CASE WriteSums(a) \/ OutputExists(a) \/ RemoveEmpty(a) \/ Rename(a)
  <2>1. step[a] \in Making /\ source' = source /\ archive' = archive
    BY <1>8
       DEF WriteSums, OutputExists, RemoveEmpty, Rename, Making, Packing,
           Summing
  <2>2. step'[a] \notin Verifying
    BY <1>8, WhereNext DEF WriteSums, OutputExists, RemoveEmpty, Rename, Verifying
  <2>3. QED
    BY <2>1, <2>2, SourcesStay
<1>9. CASE RemoveWork(a) \/ RemoveTemp(a) \/ AssemblyFails(a) \/ Kill(a)
  <2>1. step'[a] \notin Verifying \cup Making
    BY <1>9, WhereNext
       DEF RemoveWork, RemoveTemp, AssemblyFails, Kill, Verifying, Making, Packing, Summing
  <2>2. QED
    BY <2>1 DEF SourcesVerified
<1>10. QED
  BY <1>1, <1>2, <1>3, <1>4, <1>5, <1>6, <1>7, <1>8, <1>9 DEF AssemblerStep

-----------------------------------------------------------------------------
(***************************************************************************)
(* Release assembly: the files                                             *)
(***************************************************************************)
\* One file is added to those of an assembler.
LEMMA OneFileMore ==
    ASSUME AssemblyTypeOK, NEW a \in Assemblers, NEW name, NEW content,
           WithFile(a, name, content)
    PROVE  /\ DOMAIN temp'[a] = DOMAIN temp[a] \cup {name}
           /\ temp'[a][name] = content
           /\ \A n \in DOMAIN temp[a] : n # name => temp'[a][n] = temp[a][n]
<1>1. temp'[a] = [n \in DOMAIN temp[a] \cup {name} |->
                     IF n = name THEN content ELSE temp[a][n]]
  BY DEF WithFile, AssemblyTypeOK
<1>2. QED
  BY <1>1

\* Where there is nothing to say of its files
LEMMA NoFilesKept ==
    ASSUME NEW a \in Assemblers,
           step'[a] \notin Packing \cup Summing \cup {"output", "mkdtemp", "core"}
    PROVE  TempMatches(a)'
BY DEF TempMatches, Packing, Summing

\* PackCore
LEMMA FilesPackCore ==
    ASSUME AssemblyTypeOK, NEW a \in Assemblers, TempMatches(a), PackCore(a)
    PROVE  TempMatches(a)'
<1>1. /\ step[a] = "core" /\ step'[a] = "satellite" /\ at' = at /\ at[a] = 1
      /\ temp[a] = <<>> /\ WithFile(a, Npm(CoreName), CorePackage)
  BY WhereNext DEF PackCore, Pack, TempMatches
<1>2. DOMAIN temp'[a] = {Npm(CoreName)} /\ temp'[a][Npm(CoreName)] = CorePackage
  <2>1. DOMAIN temp[a] = {}
    BY <1>1
  <2>2. QED
    BY <1>1, <2>1, OneFileMore
<1>3. Copied(a)' = {} /\ Packed(a)' = {}
  BY <1>1 DEF Copied, Packed, Packing
<1>4. SumsName \notin DOMAIN temp'[a]
  BY <1>2, NamesDiffer
<1>5. TempFiles(a, Copied(a), Packed(a))'
  BY <1>2, <1>3, <1>4 DEF TempFiles
<1>6. QED
  BY <1>1, <1>4, <1>5 DEF TempMatches, Packing, Summing

\* PackSatellite
LEMMA FilesPackSatellite ==
    ASSUME AssemblyTypeOK, NEW a \in Assemblers, TempMatches(a), PackSatellite(a)
    PROVE  TempMatches(a)'
<1>a. PICK t : t = Current(a)
  OBVIOUS
<1>b. PICK done : done = Copied(a)
  OBVIOUS
<1>c. PICK content : content = SatellitePackage(t, source[a][t])
  OBVIOUS
<1>d. t \in TargetSet /\ CoreName # t
  BY <1>a, CurrentIsTarget, AssemblyAssumption DEF TargetSet
<1>1. /\ step[a] = "satellite" /\ step'[a] = "copy" /\ at' = at /\ source' = source
      /\ WithFile(a, Npm(t), content)
  BY <1>a, <1>c, WhereNext DEF PackSatellite, Pack
<1>2. Current(a)' = t /\ Packed(a) = done
  BY <1>1, <1>a, <1>b DEF Current, Packed
<1>3. Copied(a)' = done /\ Packed(a)' = done \cup {t}
  BY <1>1, <1>2, <1>b DEF Copied, Packed, Packing
<1>4. TempFiles(a, done, done) /\ SumsName \notin DOMAIN temp[a]
  BY <1>1, <1>2, <1>b DEF TempMatches, Packing
<1>5. \A u : SatellitePackage(u, source[a][u])' = SatellitePackage(u, source[a][u])
  BY <1>1 DEF SatellitePackage, Rendered
<1>6. /\ DOMAIN temp'[a] = DOMAIN temp[a] \cup {Npm(t)} /\ temp'[a][Npm(t)] = content
      /\ \A n \in DOMAIN temp[a] : n # Npm(t) => temp'[a][n] = temp[a][n]
  BY <1>1, OneFileMore
<1>7. SumsName \notin DOMAIN temp'[a]
  BY <1>4, <1>6, NamesDiffer
<1>8. DOMAIN temp[a] = {Npm(name) : name \in done \cup {CoreName}} \cup {Native(u) : u \in done}
  BY <1>4 DEF TempFiles
<1>9. TempFiles(a, done, done \cup {t})'
  <2>1. DOMAIN temp'[a] \ {SumsName} =
           {Npm(name) : name \in (done \cup {t}) \cup {CoreName}}
           \cup {Native(u) : u \in done}
    BY <1>6, <1>7, <1>8
  <2>2. temp'[a][Npm(CoreName)] = CorePackage
    <3>1. Npm(CoreName) \in DOMAIN temp[a] /\ Npm(CoreName) # Npm(t)
      BY <1>d, <1>8, NamesDiffer
    <3>2. QED
      BY <1>4, <1>6, <3>1 DEF TempFiles
  <2>3. \A u \in done \cup {t} : temp'[a][Npm(u)] = SatellitePackage(u, source[a][u])'
    <3>1. \A u \in done : temp[a][Npm(u)] = SatellitePackage(u, source[a][u])
      BY <1>4 DEF TempFiles
    <3>2. \A u \in done : Npm(u) \in DOMAIN temp[a] /\ (Npm(u) = Npm(t) => u = t)
      BY <1>8, NamesDiffer
    <3>3. temp'[a][Npm(t)] = SatellitePackage(t, source[a][t])
      BY <1>6, <1>c
    <3>4. QED
      BY <1>5, <1>6, <3>1, <3>2, <3>3
  <2>4. \A u \in done :
           temp'[a][Native(u)] = source'[a][u].bytes /\ OneSoundBuild(source'[a][u])
    <3>1. \A u \in done :
             temp[a][Native(u)] = source[a][u].bytes /\ OneSoundBuild(source[a][u])
      BY <1>4 DEF TempFiles
    <3>2. \A u \in done : Native(u) \in DOMAIN temp[a] /\ Native(u) # Npm(t)
      BY <1>8, NamesDiffer
    <3>3. QED
      BY <1>1, <1>6, <3>1, <3>2
  <2>5. QED
    BY <2>1, <2>2, <2>3, <2>4 DEF TempFiles
<1>10. QED
  BY <1>1, <1>3, <1>7, <1>9 DEF TempMatches, Packing, Summing

\* CopyArchive: the copy is what was read first, or the assembly ends.
LEMMA FilesCopyArchive ==
    ASSUME AssemblyTypeOK, NEW a \in Assemblers, SourcesVerified(a), TempMatches(a),
           CopyArchive(a)
    PROVE  TempMatches(a)'
<1>a. PICK t : t = Current(a)
  OBVIOUS
<1>b. PICK done : done = {Order[n] : n \in 1..(at[a] - 1)}
  OBVIOUS
<1>1. /\ step[a] = "copy" /\ source' = source /\ WithFile(a, Native(t), archive[t])
      /\ IF archive[t] = source[a][t].bytes
         THEN NextTarget(a, "satellite", "sums") ELSE Throw(a)
  BY <1>a DEF CopyArchive
<1>2. /\ t \in TargetSet /\ at[a] \in 1..Len(Order) /\ at[a] \in Nat /\ t = Order[at[a]]
      /\ CoreName # t
  BY <1>a, CurrentIsTarget, AssemblyAssumption DEF TargetSet
<1>3. CASE Throw(a)
  <2>1. step'[a] = "clean"
    BY <1>1, <1>3, WhereNext DEF Guarded
  <2>2. QED
    BY <2>1, NoFilesKept DEF Packing, Summing
<1>4. CASE ~ Throw(a)
  <2>1. archive[t] = source[a][t].bytes /\ NextTarget(a, "satellite", "sums")
    BY <1>1, <1>4
  <2>2. OneSoundBuild(source[a][t])
    <3>1. ArchiveVerified(a, t)
      BY <1>1, <1>2 DEF SourcesVerified, Making, Packing
    <3>2. QED
      BY <2>1, <3>1 DEF ArchiveVerified, Unchanged, OneSoundBuild
  <2>3. Copied(a) = done /\ Packed(a) = done \cup {t}
    BY <1>1, <1>a, <1>b DEF Copied, Packed, Packing
  <2>4. TempFiles(a, done, done \cup {t}) /\ SumsName \notin DOMAIN temp[a]
    BY <1>1, <2>3 DEF TempMatches, Packing
  <2>5. /\ step'[a] \in {"satellite", "sums"}
        /\ Copied(a)' = done \cup {t} /\ Packed(a)' = done \cup {t}
    <3>0. done \cup {t} = {Order[n] : n \in 1..at[a]}
      <4>1. \A n \in 1..at[a] : n = at[a] \/ n \in 1..(at[a] - 1)
        BY <1>2
      <4>2. at[a] \in 1..at[a] /\ \A n \in 1..(at[a] - 1) : n \in 1..at[a]
        BY <1>2
      <4>3. QED
        BY <1>2, <1>b, <4>1, <4>2
    <3>1. CASE at[a] = Len(Order)
      <4>1. step'[a] = "sums"
        BY <2>1, <3>1, WhereNext
      <4>2. done \cup {t} = TargetSet
        <5>1. TargetSet = {Order[n] : n \in 1..Len(Order)}
          BY OrderOfTargets
        <5>2. QED
          BY <3>0, <3>1, <5>1
      <4>3. QED
        BY <4>1, <4>2 DEF Copied, Packed, Packing
    <3>2. CASE at[a] # Len(Order)
      <4>1. step'[a] = "satellite" /\ at'[a] = at[a] + 1
        BY <2>1, <3>2, WhereNext
      <4>2. at'[a] - 1 = at[a]
        BY <1>2, <4>1
      <4>3. QED
        BY <3>0, <4>1, <4>2 DEF Copied, Packed, Packing
    <3>3. QED
      BY <3>1, <3>2
  <2>6. /\ DOMAIN temp'[a] = DOMAIN temp[a] \cup {Native(t)}
        /\ temp'[a][Native(t)] = archive[t]
        /\ \A n \in DOMAIN temp[a] : n # Native(t) => temp'[a][n] = temp[a][n]
    BY <1>1, OneFileMore
  <2>7. SumsName \notin DOMAIN temp'[a]
    BY <2>4, <2>6, NamesDiffer
  <2>8. DOMAIN temp[a] =
           {Npm(name) : name \in (done \cup {t}) \cup {CoreName}}
           \cup {Native(u) : u \in done}
    BY <2>4 DEF TempFiles
  <2>9. TempFiles(a, done \cup {t}, done \cup {t})'
    <3>1. DOMAIN temp'[a] \ {SumsName} =
             {Npm(name) : name \in (done \cup {t}) \cup {CoreName}}
             \cup {Native(u) : u \in done \cup {t}}
      BY <2>6, <2>7, <2>8
    <3>2. \A name \in (done \cup {t}) \cup {CoreName} :
             Npm(name) \in DOMAIN temp[a] /\ Npm(name) # Native(t)
      BY <2>8, NamesDiffer
    <3>3. temp'[a][Npm(CoreName)] = CorePackage
      BY <2>4, <2>6, <3>2 DEF TempFiles
    <3>4. \A u \in done \cup {t} : temp'[a][Npm(u)] = SatellitePackage(u, source[a][u])'
      <4>1. \A u : SatellitePackage(u, source[a][u])' = SatellitePackage(u, source[a][u])
        BY <1>1 DEF SatellitePackage, Rendered
      <4>2. \A u \in done \cup {t} : temp[a][Npm(u)] = SatellitePackage(u, source[a][u])
        BY <2>4 DEF TempFiles
      <4>3. QED
        BY <2>6, <3>2, <4>1, <4>2
    <3>5. \A u \in done \cup {t} :
             temp'[a][Native(u)] = source'[a][u].bytes /\ OneSoundBuild(source'[a][u])
      <4>1. \A u \in done : /\ temp[a][Native(u)] = source[a][u].bytes
                            /\ OneSoundBuild(source[a][u])
        BY <2>4 DEF TempFiles
      <4>2. \A u \in done : /\ Native(u) \in DOMAIN temp[a]
                            /\ Native(u) = Native(t) => u = t
        BY <2>8, NamesDiffer
      <4>3. QED
        BY <1>1, <2>1, <2>2, <2>6, <4>1, <4>2
    <3>6. QED
      BY <3>1, <3>3, <3>4, <3>5 DEF TempFiles
  <2>10. QED
    BY <2>5, <2>7, <2>9 DEF TempMatches, Packing, Summing
<1>5. QED
  BY <1>3, <1>4

\* The files of an assembler that has come to write the sums
LEMMA FilesComplete ==
    ASSUME NEW a \in Assemblers, TempMatches(a), step[a] \in Summing
    PROVE  /\ TempFiles(a, TargetSet, TargetSet)
           /\ DOMAIN temp[a] \ {SumsName} = TarballNames /\ SumsName \notin TarballNames
<1>1. Copied(a) = TargetSet /\ Packed(a) = TargetSet
  BY DEF Copied, Packed, Packing, Summing
<1>2. TempFiles(a, TargetSet, TargetSet)
  BY <1>1 DEF TempMatches
<1>3. SumsName \notin TarballNames
  BY NamesDiffer DEF TarballNames
<1>4. QED
  BY <1>2, <1>3 DEF TempFiles, TarballNames

\* WriteSums
LEMMA FilesWriteSums ==
    ASSUME AssemblyTypeOK, NEW a \in Assemblers, TempMatches(a), WriteSums(a)
    PROVE  TempMatches(a)'
<1>a. PICK sums : sums = Checksums(temp[a])
  OBVIOUS
<1>1. /\ step[a] = "sums" /\ step'[a] = "exists" /\ source' = source
      /\ WithFile(a, SumsName, sums)
  BY <1>a, WhereNext DEF WriteSums
<1>2. /\ TempFiles(a, TargetSet, TargetSet) /\ DOMAIN temp[a] = TarballNames
      /\ SumsName \notin TarballNames
  BY <1>1, FilesComplete DEF TempMatches, Summing
<1>3. /\ DOMAIN temp'[a] = TarballNames \cup {SumsName} /\ temp'[a][SumsName] = sums
      /\ \A n \in TarballNames : temp'[a][n] = temp[a][n]
  BY <1>1, <1>2, OneFileMore
<1>4. Checksums(temp'[a]) = sums
  BY <1>3, <1>a DEF Checksums
<1>5. /\ Npm(CoreName) \in TarballNames
      /\ \A t \in TargetSet : Npm(t) \in TarballNames /\ Native(t) \in TarballNames
  BY DEF TarballNames
<1>6. TempFiles(a, TargetSet, TargetSet)'
  <2>1. \A t : SatellitePackage(t, source[a][t])' = SatellitePackage(t, source[a][t])
    BY <1>1 DEF SatellitePackage, Rendered
  <2>2. DOMAIN temp'[a] \ {SumsName} =
           {Npm(name) : name \in TargetSet \cup {CoreName}} \cup {Native(t) : t \in TargetSet}
    BY <1>2, <1>3 DEF TarballNames
  <2>3. QED
    BY <1>1, <1>2, <1>3, <1>5, <2>1, <2>2 DEF TempFiles
<1>7. Copied(a)' = TargetSet /\ Packed(a)' = TargetSet
  BY <1>1 DEF Copied, Packed, Packing
<1>8. SumsName \in DOMAIN temp'[a] /\ temp'[a][SumsName] = Checksums(temp[a])'
  BY <1>3, <1>4
<1>9. QED
  BY <1>1, <1>6, <1>7, <1>8 DEF TempMatches, Packing, Summing

\* The steps of an assembler keep its files as they should be.
LEMMA FilesKept ==
    ASSUME AssemblyTypeOK, NEW a \in Assemblers, SourcesVerified(a), TempMatches(a),
           AssemblerStep(a)
    PROVE  TempMatches(a)'
<1>1. CASE \/ Start(a) \/ ReadArchive(a) \/ CheckInventory(a) \/ ReadModule(a)
           \/ ReadConfig(a) \/ RemoveWork(a) \/ RemoveTemp(a) \/ AssemblyFails(a)
           \/ Kill(a)
  <2>1. step'[a] \notin Packing \cup Summing \cup {"output", "mkdtemp", "core"}
    BY <1>1, WhereNext
       DEF Start, ReadArchive, CheckInventory, ReadModule, ReadConfig,
           RemoveWork, RemoveTemp, AssemblyFails, Kill, Packing, Summing
  <2>2. QED
    BY <2>1, NoFilesKept
<1>2. CASE CompareProject(a)
  <2>1. step'[a] \in {"archive", "idle"} \/ (step'[a] = "output" /\ at'[a] = 1)
    BY <1>2, WhereNext DEF CompareProject, Guarded
  <2>2. QED
    BY <2>1 DEF TempMatches, Packing, Summing
<1>3. CASE CheckOutput(a) \/ MakeTemp(a)
  <2>1. /\ step[a] \in {"output", "mkdtemp"}
        /\ \/ step'[a] = "idle"
           \/ step'[a] = "mkdtemp" /\ at' = at
           \/ step'[a] = "core" /\ at' = at /\ temp'[a] = <<>>
    BY <1>3, WhereNext DEF CheckOutput, MakeTemp, Guarded, AssemblyTypeOK
  <2>2. QED
    BY <2>1 DEF TempMatches, Packing, Summing
<1>4. CASE PackCore(a)
  BY <1>4, FilesPackCore
<1>5. CASE PackSatellite(a)
  BY <1>5, FilesPackSatellite
<1>6. CASE CopyArchive(a)
  BY <1>6, FilesCopyArchive
<1>7. CASE WriteSums(a)
  BY <1>7, FilesWriteSums
<1>8. CASE OutputExists(a) \/ RemoveEmpty(a)
  <2>1. /\ step[a] \in {"exists", "rmdir"} /\ step'[a] \in {"rmdir", "rename", "clean"}
        /\ UNCHANGED <<source, temp>>
    <3>1. CASE OutputExists(a)
      BY <3>1, WhereNext DEF OutputExists
    <3>2. CASE RemoveEmpty(a)
      BY <3>2, WhereNext DEF RemoveEmpty, Guarded
    <3>3. QED
      BY <1>8, <3>1, <3>2
  <2>2. /\ Copied(a) = TargetSet /\ Packed(a) = TargetSet
        /\ Copied(a)' = TargetSet /\ Packed(a)' = TargetSet
    BY <2>1 DEF Copied, Packed, Packing
  <2>3. TempFiles(a, TargetSet, TargetSet)'
    BY <2>1, <2>2 DEF TempMatches, TempFiles, Packing, Summing
  <2>4. QED
    BY <2>1, <2>2, <2>3 DEF TempMatches, Packing, Summing
<1>9. CASE Rename(a)
  <2>1. step'[a] \in {"removed", "clean", "idle"}
    BY <1>9, WhereNext DEF Rename
  <2>2. QED
    BY <2>1, NoFilesKept DEF Packing, Summing
<1>10. QED
  BY <1>1, <1>2, <1>3, <1>4, <1>5, <1>6, <1>7, <1>8, <1>9 DEF AssemblerStep

-----------------------------------------------------------------------------
(***************************************************************************)
(* Release assembly: the output                                            *)
(***************************************************************************)
\* Nobody's files are removed from the output, or replaced.
LEMMA OutputKept ==
    ASSUME AssemblyTypeOK, [AssemblyNext]_assemblyVars, out \notin {NoOutput, Empty}
    PROVE  out' = out
<1>1. ASSUME NEW a \in Assemblers, AssemblerStep(a)
      PROVE  out' = out
  BY <1>1
     DEF AssemblerStep, Start, ReadArchive, CheckInventory, ReadModule,
         ReadConfig, CompareProject, CheckOutput, MakeTemp, PackCore, PackSatellite,
         CopyArchive, WriteSums, OutputExists, RemoveEmpty, Rename, RemoveWork,
         RemoveTemp, AssemblyFails, Kill
<1>2. ASSUME NEW t \in TargetSet, Rebuild(t)
      PROVE  out' = out
  BY <1>2 DEF Rebuild
<1>3. CASE UseOutput
  BY <1>3 DEF UseOutput
<1>4. CASE UNCHANGED assemblyVars
  BY <1>4 DEF assemblyVars
<1>5. QED
  BY <1>1, <1>2, <1>3, <1>4 DEF AssemblyNext

\* What an assembler has made is not one of the outputs that are free.
LEMMA MadeIsNotFree ==
    ASSUME NEW b \in Assemblers, out.by = b
    PROVE  out \notin {NoOutput, Empty}
BY AssemblyAssumption DEF NoOutput, Empty

\* An assembler makes no output but its own.
LEMMA MadeBySelf ==
    ASSUME NEW a \in Assemblers, AssemblerStep(a)
    PROVE  out' = out \/ out' = NoOutput \/ out'.by = a
BY DEF AssemblerStep, Start, ReadArchive, CheckInventory, ReadModule,
       ReadConfig, CompareProject, CheckOutput, MakeTemp, PackCore, PackSatellite,
       CopyArchive, WriteSums, OutputExists, RemoveEmpty, Rename, RemoveWork,
       RemoveTemp, AssemblyFails, Kill

\* The steps of an assembler leave it clean, and its output its own.
LEMMA CleanKept ==
    ASSUME AssemblyTypeOK, NEW a \in Assemblers, LeftClean(a), AssemblerStep(a),
           out.by = a => out' = out
    PROVE  LeftClean(a)'
<1> USE WhereNext DEF LeftClean, Verifying, AssemblyTypeOK
<1>a. /\ NoOutput.by # a /\ Empty.by # a
      /\ Unmade = {"mkdtemp", "clean", "discard", "core", "satellite", "copy", "sums",
                   "exists", "rmdir", "rename"}
  BY AssemblyAssumption DEF NoOutput, Empty, Unmade, Guarded
<1>1. CASE Start(a)
  BY <1>a, <1>1 DEF Start
<1>2. CASE ReadArchive(a) \/ ReadModule(a)
  BY <1>a, <1>2 DEF ReadArchive, ReadModule
<1>3. CASE CheckInventory(a) \/ ReadConfig(a) \/ CompareProject(a)
  BY <1>a, <1>3 DEF CheckInventory, ReadConfig, CompareProject, Guarded
<1>4. CASE CheckOutput(a)
  BY <1>a, <1>4 DEF CheckOutput, Guarded
<1>5. CASE MakeTemp(a) \/ PackCore(a) \/ PackSatellite(a) \/ WriteSums(a) \/ OutputExists(a)
  BY <1>a, <1>5 DEF MakeTemp, PackCore, PackSatellite, WriteSums, OutputExists
<1>6. CASE CopyArchive(a)
  BY <1>a, <1>6 DEF CopyArchive, Guarded
<1>7. CASE RemoveEmpty(a)
  BY <1>a, <1>7 DEF RemoveEmpty, Guarded
<1>8. CASE Rename(a)
  BY <1>a, <1>8 DEF Rename, Guarded
<1>9. CASE RemoveWork(a) \/ RemoveTemp(a)
  BY <1>a, <1>9 DEF RemoveWork, RemoveTemp
<1>10. CASE AssemblyFails(a)
  BY <1>a, <1>10 DEF AssemblyFails, InProgress, Guarded
<1>11. CASE Kill(a)
  BY <1>a, <1>11 DEF Kill
<1>12. QED
  BY <1>1, <1>2, <1>3, <1>4, <1>5, <1>6, <1>7, <1>8, <1>9, <1>10, <1>11
     DEF AssemblerStep

\* The files that are renamed to the output are a consistent release.
LEMMA RenamedWhole ==
    ASSUME AssemblyTypeOK, NEW a \in Assemblers, SourcesVerified(a), TempMatches(a),
           step[a] = "rename"
    PROVE  Consistent(temp[a])
<1>1. /\ TempFiles(a, TargetSet, TargetSet)
      /\ DOMAIN temp[a] \ {SumsName} = TarballNames /\ SumsName \notin TarballNames
  BY FilesComplete DEF Summing
<1>2. SumsName \in DOMAIN temp[a] /\ temp[a][SumsName] = Checksums(temp[a])
  BY DEF TempMatches, Summing
<1>3. temp[a][Npm(CoreName)].tree = Tree
  BY <1>1 DEF TempFiles, CorePackage
<1>4. ASSUME NEW t \in TargetSet
      PROVE  /\ temp[a][Npm(t)].module = temp[a][Native(t)].build
             /\ temp[a][Npm(t)].config = temp[a][Native(t)].build
             /\ temp[a][Npm(t)].manifest.target = t
             /\ temp[a][Native(t)].kind = "sound"
  <2>1. /\ temp[a][Npm(t)] = SatellitePackage(t, source[a][t])
        /\ temp[a][Native(t)] = source[a][t].bytes /\ OneSoundBuild(source[a][t])
    BY <1>1 DEF TempFiles
  <2>2. QED
    BY <2>1 DEF OneSoundBuild, SatellitePackage, Rendered
<1>5. QED
  BY <1>1, <1>2, <1>3, <1>4 DEF Consistent

\* The output stays whole.
LEMMA WholeKept ==
    ASSUME AssemblyInv, [AssemblyNext]_assemblyVars
    PROVE  OutputWhole'
<1>1. CASE out.by \in Assemblers
  <2>1. out' = out
    BY <1>1, OutputKept, MadeIsNotFree DEF AssemblyInv
  <2>2. \A files : Consistent(files)' = Consistent(files)
    OBVIOUS
  <2>3. QED
    BY <1>1, <2>1 DEF AssemblyInv, OutputWhole
<1>2. CASE out.by \notin Assemblers
  <2>1. ASSUME NEW a \in Assemblers, Rename(a), out' # out
        PROVE  OutputWhole'
    <3>1. step[a] = "rename" /\ out' = [by |-> a, files |-> temp[a]]
      BY <2>1 DEF Rename
    <3>2. Consistent(temp[a])
      BY <3>1, RenamedWhole DEF AssemblyInv, AssemblerInv
    <3>3. QED
      BY <3>1, <3>2 DEF OutputWhole
  <2>2. ASSUME NEW a \in Assemblers, AssemblerStep(a), ~ Rename(a)
        PROVE  out' = out \/ out' = NoOutput
    BY <2>2
       DEF AssemblerStep, Start, ReadArchive, CheckInventory, ReadModule,
           ReadConfig, CompareProject, CheckOutput, MakeTemp, PackCore, PackSatellite,
           CopyArchive, WriteSums, OutputExists, RemoveEmpty, RemoveWork, RemoveTemp,
           AssemblyFails, Kill
  <2>3. CASE UseOutput
    BY <2>3, <1>2, AssemblyAssumption DEF UseOutput, OutputWhole, Empty
  <2>4. CASE out' = out \/ out' = NoOutput
    BY <1>2, <2>4, AssemblyAssumption DEF OutputWhole, NoOutput
  <2>5. CASE UNCHANGED assemblyVars \/ \E t \in TargetSet : Rebuild(t)
    BY <2>4, <2>5 DEF assemblyVars, Rebuild
  <2>6. QED
    BY <2>1, <2>2, <2>3, <2>4, <2>5 DEF AssemblyNext
<1>3. QED
  BY <1>1, <1>2

-----------------------------------------------------------------------------
(***************************************************************************)
(* Release assembly: the invariant                                         *)
(***************************************************************************)
\* A build that replaces an archive is newer than all that were read of it.
LEMMA RebuildKeeps ==
    ASSUME AssemblyInv, NEW t \in TargetSet, Rebuild(t)
    PROVE  AssemblyTypeOK' /\ BuildsCounted' /\ \A a \in Assemblers : AssemblerInv(a)'
<1>1. PICK kind \in Kinds :
         archive' = [archive EXCEPT ![t] = [build |-> builds', kind |-> kind]]
  BY DEF Rebuild
<1>2. /\ builds \in Nat /\ builds' = builds + 1 /\ builds' \in 0..MaxBuilds
      /\ UNCHANGED <<step, at, source, temp, work, out>>
  BY AssemblyAssumption DEF AssemblyInv, AssemblyTypeOK, Rebuild
<1>3. /\ archive'[t].build = builds'
      /\ \A u \in TargetSet : u # t => archive'[u] = archive[u]
      /\ archive' \in [TargetSet -> Archives]
  BY <1>1, <1>2 DEF AssemblyInv, AssemblyTypeOK, Archives
<1>4. AssemblyTypeOK'
  BY <1>2, <1>3 DEF AssemblyInv, AssemblyTypeOK
<1>5. BuildsCounted'
  <2>1. \A u \in TargetSet : archive[u].build <= builds /\ archive[u].build \in Nat
    BY AssemblyAssumption DEF AssemblyInv, BuildsCounted, AssemblyTypeOK, Archives
  <2>2. \A u \in TargetSet : archive'[u].build <= builds'
    <3>1. \A u \in TargetSet : archive[u].build <= builds + 1
      BY <1>2, <2>1
    <3>2. builds + 1 <= builds + 1
      BY <1>2
    <3>3. QED
      BY <1>2, <1>3, <3>1, <3>2
  <2>3. QED
    BY <2>2 DEF BuildsCounted
<1>6. ASSUME NEW a \in Assemblers, NEW u \in TargetSet, ReadOf(a, u)
      PROVE  ReadOf(a, u)' /\ (Unchanged(a, u)' => Unchanged(a, u) /\ archive'[u] = archive[u])
  <2>1. CASE u = t
    <3>1. /\ source[a][t].bytes \in Archives
          /\ source[a][t].bytes.build <= archive[t].build /\ archive[t].build <= builds
      BY <1>6, <2>1 DEF ReadOf, AssemblyInv, BuildsCounted
    <3>2. source[a][t].bytes.build \in Nat /\ archive[t].build \in Nat
      BY <3>1, AssemblyAssumption DEF AssemblyInv, AssemblyTypeOK, Archives
    <3>3. source[a][t].bytes.build < archive'[t].build
      BY <1>2, <1>3, <3>1, <3>2
    <3>4. source'[a][t].bytes = source[a][t].bytes
      BY <1>2
    <3>5. /\ source[a][t].bytes.build <= archive'[t].build
          /\ source[a][t].bytes.build # archive'[t].build
      BY <1>2, <1>3, <3>2, <3>3
    <3>6. QED
      BY <2>1, <3>1, <3>4, <3>5 DEF ReadOf, Unchanged
  <2>2. CASE u # t
    BY <1>2, <1>3, <1>6, <2>2 DEF ReadOf, Unchanged
  <2>3. QED
    BY <2>1, <2>2
<1>7. ASSUME NEW a \in Assemblers, NEW u \in TargetSet, ArchiveVerified(a, u)
      PROVE  ArchiveVerified(a, u)'
  BY <1>2, <1>6, <1>7 DEF ArchiveVerified
<1>8. ASSUME NEW a \in Assemblers
      PROVE  AssemblerInv(a)'
  <2>1. /\ AssemblerInv(a) /\ Current(a)' = Current(a) /\ Current(a) \in TargetSet
        /\ at[a] \in 1..Len(Order)
    BY <1>2, CurrentIsTarget DEF AssemblyInv, Current
  <2>2. SourcesVerified(a)'
    <3>1. step[a] \in Verifying \ {"archive"} => Checked(a, Current(a))'
      <4>1. SUFFICES ASSUME step[a] \in Verifying \ {"archive"}
                     PROVE  Checked(a, Current(a))'
        OBVIOUS
      <4>2. Checked(a, Current(a)) /\ ReadOf(a, Current(a))
        BY <2>1, <4>1 DEF AssemblerInv, SourcesVerified, Checked
      <4>3. /\ ReadOf(a, Current(a))'
            /\ Unchanged(a, Current(a))' =>
                  Unchanged(a, Current(a)) /\ archive'[Current(a)] = archive[Current(a)]
        <5>1. PICK u : u = Current(a)
          OBVIOUS
        <5>2. u \in TargetSet /\ ReadOf(a, u) /\ Current(a)' = u
          BY <2>1, <4>2, <5>1
        <5>3. ReadOf(a, u)' /\ (Unchanged(a, u)' => Unchanged(a, u) /\ archive'[u] = archive[u])
          BY <1>6, <5>2
        <5>4. QED
          BY <5>1, <5>2, <5>3 DEF ReadOf, Unchanged
      <4>4. QED
        BY <1>2, <2>1, <4>2, <4>3 DEF Checked
    <3>2. step[a] \in Verifying => \A n \in 1..(at[a] - 1) : ArchiveVerified(a, Order[n])'
      <4>1. \A n \in 1..(at[a] - 1) : Order[n] \in TargetSet
        BY <2>1, OrderOfTargets
      <4>2. QED
        BY <1>7, <2>1, <4>1 DEF AssemblerInv, SourcesVerified
    <3>3. step[a] \in Making => \A u \in TargetSet : ArchiveVerified(a, u)'
      BY <1>7, <2>1 DEF AssemblerInv, SourcesVerified
    <3>4. QED
      BY <1>2, <3>1, <3>2, <3>3 DEF SourcesVerified
  <2>3. TempMatches(a)'
    <3>1. /\ Copied(a)' = Copied(a) /\ Packed(a)' = Packed(a)
      BY <1>2 DEF Copied, Packed, Current
    <3>2. TempFiles(a, Copied(a), Packed(a)) => TempFiles(a, Copied(a), Packed(a))'
      BY <1>2, <3>1 DEF TempFiles, SatellitePackage, Rendered, OneSoundBuild
    <3>3. QED
      BY <1>2, <2>1, <3>2 DEF AssemblerInv, TempMatches
  <2>4. LeftClean(a)'
    BY <1>2, <2>1 DEF AssemblerInv, LeftClean
  <2>5. QED
    BY <2>2, <2>3, <2>4 DEF AssemblerInv
<1>9. QED
  BY <1>4, <1>5, <1>8

\* A step of one assembler keeps the invariant of all.
LEMMA AssemblerKeeps ==
    ASSUME AssemblyInv, NEW a \in Assemblers, AssemblerStep(a)
    PROVE  AssemblyTypeOK' /\ BuildsCounted' /\ \A b \in Assemblers : AssemblerInv(b)'
<1>1. AssemblyTypeOK /\ AssemblerInv(a) /\ AssemblyTypeOK' /\ Moves(a)
  BY AssemblyTypesKept, OneMoves DEF AssemblyInv
<1>2. \A b \in Assemblers : out.by = b => out' = out
  BY <1>1, OutputKept, MadeIsNotFree DEF AssemblyNext
<1>3. BuildsCounted'
  BY <1>1 DEF AssemblyInv, BuildsCounted, Moves
<1>4. AssemblerInv(a)'
  BY <1>1, <1>2, SourcesKept, FilesKept, CleanKept DEF AssemblerInv
<1>5. ASSUME NEW b \in Assemblers, b # a
      PROVE  AssemblerInv(b)'
  <2>1. AssemblerInv(b) /\ (out.by = b => out'.by = b)
    BY <1>2 DEF AssemblyInv
  <2>2. out'.by = b => out.by = b
    <3>1. out' = out \/ out' = NoOutput \/ out'.by = a
      BY MadeBySelf
    <3>2. QED
      BY <1>5, <3>1, AssemblyAssumption DEF NoOutput
  <2>3. QED
    BY <1>1, <1>5, <2>1, <2>2, UnmovedKeeps DEF Moves
<1>6. QED
  BY <1>1, <1>3, <1>4, <1>5

\* At first nothing has been read or made.
LEMMA AssemblyBegins == AssemblyInit => AssemblyInv
<1> SUFFICES ASSUME AssemblyInit PROVE AssemblyInv
  OBVIOUS
<1>1. AssemblyTypeOK
  BY OrderOfTargets, AssemblyAssumption
     DEF AssemblyInit, AssemblyTypeOK, AssemblerSteps, InProgress, Guarded, Reads, Unread, Archives,
         Kinds, NoOutput, Empty
<1>2. BuildsCounted
  BY DEF AssemblyInit, BuildsCounted
<1>3. \A a \in Assemblers : AssemblerInv(a)
  BY AssemblyAssumption
     DEF AssemblyInit, AssemblerInv, SourcesVerified, TempMatches, LeftClean, Verifying,
         Making, Packing, Summing, Unmade, Guarded, NoOutput, Empty
<1>4. OutputWhole
  BY AssemblyAssumption DEF AssemblyInit, OutputWhole, NoOutput, Empty
<1>5. QED
  BY <1>1, <1>2, <1>3, <1>4 DEF AssemblyInv

\* Every step keeps the invariant.
LEMMA AssemblyKept ==
    ASSUME AssemblyInv, [AssemblyNext]_assemblyVars
    PROVE  AssemblyInv'
<1>1. OutputWhole'
  BY WholeKept
<1>2. ASSUME NEW a \in Assemblers, AssemblerStep(a)
      PROVE  AssemblyInv'
  BY <1>1, <1>2, AssemblerKeeps DEF AssemblyInv
<1>3. ASSUME NEW t \in TargetSet, Rebuild(t)
      PROVE  AssemblyInv'
  BY <1>1, <1>3, RebuildKeeps DEF AssemblyInv
<1>4. CASE UseOutput \/ UNCHANGED assemblyVars
  <2>1. /\ UNCHANGED <<step, at, source, temp, work, archive, builds>>
        /\ \A b \in Assemblers : out.by = b => out' = out
        /\ \A b \in Assemblers : out'.by = b => out.by = b
    BY <1>4, OutputKept, MadeIsNotFree, AssemblyAssumption
       DEF UseOutput, assemblyVars, AssemblyNext, AssemblyInv, Empty
  <2>2. AssemblyTypeOK' /\ BuildsCounted'
    BY <1>4, <2>1
       DEF AssemblyInv, AssemblyTypeOK, BuildsCounted, UseOutput, assemblyVars, Empty
  <2>3. ASSUME NEW b \in Assemblers
        PROVE  AssemblerInv(b)'
    <3>1. AssemblerInv(b) /\ (out.by = b <=> out'.by = b)
      BY <2>1 DEF AssemblyInv
    <3>2. QED
      BY <2>1, <3>1, UnmovedKeeps
  <2>4. QED
    BY <1>1, <2>2, <2>3 DEF AssemblyInv
<1>5. QED
  BY <1>2, <1>3, <1>4 DEF AssemblyNext

\* What every assembler has verified and made, whatever is replaced meanwhile, is
\* an invariant of release assembly.
THEOREM AssemblyInvariant == AssemblySpec => []AssemblyInv
BY AssemblyBegins, AssemblyKept, PTL DEF AssemblySpec

\* Type correctness of release assembly
THEOREM AssemblyTypeCorrect == AssemblySpec => []AssemblyTypeOK
<1>1. AssemblyInv => AssemblyTypeOK
  BY DEF AssemblyInv
<1>2. QED
  BY AssemblyInvariant, <1>1, PTL

\* assembleRelease: for any number of assemblers and targets, and whatever archives
\* are built meanwhile, an output made by an assembler is a whole release, of one
\* sound build for each target.
THEOREM AlwaysOutputWhole == AssemblySpec => []OutputWhole
<1>1. AssemblyInv => OutputWhole
  BY DEF AssemblyInv
<1>2. QED
  BY AssemblyInvariant, <1>1, PTL

\* assembleRelease, finally: an assembler that ends, other than killed or by a
\* removal that throws, leaves no directory beside the output; one that succeeds
\* has made the output; and of a release that is made nothing is left beside it,
\* however its assembler ends.
THEOREM AlwaysEndsCleanly == AssemblySpec => []EndsCleanly
<1>1. AssemblyInv => EndsCleanly
  BY DEF AssemblyInv, AssemblerInv, LeftClean, EndsCleanly
<1>2. QED
  BY AssemblyInvariant, <1>1, PTL

\* rmdirSync and renameSync: files in the output directory are never removed or
\* replaced, whoever put them there.
THEOREM AlwaysNeverClobbers == AssemblySpec => NeverClobbers
<1>1. AssemblyInv /\ [AssemblyNext]_assemblyVars =>
        (out \notin {NoOutput, Empty} => UNCHANGED out)
  BY OutputKept DEF AssemblyInv
<1>2. QED
  BY AssemblyInvariant, <1>1, PTL DEF AssemblySpec, NeverClobbers

-----------------------------------------------------------------------------
(***************************************************************************)
(* What the jobs of a release hand to each other                           *)
(***************************************************************************)
Bundles == [of : [Targets -> Builds], id : 1..MaxAttests]

\* A payload as it leaves the job that attests
Whole(pl) == pl \in Payloads /\ pl.bundle \in Bundles /\ pl.bundle.of = pl.build

\* The run has one payload artifact or none, and it is whole.
StoredWhole ==
    /\ artifacts = {} \/ \E pl \in Payloads : artifacts = {pl}
    /\ \A pl \in artifacts : Whole(pl)
    /\ pc = "save" => artifacts = {}

\* A step belongs to its job, whose predecessors have succeeded.
StepOfJob ==
    /\ passed \in 0..5
    /\ pc = "build" => passed = 0
    /\ pc \in {"find", "assemble", "lock", "attest", "delete", "save"} => passed = 1
    /\ pc = "stage" => passed = 2
    /\ pc \in {"fetch", "poll"} => passed = 3
    /\ pc \in {"get", "view", "create", "put", "publish"} => passed = 4
    /\ passed >= 1 => native \in [Targets -> Builds]

\* The payload at hand is as far as its job has come, and the job that waits has
\* a poll left.
PayloadAtHand ==
    /\ pc \in {"lock", "attest"} =>
          /\ payload \in Payloads
          /\ payload = [build |-> native, bundle |-> None]
    /\ pc \in {"delete", "save", "poll", "view", "create", "put", "publish"} =>
          Whole(payload)
    /\ prior # None => Whole(prior)
    /\ pc = "lock" => prior # None
    /\ pc = "poll" => polls >= 1

PublishedAs(pl) == \A p \in Packages : npm[p] = AsNpm("published", p, pl.build)

\* Once the job that waits has succeeded, npm has what the payload has.
NpmFollowed ==
    /\ \A p \in Packages : npm[p].state # "absent" => npm[p].bytes \in Builds \cup {Core}
    /\ pc = "poll" =>
          /\ artifacts \subseteq {payload}
          /\ \A p \in exact : npm[p] = AsNpm("published", p, payload.build)
    /\ passed >= 4 => \A pl \in artifacts : PublishedAs(pl)
    /\ pc \in {"view", "create", "put", "publish"} => PublishedAs(payload)

\* Until it is published, the release is a draft; it is published verified.
DraftUntilVerified ==
    /\ pc = "create" => github = None
    /\ pc \in {"put", "publish"} => ~ Released
    /\ pc = "publish" /\ github # None => Verified
    /\ github # None =>
          github = [draft |-> github.draft, assets |-> [n \in Assets |-> github.assets[n]]]

LifecycleInv ==
    /\ TypeOK
    /\ StoredWhole
    /\ StepOfJob
    /\ PayloadAtHand
    /\ NpmFollowed
    /\ DraftUntilVerified
    /\ ReleasedExactly
-----------------------------------------------------------------------------
(***************************************************************************)
(* Steps and jobs                                                          *)
(***************************************************************************)
\* An attempt has five jobs.
LEMMA Jobs ==
    /\ DOMAIN Entry = 1..5 /\ Len(Entry) = 5
    /\ Entry[1] = "build" /\ Entry[2] = "find" /\ Entry[3] = "stage"
    /\ Entry[4] = "fetch" /\ Entry[5] = "get"
BY DEF Entry

\* The jobs, one by one
LEMMA OneOfFive ==
    \A job \in 1..5 : job = 1 \/ job = 2 \/ job = 3 \/ job = 4 \/ job = 5
OBVIOUS

\* The steps, one by one
LEMMA TheSteps ==
    Steps = {"idle", "assemble", "lock", "attest", "delete", "save", "poll", "view",
             "create", "put", "publish", "build", "find", "stage", "fetch", "get"}
<1>1. {Entry[job] : job \in DOMAIN Entry} = {"build", "find", "stage", "fetch", "get"}
  BY OneOfFive, Jobs
<1>2. QED
  BY <1>1 DEF Steps

\* A set of one or none, as TypeOK says it
LEMMA AtMostOne ==
    ASSUME NEW S, S = {} \/ \E pl \in Payloads : S = {pl}
    PROVE  S \subseteq Payloads /\ Cardinality(S) <= 1
<1>1. CASE S = {}
  BY <1>1, FS_EmptySet
<1>2. ASSUME NEW pl \in Payloads, S = {pl}
      PROVE  S \subseteq Payloads /\ Cardinality(S) <= 1
  BY <1>2, FS_Singleton
<1>3. QED
  BY <1>1, <1>2

\* An attempt is over, or its next job begins, on a runner of its own.
NewJob ==
    /\ passed' \in 0..5
    /\ pc' \in {"idle", "build", "find", "stage", "fetch", "get"}
    /\ pc' = "build" => passed' = 0
    /\ pc' = "find" => passed' = 1
    /\ pc' = "stage" => passed' = 2
    /\ pc' = "fetch" => passed' = 3
    /\ pc' = "get" => passed' = 4
    /\ payload' = None /\ prior' = None /\ exact' = {} /\ polls' = 0
    /\ left' \subseteq Packages /\ staged' \subseteq Packages

\* After a failure no job runs, and what has passed stays passed.
LEMMA StopBegins ==
    ASSUME LifecycleInv, Stop
    PROVE  NewJob /\ UNCHANGED jobVars
BY DEF LifecycleInv, TypeOK, StepOfJob, Stop, Goto, Leave, jobVars, NewJob

\* After a success the next job is at its first step.
LEMMA PassBegins ==
    ASSUME LifecycleInv, Pass, passed \in 0..4
    PROVE  NewJob /\ passed' = passed + 1
<1>1. /\ passed' \in 0..5 /\ passed' = passed + 1 /\ UNCHANGED staged
      /\ payload' = None /\ prior' = None /\ exact' = {} /\ polls' = 0
      /\ left' = IF passed' = 2 THEN Packages \ staged ELSE {}
      /\ pc' = IF passed' < 5 THEN Entry[passed' + 1] ELSE "idle"
  BY Jobs DEF Pass, Goto, Leave
<1>2. passed = 0 \/ passed = 1 \/ passed = 2 \/ passed = 3 \/ passed = 4
  OBVIOUS
<1>3. /\ pc' \in {"idle", "build", "find", "stage", "fetch", "get"}
      /\ pc' = "build" => passed' = 0
      /\ pc' = "find" => passed' = 1
      /\ pc' = "stage" => passed' = 2
      /\ pc' = "fetch" => passed' = 3
      /\ pc' = "get" => passed' = 4
  BY <1>1, <1>2, Jobs
<1>4. QED
  BY <1>1, <1>3 DEF NewJob, LifecycleInv, TypeOK

\* A job that is run again is at its first step.
LEMMA RunBegins ==
    ASSUME LifecycleInv, NEW job \in DOMAIN Entry, Run(job)
    PROVE  NewJob /\ (passed' >= 4 => passed >= 4) /\ (passed' >= 1 => passed >= 1)
<1>1. /\ job \in 1..5 /\ passed \in 0..5 /\ job <= passed + 1
      /\ passed' = job - 1 /\ pc' = Entry[job]
      /\ payload' = None /\ prior' = None /\ exact' = {} /\ polls' = 0
      /\ left' = IF job = 3 THEN Packages \ staged' ELSE {}
  BY Jobs DEF Run, Goto, Leave, LifecycleInv, StepOfJob
<1>2. staged' \subseteq Packages
  BY DEF Run, LifecycleInv, TypeOK
<1>3. /\ pc' \in {"idle", "build", "find", "stage", "fetch", "get"}
      /\ pc' = "build" => passed' = 0
      /\ pc' = "find" => passed' = 1
      /\ pc' = "stage" => passed' = 2
      /\ pc' = "fetch" => passed' = 3
      /\ pc' = "get" => passed' = 4
  BY <1>1, OneOfFive, Jobs
<1>4. QED
  BY <1>1, <1>2, <1>3 DEF NewJob

\* What is in GitHub's hands, whatever the job
GithubForm ==
    github # None =>
        /\ github.draft \in BOOLEAN
        /\ Assets \subseteq ExpectedPayload \cup {Foreign}
        /\ github = [draft |-> github.draft, assets |-> [n \in Assets |-> github.assets[n]]]

\* A new job finds what the last one left where it belongs.
LEMMA Begun ==
    ASSUME LifecycleInv, NewJob, UNCHANGED attests, UNCHANGED npm, calm' \in BOOLEAN,
           native' \in [Targets -> Builds \cup {None}],
           passed' >= 1 => native' \in [Targets -> Builds],
           artifacts' = {} \/ \E pl \in Payloads : artifacts' = {pl},
           \A pl \in artifacts' : Whole(pl),
           passed' >= 4 => \A pl \in artifacts' : PublishedAs(pl),
           GithubForm', ReleasedExactly'
    PROVE  LifecycleInv'
<1>1. TypeOK'
  <2>1. artifacts' \subseteq Payloads /\ Cardinality(artifacts') <= 1
    BY AtMostOne
  <2>2. /\ pc' \in Steps /\ staged' \subseteq Packages
        /\ left' \subseteq Packages \cup ExpectedPayload
        /\ payload' = None /\ prior' = None /\ exact' = {} /\ polls' = 0
    BY TheSteps DEF NewJob
  <2>3. passed' \in 0..Len(Entry) /\ 0 \in 0..MaxPolls
    BY Jobs, LifecycleAssumption DEF NewJob
  <2>4. attests' \in 0..MaxAttests /\ npm' = npm
    BY DEF LifecycleInv, TypeOK
  <2>5. QED
    BY <2>1, <2>2, <2>3, <2>4 DEF LifecycleInv, TypeOK, GithubForm
<1>2. StoredWhole'
  BY DEF StoredWhole, NewJob, Whole
<1>3. StepOfJob'
  BY DEF StepOfJob, NewJob
<1>4. PayloadAtHand'
  BY DEF PayloadAtHand, NewJob
<1>5. NpmFollowed'
  BY DEF LifecycleInv, NpmFollowed, PublishedAs, NewJob
<1>6. DraftUntilVerified'
  BY DEF DraftUntilVerified, NewJob, GithubForm
<1>7. QED
  BY <1>1, <1>2, <1>3, <1>4, <1>5, <1>6 DEF LifecycleInv

\* The release is of the form that GithubForm gives.
LEMMA FormNow ==
    ASSUME LifecycleInv
    PROVE  GithubForm
BY DEF LifecycleInv, TypeOK, DraftUntilVerified, GithubForm

\* An attempt ends, or a job that has no more to leave than it began with.
LEMMA BegunUnchanged ==
    ASSUME LifecycleInv, NewJob, passed' >= 4 => passed >= 4, passed' >= 1 => passed >= 1,
           UNCHANGED native, UNCHANGED storeVars, UNCHANGED npm, UNCHANGED github,
           calm' \in BOOLEAN
    PROVE  LifecycleInv'
<1>1. GithubForm' /\ ReleasedExactly'
  BY FormNow DEF LifecycleInv, GithubForm, ReleasedExactly, Released, Assets
<1>2. /\ artifacts = {} \/ \E pl \in Payloads : artifacts = {pl}
      /\ \A pl \in artifacts : Whole(pl)
      /\ passed >= 4 => \A pl \in artifacts : PublishedAs(pl)
      /\ passed >= 1 => native \in [Targets -> Builds]
      /\ native \in [Targets -> Builds \cup {None}]
      /\ passed \in 0..5 /\ passed' \in 0..5
  BY DEF LifecycleInv, StoredWhole, NpmFollowed, StepOfJob, TypeOK, NewJob
<1>3. QED
  BY <1>1, <1>2, Begun DEF storeVars

\* An attempt that stops keeps the invariant, if it has changed no store.
LEMMA Stopped ==
    ASSUME LifecycleInv, Stop, UNCHANGED storeVars, UNCHANGED npm,
           UNCHANGED github, calm' \in BOOLEAN
    PROVE  LifecycleInv'
<1>1. NewJob /\ UNCHANGED jobVars
  BY StopBegins
<1>2. passed' = passed
  BY <1>1 DEF jobVars
<1>3. UNCHANGED native
  BY <1>1 DEF jobVars
<1>4. QED
  BY <1>1, <1>2, <1>3, BegunUnchanged

\* Run keeps the invariant.
LEMMA RunStep ==
    ASSUME LifecycleInv, NEW job \in DOMAIN Entry, Run(job)
    PROVE  LifecycleInv'
<1>1. NewJob /\ (passed' >= 4 => passed >= 4) /\ (passed' >= 1 => passed >= 1)
  BY RunBegins
<1>2. /\ UNCHANGED native /\ UNCHANGED storeVars /\ UNCHANGED npm
      /\ UNCHANGED github /\ UNCHANGED calm
  BY DEF Run
<1>3. calm' \in BOOLEAN
  BY <1>2 DEF LifecycleInv, TypeOK
<1>4. QED
  BY <1>1, <1>2, <1>3, BegunUnchanged

\* Fail keeps the invariant.
LEMMA FailStep ==
    ASSUME LifecycleInv, Fail
    PROVE  LifecycleInv'
BY Stopped DEF Fail, LifecycleInv, TypeOK

\* A step that is not one of GitHub's leaves the release as it is.
LEMMA ReleaseSame ==
    ASSUME LifecycleInv, UNCHANGED npm, UNCHANGED github
    PROVE  GithubForm' /\ ReleasedExactly'
BY FormNow DEF LifecycleInv, GithubForm, ReleasedExactly, Released, Assets

\* Build keeps the invariant.
LEMMA BuildStep ==
    ASSUME LifecycleInv, Build
    PROVE  LifecycleInv'
<1>1. /\ passed = 0 /\ Pass /\ native' \in [Targets -> Builds]
      /\ UNCHANGED storeVars /\ UNCHANGED npm /\ UNCHANGED github /\ UNCHANGED calm
  BY DEF Build, LifecycleInv, StepOfJob
<1>2. NewJob /\ passed' = 1
  BY <1>1, PassBegins
<1>3. GithubForm' /\ ReleasedExactly'
  BY <1>1, ReleaseSame
<1>4. /\ UNCHANGED attests /\ UNCHANGED artifacts /\ calm' \in BOOLEAN
      /\ native' \in [Targets -> Builds \cup {None}]
      /\ artifacts = {} \/ \E pl \in Payloads : artifacts = {pl}
      /\ \A pl \in artifacts : Whole(pl)
  BY <1>1 DEF LifecycleInv, TypeOK, StoredWhole, storeVars
<1>5. QED
  BY <1>1, <1>2, <1>3, <1>4, Begun

\* SaveArtifact keeps the invariant.
LEMMA SaveArtifactStep ==
    ASSUME LifecycleInv, SaveArtifact
    PROVE  LifecycleInv'
<1>1. /\ passed = 1 /\ Pass /\ Whole(payload) /\ payload \in Payloads
      /\ artifacts' = {payload} /\ native \in [Targets -> Builds]
      /\ UNCHANGED native /\ UNCHANGED attests /\ UNCHANGED npm /\ UNCHANGED github
      /\ UNCHANGED calm
  BY DEF SaveArtifact, LifecycleInv, StepOfJob, StoredWhole, PayloadAtHand, Whole
<1>2. NewJob /\ passed' = 2
  BY <1>1, PassBegins
<1>3. GithubForm' /\ ReleasedExactly'
  BY <1>1, ReleaseSame
<1>4. /\ calm' \in BOOLEAN /\ native' \in [Targets -> Builds \cup {None}]
  BY <1>1 DEF LifecycleInv, TypeOK
<1>5. QED
  BY <1>1, <1>2, <1>3, <1>4, Begun

\* StageDone keeps the invariant.
LEMMA StageDoneStep ==
    ASSUME LifecycleInv, StageDone
    PROVE  LifecycleInv'
<1>1. /\ UNCHANGED storeVars /\ UNCHANGED npm /\ UNCHANGED github /\ UNCHANGED calm
      /\ calm' \in BOOLEAN /\ passed = 2
  BY DEF StageDone, LifecycleInv, TypeOK, StepOfJob
<1>2. CASE Pass /\ UNCHANGED native
  BY <1>1, <1>2, PassBegins, BegunUnchanged
<1>3. CASE Stop
  BY <1>1, <1>3, Stopped
<1>4. QED
  BY <1>2, <1>3 DEF StageDone

\* DraftGone keeps the invariant.
LEMMA DraftGoneStep ==
    ASSUME LifecycleInv, DraftGone
    PROVE  LifecycleInv'
BY Stopped DEF DraftGone, LifecycleInv, TypeOK

\* Where a job goes on, but for the payload and what is left to do.
GoesOn ==
    /\ pc' \in Steps /\ UNCHANGED jobVars /\ calm' \in BOOLEAN
    /\ left' \subseteq Packages \cup ExpectedPayload
    /\ exact' \subseteq Packages /\ polls' \in 0..MaxPolls
    /\ attests' \in 0..MaxAttests
    /\ payload' \in Payloads \cup {None} /\ prior' \in Payloads \cup {None}
    /\ prior' # None => pc' \in {"assemble", "lock", "delete", "save"}

\* An artifact that was there is, or is not any more.
LEMMA StillStored ==
    ASSUME LifecycleInv, UNCHANGED artifacts \/ artifacts' = {}, pc' # "save" \/ artifacts' = {}
    PROVE  /\ StoredWhole'
           /\ artifacts' \subseteq artifacts
           /\ artifacts' \subseteq Payloads /\ Cardinality(artifacts') <= 1
<1>1. artifacts' = {} \/ \E pl \in Payloads : artifacts' = {pl}
  BY DEF LifecycleInv, StoredWhole
<1>2. artifacts' \subseteq Payloads /\ Cardinality(artifacts') <= 1
  BY <1>1, AtMostOne
<1>3. QED
  BY <1>1, <1>2 DEF LifecycleInv, StoredWhole, Whole

\* A step of a job that is not about GitHub keeps what holds of the rest.
LEMMA WentOn ==
    ASSUME LifecycleInv, GoesOn, UNCHANGED npm, UNCHANGED github,
           UNCHANGED artifacts \/ artifacts' = {}, pc' # "save" \/ artifacts' = {},
           StepOfJob', PayloadAtHand', NpmFollowed', DraftUntilVerified'
    PROVE  LifecycleInv'
<1>1. StoredWhole' /\ artifacts' \subseteq Payloads /\ Cardinality(artifacts') <= 1
  BY StillStored
<1>2. ReleasedExactly' /\ GithubForm'
  BY ReleaseSame
<1>3. TypeOK'
  BY <1>1, <1>2 DEF LifecycleInv, TypeOK, GoesOn, jobVars, GithubForm
<1>4. QED
  BY <1>1, <1>2, <1>3 DEF LifecycleInv

\* The payload of the native archives, before it is attested
LEMMA MadeHere ==
    ASSUME NEW build \in [Targets -> Builds]
    PROVE  [build |-> build, bundle |-> None] \in Payloads
BY DEF Payloads

\* A payload with a bundle that attests it is whole.
LEMMA AttestedWhole ==
    ASSUME NEW build \in [Targets -> Builds], NEW bundle \in Bundles,
           bundle.of = build, payload = [build |-> build, bundle |-> None]
    PROVE  Whole(Attested(bundle)) /\ Attested(bundle) \in Payloads
<1>1. Attested(bundle) = [build |-> build, bundle |-> bundle]
  BY DEF Attested
<1>2. [build |-> build, bundle |-> bundle] \in Payloads
  BY DEF Payloads, Bundles
<1>3. QED
  BY <1>1, <1>2 DEF Whole

\* SHA256SUMS tells the builds of one payload from those of another.
LEMMA SumsAreBuilds ==
    /\ Sums \in ExpectedPayload \ {Bundle}
    /\ \A pl : Content(pl, Sums) = pl.build
<1>1. Sums \in ExpectedPayload /\ Sums # Bundle /\ Sums[1] = "file"
  BY DEF Sums, Bundle, ExpectedPayload
<1>2. QED
  BY <1>1 DEF Content

\* What reuseAttestationBundle takes from the prior payload attests the new one.
LEMMA ReusedWhole ==
    ASSUME LifecycleInv, pc = "lock", Inspected(prior, TRUE), SamePayload(prior, payload)
    PROVE  Whole(Attested(prior.bundle)) /\ Attested(prior.bundle) \in Payloads
<1>1. /\ native \in [Targets -> Builds] /\ payload = [build |-> native, bundle |-> None]
      /\ payload.build = native
  BY DEF LifecycleInv, StepOfJob, PayloadAtHand
<1>2. prior.build = payload.build
  BY SumsAreBuilds DEF SamePayload
<1>3. Whole(prior)
  BY DEF LifecycleInv, PayloadAtHand
<1>4. QED
  BY <1>1, <1>2, <1>3, AttestedWhole DEF Whole

\* The bundle the attest action makes is of the payload.
LEMMA NewlyAttested ==
    ASSUME LifecycleInv, pc = "attest", attests < MaxAttests
    PROVE  LET bundle == [of |-> payload.build, id |-> attests + 1]
           IN  Whole(Attested(bundle)) /\ Attested(bundle) \in Payloads
<1> DEFINE bundle == [of |-> payload.build, id |-> attests + 1]
<1>1. /\ native \in [Targets -> Builds] /\ payload = [build |-> native, bundle |-> None]
      /\ payload.build = native
  BY DEF LifecycleInv, StepOfJob, PayloadAtHand
<1>2. attests + 1 \in 1..MaxAttests
  BY LifecycleAssumption DEF LifecycleInv, TypeOK
<1>3. bundle \in Bundles /\ bundle.of = native
  BY <1>1, <1>2 DEF Bundles
<1>4. QED
  BY <1>1, <1>3, AttestedWhole

\* FindPrior keeps the invariant.
LEMMA FindPriorStep ==
    ASSUME LifecycleInv, FindPrior
    PROVE  LifecycleInv'
<1>1. CASE ~ (~ (Cardinality(artifacts) > 1))
  BY <1>1, Stopped DEF FindPrior, LifecycleInv, TypeOK, storeVars
<1>2. CASE ~ (Cardinality(artifacts) > 1)
  <2>1. GoesOn
    BY <1>2, TheSteps
       DEF FindPrior, Goto, jobVars, localVars, storeVars, LifecycleInv, TypeOK,
           GoesOn
  <2>2. StepOfJob'
    BY <1>2
       DEF FindPrior, Goto, jobVars, localVars, storeVars, LifecycleInv,
           StepOfJob
  <2>3. PayloadAtHand'
    BY <1>2
       DEF FindPrior, Goto, jobVars, localVars, storeVars, LifecycleInv,
           PayloadAtHand, Whole, StoredWhole
  <2>4. NpmFollowed'
    BY <1>2
       DEF FindPrior, Goto, jobVars, localVars, storeVars, LifecycleInv,
           NpmFollowed, PublishedAs, StepOfJob
  <2>5. DraftUntilVerified'
    BY <1>2
       DEF FindPrior, Goto, jobVars, localVars, storeVars, LifecycleInv,
           DraftUntilVerified, Released, Assets, Verified, Content
  <2>6. UNCHANGED npm /\ UNCHANGED github
    BY <1>2 DEF FindPrior
  <2>7. (UNCHANGED artifacts \/ artifacts' = {}) /\ (pc' # "save" \/ artifacts' = {})
    BY <1>2
       DEF FindPrior, Goto, jobVars, localVars, storeVars, LifecycleInv,
           StoredWhole
  <2>8. QED
    BY <2>1, <2>2, <2>3, <2>4, <2>5, <2>6, <2>7, WentOn
<1>3. QED
  BY <1>1, <1>2

\* Assemble keeps the invariant.
LEMMA AssembleStep ==
    ASSUME LifecycleInv, Assemble
    PROVE  LifecycleInv'
<1>1. CASE ~ (prior = None \/ prior \in artifacts)
  BY <1>1, Stopped DEF Assemble, LifecycleInv, TypeOK, storeVars
<1>2. CASE prior = None \/ prior \in artifacts
  <2>1. GoesOn
    <3>1. /\ payload' = [build |-> native, bundle |-> None]
          /\ pc' \in {"attest", "lock"} /\ (prior # None => pc' = "lock")
          /\ UNCHANGED jobVars /\ UNCHANGED <<prior, left, exact, polls>>
          /\ UNCHANGED attests /\ UNCHANGED calm
      BY <1>2 DEF Assemble, Goto, storeVars
    <3>2. native \in [Targets -> Builds]
      BY DEF Assemble, LifecycleInv, StepOfJob
    <3>3. payload' \in Payloads
      BY <3>1, <3>2, MadeHere
    <3>4. QED
      BY <3>1, <3>3, TheSteps DEF LifecycleInv, TypeOK, GoesOn
  <2>2. StepOfJob'
    BY <1>2
       DEF Assemble, Goto, jobVars, localVars, storeVars, LifecycleInv,
           StepOfJob
  <2>3. PayloadAtHand'
    <3>1. /\ payload' = [build |-> native, bundle |-> None]
          /\ pc' \in {"attest", "lock"} /\ UNCHANGED native /\ UNCHANGED prior
          /\ pc' = "lock" => prior # None
      BY <1>2 DEF Assemble, Goto, jobVars
    <3>2. payload' \in Payloads
      BY <2>1, <3>1, MadeHere DEF Assemble, LifecycleInv, StepOfJob
    <3>3. QED
      BY <3>1, <3>2 DEF LifecycleInv, PayloadAtHand, Whole
  <2>4. NpmFollowed'
    BY <1>2
       DEF Assemble, Goto, jobVars, localVars, storeVars, LifecycleInv,
           NpmFollowed, PublishedAs, StepOfJob
  <2>5. DraftUntilVerified'
    BY <1>2
       DEF Assemble, Goto, jobVars, localVars, storeVars, LifecycleInv,
           DraftUntilVerified, Released, Assets, Verified, Content
  <2>6. UNCHANGED npm /\ UNCHANGED github
    BY <1>2 DEF Assemble
  <2>7. (UNCHANGED artifacts \/ artifacts' = {}) /\ (pc' # "save" \/ artifacts' = {})
    BY <1>2
       DEF Assemble, Goto, jobVars, localVars, storeVars, LifecycleInv,
           StoredWhole
  <2>8. QED
    BY <2>1, <2>2, <2>3, <2>4, <2>5, <2>6, <2>7, WentOn
<1>3. QED
  BY <1>1, <1>2

\* ReuseAttestation keeps the invariant.
LEMMA ReuseAttestationStep ==
    ASSUME LifecycleInv, ReuseAttestation
    PROVE  LifecycleInv'
<1>1. CASE ~ (Inspected(prior, TRUE) /\ Inspected(payload, FALSE) /\ SamePayload(prior, payload))
  BY <1>1, Stopped DEF ReuseAttestation, LifecycleInv, TypeOK, storeVars
<1>2. CASE Inspected(prior, TRUE) /\ Inspected(payload, FALSE) /\ SamePayload(prior, payload)
  <2>1. GoesOn
    <3>1. /\ payload' = Attested(prior.bundle) /\ pc' = "delete"
          /\ UNCHANGED jobVars /\ UNCHANGED <<prior, left, exact, polls>>
          /\ UNCHANGED attests /\ UNCHANGED calm
      BY <1>2 DEF ReuseAttestation, Goto, storeVars
    <3>2. payload' \in Payloads
      BY <1>2, <3>1, ReusedWhole DEF ReuseAttestation
    <3>3. QED
      BY <3>1, <3>2, TheSteps DEF LifecycleInv, TypeOK, GoesOn
  <2>2. StepOfJob'
    BY <1>2
       DEF ReuseAttestation, Goto, jobVars, localVars, storeVars, LifecycleInv,
           StepOfJob
  <2>3. PayloadAtHand'
    <3>1. payload' = Attested(prior.bundle) /\ pc' = "delete" /\ UNCHANGED prior
      BY <1>2 DEF ReuseAttestation, Goto
    <3>2. Whole(Attested(prior.bundle))
      BY <1>2, ReusedWhole DEF ReuseAttestation
    <3>3. QED
      BY <3>1, <3>2 DEF LifecycleInv, PayloadAtHand, Whole
  <2>4. NpmFollowed'
    BY <1>2
       DEF ReuseAttestation, Goto, jobVars, localVars, storeVars, LifecycleInv,
           NpmFollowed, PublishedAs, StepOfJob
  <2>5. DraftUntilVerified'
    BY <1>2
       DEF ReuseAttestation, Goto, jobVars, localVars, storeVars, LifecycleInv,
           DraftUntilVerified, Released, Assets, Verified, Content
  <2>6. UNCHANGED npm /\ UNCHANGED github
    BY <1>2 DEF ReuseAttestation
  <2>7. (UNCHANGED artifacts \/ artifacts' = {}) /\ (pc' # "save" \/ artifacts' = {})
    BY <1>2
       DEF ReuseAttestation, Goto, jobVars, localVars, storeVars, LifecycleInv,
           StoredWhole
  <2>8. QED
    BY <2>1, <2>2, <2>3, <2>4, <2>5, <2>6, <2>7, WentOn
<1>3. QED
  BY <1>1, <1>2

\* Attest keeps the invariant.
LEMMA AttestStep ==
    ASSUME LifecycleInv, Attest
    PROVE  LifecycleInv'
<1>1. CASE ~ (attests < MaxAttests)
  BY <1>1, Stopped DEF Attest, LifecycleInv, TypeOK, storeVars
<1>2. CASE attests < MaxAttests
  <2>1. GoesOn
    <3>1. /\ payload' = Attested([of |-> payload.build, id |-> attests + 1])
          /\ pc' = "delete" /\ attests' = attests + 1
          /\ UNCHANGED jobVars /\ UNCHANGED <<prior, left, exact, polls>>
          /\ UNCHANGED calm
      BY <1>2 DEF Attest, Goto
    <3>2. Attested([of |-> payload.build, id |-> attests + 1]) \in Payloads
      BY <1>2, NewlyAttested DEF Attest
    <3>3. attests' \in 0..MaxAttests
      BY <1>2, <3>1, LifecycleAssumption DEF LifecycleInv, TypeOK
    <3>4. QED
      BY <3>1, <3>2, <3>3, TheSteps DEF LifecycleInv, TypeOK, GoesOn
  <2>2. StepOfJob'
    BY <1>2
       DEF Attest, Goto, jobVars, localVars, storeVars, LifecycleInv, StepOfJob
  <2>3. PayloadAtHand'
    <3>1. /\ payload' = Attested([of |-> payload.build, id |-> attests + 1])
          /\ pc' = "delete" /\ UNCHANGED prior
      BY <1>2 DEF Attest, Goto
    <3>2. Whole(Attested([of |-> payload.build, id |-> attests + 1]))
      BY <1>2, NewlyAttested DEF Attest
    <3>3. QED
      BY <3>1, <3>2 DEF LifecycleInv, PayloadAtHand, Whole
  <2>4. NpmFollowed'
    BY <1>2
       DEF Attest, Goto, jobVars, localVars, storeVars, LifecycleInv,
           NpmFollowed, PublishedAs, StepOfJob
  <2>5. DraftUntilVerified'
    BY <1>2
       DEF Attest, Goto, jobVars, localVars, storeVars, LifecycleInv,
           DraftUntilVerified, Released, Assets, Verified, Content
  <2>6. UNCHANGED npm /\ UNCHANGED github
    BY <1>2 DEF Attest
  <2>7. (UNCHANGED artifacts \/ artifacts' = {}) /\ (pc' # "save" \/ artifacts' = {})
    BY <1>2
       DEF Attest, Goto, jobVars, localVars, storeVars, LifecycleInv,
           StoredWhole
  <2>8. QED
    BY <2>1, <2>2, <2>3, <2>4, <2>5, <2>6, <2>7, WentOn
<1>3. QED
  BY <1>1, <1>2

\* DeleteArtifact keeps the invariant.
LEMMA DeleteArtifactStep ==
    ASSUME LifecycleInv, DeleteArtifact
    PROVE  LifecycleInv'
<1>1. GoesOn
  BY TheSteps
     DEF DeleteArtifact, Goto, jobVars, localVars, storeVars, LifecycleInv,
         TypeOK, GoesOn
<1>2. StepOfJob'
  BY DEF DeleteArtifact, Goto, jobVars, localVars, storeVars, LifecycleInv,
         StepOfJob
<1>3. PayloadAtHand'
  BY DEF DeleteArtifact, Goto, jobVars, localVars, storeVars, LifecycleInv,
         PayloadAtHand, Whole
<1>4. NpmFollowed'
  BY DEF DeleteArtifact, Goto, jobVars, localVars, storeVars, LifecycleInv,
         NpmFollowed, PublishedAs, StepOfJob
<1>5. DraftUntilVerified'
  BY DEF DeleteArtifact, Goto, jobVars, localVars, storeVars, LifecycleInv,
         DraftUntilVerified, Released, Assets, Verified, Content
<1>6. UNCHANGED npm /\ UNCHANGED github
  BY DEF DeleteArtifact
<1>7. (UNCHANGED artifacts \/ artifacts' = {}) /\ (pc' # "save" \/ artifacts' = {})
  BY DEF DeleteArtifact, Goto, jobVars, localVars, storeVars, LifecycleInv,
         StoredWhole
<1>8. QED
  BY <1>1, <1>2, <1>3, <1>4, <1>5, <1>6, <1>7, WentOn

\* Expire keeps the invariant.
LEMMA ExpireStep ==
    ASSUME LifecycleInv, Expire
    PROVE  LifecycleInv'
<1>1. GoesOn
  BY TheSteps
     DEF Expire, Goto, jobVars, localVars, storeVars, LifecycleInv, TypeOK,
         GoesOn
<1>2. StepOfJob'
  BY DEF Expire, Goto, jobVars, localVars, storeVars, LifecycleInv, StepOfJob
<1>3. PayloadAtHand'
  BY DEF Expire, Goto, jobVars, localVars, storeVars, LifecycleInv,
         PayloadAtHand, Whole
<1>4. NpmFollowed'
  BY DEF Expire, Goto, jobVars, localVars, storeVars, LifecycleInv, NpmFollowed,
         PublishedAs, StepOfJob
<1>5. DraftUntilVerified'
  BY DEF Expire, Goto, jobVars, localVars, storeVars, LifecycleInv,
         DraftUntilVerified, Released, Assets, Verified, Content
<1>6. UNCHANGED npm /\ UNCHANGED github
  BY DEF Expire
<1>7. (UNCHANGED artifacts \/ artifacts' = {}) /\ (pc' # "save" \/ artifacts' = {})
  BY DEF Expire, Goto, jobVars, localVars, storeVars, LifecycleInv, StoredWhole
<1>8. QED
  BY <1>1, <1>2, <1>3, <1>4, <1>5, <1>6, <1>7, WentOn

\* WaitForNpm keeps the invariant.
LEMMA WaitForNpmStep ==
    ASSUME LifecycleInv, WaitForNpm
    PROVE  LifecycleInv'
<1>1. CASE ~ (artifacts # {})
  BY <1>1, Stopped DEF WaitForNpm, LifecycleInv, TypeOK, storeVars
<1>2. CASE artifacts # {}
  <2>1. GoesOn
    <3>1. payload' \in Payloads /\ prior' = prior
      BY <1>2 DEF WaitForNpm, LifecycleInv, TypeOK
    <3>2. prior = None
      BY DEF WaitForNpm, LifecycleInv, TypeOK
    <3>3. QED
      BY <1>2, <3>1, <3>2, TheSteps, LifecycleAssumption
         DEF WaitForNpm, Goto, jobVars, storeVars, LifecycleInv, TypeOK, GoesOn
  <2>2. StepOfJob'
    BY <1>2
       DEF WaitForNpm, Goto, jobVars, localVars, storeVars, LifecycleInv,
           StepOfJob
  <2>3. PayloadAtHand'
    BY <1>2, LifecycleAssumption
       DEF WaitForNpm, Goto, jobVars, localVars, storeVars, LifecycleInv,
           PayloadAtHand, Whole, StoredWhole
  <2>4. NpmFollowed'
    BY <1>2
       DEF WaitForNpm, Goto, jobVars, localVars, storeVars, LifecycleInv,
           NpmFollowed, PublishedAs, StepOfJob, StoredWhole
  <2>5. DraftUntilVerified'
    BY <1>2
       DEF WaitForNpm, Goto, jobVars, localVars, storeVars, LifecycleInv,
           DraftUntilVerified, Released, Assets, Verified, Content
  <2>6. UNCHANGED npm /\ UNCHANGED github
    BY <1>2 DEF WaitForNpm
  <2>7. (UNCHANGED artifacts \/ artifacts' = {}) /\ (pc' # "save" \/ artifacts' = {})
    BY <1>2
       DEF WaitForNpm, Goto, jobVars, localVars, storeVars, LifecycleInv,
           StoredWhole
  <2>8. QED
    BY <2>1, <2>2, <2>3, <2>4, <2>5, <2>6, <2>7, WentOn
<1>3. QED
  BY <1>1, <1>2

\* GetPayload keeps the invariant.
LEMMA GetPayloadStep ==
    ASSUME LifecycleInv, GetPayload
    PROVE  LifecycleInv'
<1>1. CASE ~ (artifacts # {})
  BY <1>1, Stopped DEF GetPayload, LifecycleInv, TypeOK, storeVars
<1>2. CASE artifacts # {}
  <2>1. GoesOn
    BY <1>2, TheSteps
       DEF GetPayload, Goto, jobVars, localVars, storeVars, LifecycleInv,
           TypeOK, GoesOn
  <2>2. StepOfJob'
    BY <1>2
       DEF GetPayload, Goto, jobVars, localVars, storeVars, LifecycleInv,
           StepOfJob
  <2>3. PayloadAtHand'
    BY <1>2
       DEF GetPayload, Goto, jobVars, localVars, storeVars, LifecycleInv,
           PayloadAtHand, Whole, StoredWhole
  <2>4. NpmFollowed'
    BY <1>2
       DEF GetPayload, Goto, jobVars, localVars, storeVars, LifecycleInv,
           NpmFollowed, PublishedAs, StepOfJob
  <2>5. DraftUntilVerified'
    BY <1>2
       DEF GetPayload, Goto, jobVars, localVars, storeVars, LifecycleInv,
           DraftUntilVerified, Released, Assets, Verified, Content
  <2>6. UNCHANGED npm /\ UNCHANGED github
    BY <1>2 DEF GetPayload
  <2>7. (UNCHANGED artifacts \/ artifacts' = {}) /\ (pc' # "save" \/ artifacts' = {})
    BY <1>2
       DEF GetPayload, Goto, jobVars, localVars, storeVars, LifecycleInv,
           StoredWhole
  <2>8. QED
    BY <2>1, <2>2, <2>3, <2>4, <2>5, <2>6, <2>7, WentOn
<1>3. QED
  BY <1>1, <1>2

\* CalmDown keeps the invariant.
LEMMA CalmDownStep ==
    ASSUME LifecycleInv, CalmDown
    PROVE  LifecycleInv'
<1>1. GoesOn
  BY TheSteps
     DEF CalmDown, Goto, jobVars, localVars, storeVars, LifecycleInv, TypeOK,
         GoesOn
<1>2. StepOfJob'
  BY DEF CalmDown, Goto, jobVars, localVars, storeVars, LifecycleInv, StepOfJob
<1>3. PayloadAtHand'
  BY DEF CalmDown, Goto, jobVars, localVars, storeVars, LifecycleInv,
         PayloadAtHand, Whole
<1>4. NpmFollowed'
  BY DEF CalmDown, Goto, jobVars, localVars, storeVars, LifecycleInv,
         NpmFollowed, PublishedAs, StepOfJob
<1>5. DraftUntilVerified'
  BY DEF CalmDown, Goto, jobVars, localVars, storeVars, LifecycleInv,
         DraftUntilVerified, Released, Assets, Verified, Content
<1>6. UNCHANGED npm /\ UNCHANGED github
  BY DEF CalmDown
<1>7. (UNCHANGED artifacts \/ artifacts' = {}) /\ (pc' # "save" \/ artifacts' = {})
  BY DEF CalmDown, Goto, jobVars, localVars, storeVars, LifecycleInv, StoredWhole
<1>8. QED
  BY <1>1, <1>2, <1>3, <1>4, <1>5, <1>6, <1>7, WentOn

\* VerifyUpload keeps the invariant.
LEMMA VerifyUploadStep ==
    ASSUME LifecycleInv, VerifyUpload
    PROVE  LifecycleInv'
<1>1. CASE ~ (github # None /\ Verified)
  BY <1>1, Stopped DEF VerifyUpload, LifecycleInv, TypeOK, storeVars
<1>2. CASE github # None /\ Verified
  <2>1. GoesOn
    BY <1>2, TheSteps
       DEF VerifyUpload, Goto, jobVars, localVars, storeVars, LifecycleInv,
           TypeOK, GoesOn
  <2>2. StepOfJob'
    BY <1>2
       DEF VerifyUpload, Goto, jobVars, localVars, storeVars, LifecycleInv,
           StepOfJob
  <2>3. PayloadAtHand'
    BY <1>2
       DEF VerifyUpload, Goto, jobVars, localVars, storeVars, LifecycleInv,
           PayloadAtHand, Whole
  <2>4. NpmFollowed'
    BY <1>2
       DEF VerifyUpload, Goto, jobVars, localVars, storeVars, LifecycleInv,
           NpmFollowed, PublishedAs, StepOfJob
  <2>5. DraftUntilVerified'
    BY <1>2
       DEF VerifyUpload, Goto, jobVars, localVars, storeVars, LifecycleInv,
           DraftUntilVerified, Released, Assets, Verified, Content
  <2>6. UNCHANGED npm /\ UNCHANGED github
    BY <1>2 DEF VerifyUpload
  <2>7. (UNCHANGED artifacts \/ artifacts' = {}) /\ (pc' # "save" \/ artifacts' = {})
    BY <1>2
       DEF VerifyUpload, Goto, jobVars, localVars, storeVars, LifecycleInv,
           StoredWhole
  <2>8. QED
    BY <2>1, <2>2, <2>3, <2>4, <2>5, <2>6, <2>7, WentOn
<1>3. QED
  BY <1>1, <1>2

\* What npm has published stays, so what was released, or found there, still is.
LEMMA PublishedStays ==
    ASSUME LifecycleInv, UNCHANGED github,
           \A p \in Packages : npm[p].state = "published" => npm'[p] = npm[p]
    PROVE  /\ ReleasedExactly'
           /\ \A pl : PublishedAs(pl) => PublishedAs(pl)'
           /\ \A p \in Packages : \A build :
                 npm[p] = AsNpm("published", p, build) => npm'[p] = npm[p]
<1>1. ASSUME NEW p \in Packages, NEW build, npm[p] = AsNpm("published", p, build)
      PROVE  npm'[p] = npm[p]
  BY <1>1 DEF AsNpm
<1>2. ASSUME NEW pl, PublishedAs(pl)
      PROVE  PublishedAs(pl)'
  BY <1>1, <1>2 DEF PublishedAs, AsNpm, PackageBytes
<1>3. ReleasedExactly'
  BY <1>1 DEF LifecycleInv, ReleasedExactly, Released, Assets, AsNpm, PackageBytes
<1>4. QED
  BY <1>1, <1>2, <1>3

NpmType ==
    [Packages -> [state : {"absent", "pending", "published"},
                  bytes : Builds \cup {Core, None}]]

NpmBytes == \A p \in Packages : npm[p].state # "absent" => npm[p].bytes \in Builds \cup {Core}

\* A package is staged, approved or rejected.
LEMMA NpmMoved ==
    ASSUME LifecycleInv, UNCHANGED pc, UNCHANGED passed, UNCHANGED native,
           UNCHANGED <<payload, prior, exact, polls>>, UNCHANGED storeVars,
           UNCHANGED github, UNCHANGED calm,
           staged' \subseteq Packages, left' \subseteq Packages \cup ExpectedPayload,
           npm' \in NpmType, NpmBytes',
           \A p \in Packages : npm[p].state = "published" => npm'[p] = npm[p]
    PROVE  LifecycleInv'
<1>1. /\ ReleasedExactly'
      /\ \A pl : PublishedAs(pl) => PublishedAs(pl)'
      /\ \A p \in Packages : \A build :
            npm[p] = AsNpm("published", p, build) => npm'[p] = npm[p]
  BY PublishedStays
<1>2. TypeOK'
  BY DEF LifecycleInv, TypeOK, NpmType, Assets, storeVars
<1>3. StoredWhole' /\ StepOfJob' /\ PayloadAtHand'
  BY DEF LifecycleInv, StoredWhole, StepOfJob, PayloadAtHand, Whole, storeVars
<1>4. DraftUntilVerified'
  BY DEF LifecycleInv, DraftUntilVerified, Released, Assets, Verified, Content
<1>5. NpmFollowed'
  <2>1. pc = "poll" => \A p \in exact : npm'[p] = AsNpm("published", p, payload.build)
    BY <1>1 DEF LifecycleInv, NpmFollowed, TypeOK
  <2>2. pc \in {"view", "create", "put", "publish"} => PublishedAs(payload)'
    <3>1. ASSUME PublishedAs(payload) PROVE PublishedAs(payload)'
      BY <1>1, <3>1 DEF PublishedAs, AsNpm, PackageBytes
    <3>2. QED
      BY <3>1 DEF LifecycleInv, NpmFollowed
  <2>3. passed >= 4 => \A pl \in artifacts : PublishedAs(pl)'
    BY <1>1 DEF LifecycleInv, NpmFollowed
  <2>4. QED
    BY <2>1, <2>2, <2>3
       DEF LifecycleInv, NpmFollowed, NpmBytes, storeVars, AsNpm, PackageBytes
<1>6. QED
  BY <1>1, <1>2, <1>3, <1>4, <1>5 DEF LifecycleInv

\* Approve keeps the invariant.
LEMMA ApproveStep ==
    ASSUME LifecycleInv, NEW p \in Packages, Approve(p)
    PROVE  LifecycleInv'
<1>1. npm \in NpmType /\ NpmBytes /\ npm[p].state = "pending"
  BY DEF Approve, LifecycleInv, TypeOK, NpmFollowed, NpmType, NpmBytes
<1>2. npm' = [npm EXCEPT ![p].state = "published"]
  BY DEF Approve
<1>3. /\ npm'[p].state = "published" /\ npm'[p].bytes = npm[p].bytes
      /\ \A q \in Packages \ {p} : npm'[q] = npm[q]
      /\ npm' \in NpmType
  BY <1>1, <1>2 DEF NpmType
<1>4. NpmBytes'
  BY <1>1, <1>3 DEF NpmBytes
<1>5. QED
  BY <1>1, <1>3, <1>4, NpmMoved
     DEF Approve, jobVars, localVars, storeVars, LifecycleInv, TypeOK

\* Reject keeps the invariant.
LEMMA RejectStep ==
    ASSUME LifecycleInv, NEW p \in Packages, Reject(p)
    PROVE  LifecycleInv'
<1>1. npm \in NpmType /\ NpmBytes /\ npm[p].state = "pending"
  BY DEF Reject, LifecycleInv, TypeOK, NpmFollowed, NpmType, NpmBytes
<1>2. npm' = [npm EXCEPT ![p] = [state |-> "absent", bytes |-> None]]
  BY DEF Reject
<1>3. /\ npm'[p].state = "absent"
      /\ \A q \in Packages \ {p} : npm'[q] = npm[q]
      /\ npm' \in NpmType
  BY <1>1, <1>2 DEF NpmType
<1>4. NpmBytes'
  BY <1>1, <1>3 DEF NpmBytes
<1>5. QED
  BY <1>1, <1>3, <1>4, NpmMoved
     DEF Reject, jobVars, localVars, storeVars, LifecycleInv, TypeOK

\* A package is made of its build, or of the core.
LEMMA PackageBytesTyped ==
    ASSUME NEW p \in Packages, NEW build \in [Targets -> Builds]
    PROVE  PackageBytes(p, build) \in Builds \cup {Core}
BY DEF PackageBytes, Packages

\* Stage keeps the invariant.
LEMMA StageStep ==
    ASSUME LifecycleInv, NEW p \in Packages, Stage(p)
    PROVE  LifecycleInv'
<1>1. npm \in NpmType /\ NpmBytes
  BY DEF LifecycleInv, TypeOK, NpmFollowed, NpmType, NpmBytes
<1>2. /\ staged' \subseteq Packages /\ left' \subseteq Packages \cup ExpectedPayload
      /\ UNCHANGED pc /\ UNCHANGED passed /\ UNCHANGED native
      /\ UNCHANGED <<payload, prior, exact, polls>> /\ UNCHANGED storeVars
      /\ UNCHANGED github /\ UNCHANGED calm
  BY DEF Stage, LifecycleInv, TypeOK
<1>3. CASE UNCHANGED npm
  <2>1. npm' \in NpmType /\ NpmBytes'
    BY <1>1, <1>3 DEF NpmBytes
  <2>2. QED
    BY <1>2, <1>3, <2>1, NpmMoved
<1>4. ASSUME NEW pl \in artifacts, npm[p].state = "absent",
             npm' = [npm EXCEPT ![p] = AsNpm("pending", p, pl.build)]
      PROVE  LifecycleInv'
  <2> DEFINE package == AsNpm("pending", p, pl.build)
  <2>1. pl.build \in [Targets -> Builds]
    BY DEF LifecycleInv, StoredWhole, Whole, Payloads
  <2>2. package.state = "pending" /\ package.bytes \in Builds \cup {Core}
    BY <2>1, PackageBytesTyped DEF AsNpm
  <2>3. package \in [state : {"absent", "pending", "published"},
                     bytes : Builds \cup {Core, None}]
    BY <2>2 DEF AsNpm
  <2> HIDE DEF package
  <2>4. npm' \in NpmType /\ npm'[p] = package /\ \A q \in Packages \ {p} : npm'[q] = npm[q]
    BY <1>1, <1>4, <2>3 DEF NpmType, package
  <2>5. NpmBytes'
    BY <1>1, <2>2, <2>4 DEF NpmBytes
  <2>6. QED
    BY <1>2, <1>4, <2>4, <2>5, NpmMoved
<1>5. QED
  BY <1>3, <1>4 DEF Stage, SelectPackage

\* Poll keeps the invariant.
LEMMA PollStep ==
    ASSUME LifecycleInv, NEW p \in Packages, Poll(p)
    PROVE  LifecycleInv'
<1>1. /\ UNCHANGED storeVars /\ UNCHANGED npm /\ UNCHANGED github /\ UNCHANGED calm
      /\ calm' \in BOOLEAN
  BY DEF Poll, LifecycleInv, TypeOK
<1>2. CASE Stop
  BY <1>1, <1>2, Stopped
<1>3. ASSUME left' = left \ {p}, UNCHANGED pc, UNCHANGED jobVars,
             UNCHANGED <<payload, prior, polls>>,
             \/ UNCHANGED exact
             \/ exact' = exact \cup {p} /\ npm[p] = AsNpm("published", p, payload.build)
      PROVE  LifecycleInv'
  <2>1. pc = "poll"
    BY DEF Poll
  <2>2. GoesOn
    BY <1>1, <1>3, TheSteps DEF LifecycleInv, TypeOK, GoesOn, storeVars
  <2>3. StepOfJob' /\ PayloadAtHand' /\ DraftUntilVerified'
    BY <1>1, <1>3, <2>1
       DEF LifecycleInv, StepOfJob, PayloadAtHand, Whole, DraftUntilVerified,
           Released, Assets, jobVars
  <2>4. NpmFollowed'
    BY <1>1, <1>3, <2>1
       DEF LifecycleInv, NpmFollowed, PublishedAs, AsNpm, PackageBytes, jobVars, storeVars
  <2>5. QED
    BY <1>1, <1>3, <2>1, <2>2, <2>3, <2>4, WentOn DEF storeVars
<1>4. QED
  BY <1>2, <1>3 DEF Poll, jobVars

\* PollDone keeps the invariant.
LEMMA PollDoneStep ==
    ASSUME LifecycleInv, PollDone
    PROVE  LifecycleInv'
<1>1. /\ UNCHANGED storeVars /\ UNCHANGED npm /\ UNCHANGED github /\ UNCHANGED calm
      /\ calm' \in BOOLEAN /\ pc = "poll" /\ passed = 3
      /\ native \in [Targets -> Builds]
  BY DEF PollDone, LifecycleInv, TypeOK, StepOfJob
<1>2. CASE exact = Packages /\ Pass /\ UNCHANGED native
  <2>1. NewJob /\ passed' = 4
    BY <1>1, <1>2, PassBegins
  <2>2. \A pl \in artifacts : PublishedAs(pl)
    BY <1>1, <1>2 DEF LifecycleInv, NpmFollowed, PublishedAs
  <2>3. GithubForm' /\ ReleasedExactly'
    BY <1>1, ReleaseSame
  <2>4. /\ artifacts = {} \/ \E pl \in Payloads : artifacts = {pl}
        /\ \A pl \in artifacts : Whole(pl)
        /\ native \in [Targets -> Builds \cup {None}]
    BY DEF LifecycleInv, StoredWhole, TypeOK
  <2>5. QED
    BY <1>1, <1>2, <2>1, <2>2, <2>3, <2>4, Begun DEF storeVars
<1>3. CASE Stop
  BY <1>1, <1>3, Stopped
<1>4. ASSUME polls # 1, polls' = polls - 1, left' = Packages, exact' = {}, UNCHANGED pc,
             UNCHANGED jobVars, UNCHANGED <<payload, prior>>, exact # Packages
      PROVE  LifecycleInv'
  <2>1. /\ polls \in 0..MaxPolls /\ polls >= 1
        /\ polls' \in 0..MaxPolls /\ polls' >= 1
    BY <1>1, <1>4, LifecycleAssumption DEF LifecycleInv, TypeOK, PayloadAtHand
  <2>2. GoesOn
    BY <1>1, <1>4, <2>1, TheSteps DEF LifecycleInv, TypeOK, GoesOn, storeVars
  <2>3. StepOfJob' /\ PayloadAtHand' /\ DraftUntilVerified'
    BY <1>1, <1>4, <2>1
       DEF LifecycleInv, StepOfJob, PayloadAtHand, Whole, DraftUntilVerified,
           Released, Assets, jobVars
  <2>4. NpmFollowed'
    BY <1>1, <1>4
       DEF LifecycleInv, NpmFollowed, PublishedAs, AsNpm, PackageBytes, jobVars, storeVars
  <2>5. QED
    BY <1>1, <1>4, <2>2, <2>3, <2>4, WentOn DEF storeVars
<1>5. QED
  BY <1>2, <1>3, <1>4 DEF PollDone

\* View keeps the invariant.
LEMMA ViewStep ==
    ASSUME LifecycleInv, View
    PROVE  LifecycleInv'
<1>1. /\ UNCHANGED storeVars /\ UNCHANGED npm /\ UNCHANGED github /\ UNCHANGED calm
      /\ calm' \in BOOLEAN /\ pc = "view" /\ passed = 4 /\ prior = None
      /\ Whole(payload) /\ PublishedAs(payload) /\ payload \in Payloads
  BY DEF View, LifecycleInv, TypeOK, StepOfJob, PayloadAtHand, NpmFollowed, Whole
<1>2. CASE Pass /\ UNCHANGED native
  <2>1. NewJob /\ passed' = 5
    BY <1>1, <1>2, PassBegins
  <2>2. QED
    BY <1>1, <1>2, <2>1, BegunUnchanged
<1>3. CASE Stop
  BY <1>1, <1>3, Stopped
<1>4. ASSUME pc' \in {"create", "put"}, UNCHANGED jobVars, UNCHANGED <<payload, prior>>,
             exact' = exact, polls' = polls, left' \subseteq Packages \cup ExpectedPayload,
             pc' = "create" => github = None,
             pc' = "put" => ~ Released
      PROVE  LifecycleInv'
  <2>1. GoesOn
    BY <1>1, <1>4, TheSteps DEF LifecycleInv, TypeOK, GoesOn, storeVars
  <2>2. StepOfJob' /\ PayloadAtHand'
    BY <1>1, <1>4 DEF LifecycleInv, StepOfJob, PayloadAtHand, Whole, jobVars
  <2>3. DraftUntilVerified'
    BY <1>1, <1>4 DEF LifecycleInv, DraftUntilVerified, Released, Assets
  <2>4. NpmFollowed'
    BY <1>1, <1>4
       DEF LifecycleInv, NpmFollowed, PublishedAs, AsNpm, PackageBytes, jobVars, storeVars
  <2>5. QED
    BY <1>1, <1>4, <2>1, <2>2, <2>3, <2>4, WentOn DEF storeVars
<1>5. CASE Goto("create") /\ github = None /\ UNCHANGED <<jobVars, localVars>>
  BY <1>1, <1>4, <1>5 DEF Goto, localVars, LifecycleInv, TypeOK
<1>6. CASE github # None /\ github.draft /\ BeginUpload
  BY <1>1, <1>4, <1>6 DEF BeginUpload, Goto, Released
<1>7. QED
  BY <1>2, <1>3, <1>5, <1>6 DEF View

\* A step that is one of GitHub's, of a draft, and of nothing else
LEMMA DraftMoved ==
    ASSUME LifecycleInv, UNCHANGED jobVars, UNCHANGED storeVars, UNCHANGED npm,
           UNCHANGED calm, UNCHANGED <<payload, prior, exact, polls>>,
           pc' = pc \/ (pc = "create" /\ pc' = "put"),
           left' \subseteq Packages \cup ExpectedPayload,
           GithubForm', Released' = FALSE,
           pc # "publish" \/ github' = None,
           pc' = "create" => github' = None
    PROVE  LifecycleInv'
<1>1. TypeOK'
  BY TheSteps DEF LifecycleInv, TypeOK, GithubForm, jobVars, storeVars
<1>2. StoredWhole' /\ StepOfJob' /\ PayloadAtHand'
  BY DEF LifecycleInv, StoredWhole, StepOfJob, PayloadAtHand, Whole, jobVars,
         storeVars
<1>3. NpmFollowed'
  BY DEF LifecycleInv, NpmFollowed, PublishedAs, AsNpm, PackageBytes, jobVars,
         storeVars
<1>4. DraftUntilVerified'
  BY DEF LifecycleInv, DraftUntilVerified, GithubForm
<1>5. ReleasedExactly'
  BY DEF ReleasedExactly
<1>6. QED
  BY <1>1, <1>2, <1>3, <1>4, <1>5 DEF LifecycleInv

\* Discard keeps the invariant.
LEMMA DiscardStep ==
    ASSUME LifecycleInv, Discard
    PROVE  LifecycleInv' /\ ~ Released /\ ~ Released'
<1>1. GithubForm' /\ Released' = FALSE /\ github' = None /\ ~ Released
  BY DEF Discard, GithubForm, Released
<1>2. QED
  BY <1>1, DraftMoved DEF Discard, localVars, LifecycleInv, TypeOK

\* github' is github with other assets.
LEMMA WithAssets ==
    ASSUME LifecycleInv, github # None, ~ Released, NEW files,
           github' = [github EXCEPT !.assets = files],
           DOMAIN files \subseteq ExpectedPayload \cup {Foreign},
           files = [n \in DOMAIN files |-> files[n]]
    PROVE  GithubForm' /\ Released' = FALSE
<1>1. /\ github = [draft |-> github.draft, assets |-> [n \in Assets |-> github.assets[n]]]
      /\ github.draft = TRUE
  BY DEF LifecycleInv, DraftUntilVerified, Released, TypeOK
<1>2. github' = [draft |-> TRUE, assets |-> files]
  BY <1>1
<1>3. github'.draft = TRUE /\ github'.assets = files
  BY <1>2
<1>4. QED
  BY <1>2, <1>3 DEF GithubForm, Released, Assets

\* AddForeign keeps the invariant.
LEMMA AddForeignStep ==
    ASSUME LifecycleInv, AddForeign
    PROVE  LifecycleInv' /\ ~ Released /\ ~ Released'
<1> DEFINE files == [n \in Assets \cup {Foreign} |->
                        IF n = Foreign THEN Corrupt ELSE github.assets[n]]
<1>1. /\ pc # "publish" /\ pc # "create" /\ github # None /\ ~ Released
      /\ github' = [github EXCEPT !.assets = files]
  BY DEF AddForeign, Released, LifecycleInv, DraftUntilVerified
<1>2. /\ DOMAIN files \subseteq ExpectedPayload \cup {Foreign}
      /\ files = [n \in DOMAIN files |-> files[n]]
  BY <1>1 DEF LifecycleInv, TypeOK
<1> HIDE DEF files
<1>3. GithubForm' /\ Released' = FALSE
  BY <1>1, <1>2, WithAssets
<1>4. QED
  BY <1>1, <1>3, DraftMoved DEF AddForeign, localVars, LifecycleInv, TypeOK

\* Clobber keeps the invariant.
LEMMA ClobberStep ==
    ASSUME LifecycleInv, NEW name \in ExpectedPayload, Clobber(name)
    PROVE  LifecycleInv' /\ ~ Released /\ ~ Released'
<1> DEFINE files == [n \in Assets \ {name} |-> github.assets[n]]
<1>1. /\ pc = "put" /\ github # None /\ ~ Released
      /\ github' = [github EXCEPT !.assets = files]
  BY DEF Clobber, LifecycleInv, DraftUntilVerified
<1>2. /\ DOMAIN files \subseteq ExpectedPayload \cup {Foreign}
      /\ files = [n \in DOMAIN files |-> files[n]]
  BY <1>1 DEF LifecycleInv, TypeOK
<1> HIDE DEF files
<1>3. GithubForm' /\ Released' = FALSE
  BY <1>1, <1>2, WithAssets
<1>4. QED
  BY <1>1, <1>3, DraftMoved DEF Clobber, localVars, LifecycleInv, TypeOK

\* Put keeps the invariant.
LEMMA PutStep ==
    ASSUME LifecycleInv, NEW name \in ExpectedPayload, Put(name)
    PROVE  LifecycleInv' /\ ~ Released /\ ~ Released'
<1>1. PICK bytes :
        github' = [github EXCEPT !.assets =
                      [n \in Assets \cup {name} |->
                          IF n = name THEN bytes ELSE github.assets[n]]]
  BY DEF Put
<1> DEFINE files == [n \in Assets \cup {name} |->
                        IF n = name THEN bytes ELSE github.assets[n]]
<1>2. /\ pc = "put" /\ github # None /\ ~ Released
      /\ github' = [github EXCEPT !.assets = files]
  BY <1>1 DEF Put, LifecycleInv, DraftUntilVerified
<1>3. /\ DOMAIN files \subseteq ExpectedPayload \cup {Foreign}
      /\ files = [n \in DOMAIN files |-> files[n]]
  BY <1>2 DEF LifecycleInv, TypeOK
<1> HIDE DEF files
<1>4. GithubForm' /\ Released' = FALSE
  BY <1>2, <1>3, WithAssets
<1>5. QED
  BY <1>2, <1>4, DraftMoved DEF Put, localVars, LifecycleInv, TypeOK

\* Create keeps the invariant.
LEMMA CreateStep ==
    ASSUME LifecycleInv, Create
    PROVE  LifecycleInv' /\ ~ Released /\ ~ Released'
<1>1. /\ pc = "create" /\ pc' = "put" /\ left' = ExpectedPayload
      /\ github' = [draft |-> TRUE, assets |-> <<>>]
  BY DEF Create, BeginUpload, Goto
<1>2. github'.draft = TRUE /\ github'.assets = <<>> /\ DOMAIN (github'.assets) = {}
  BY <1>1
<1>3. GithubForm' /\ Released' = FALSE /\ ~ Released
  BY <1>1, <1>2 DEF GithubForm, Released, Assets, LifecycleInv, DraftUntilVerified
<1>4. QED
  BY <1>1, <1>3, DraftMoved DEF Create, BeginUpload

\* The files of a payload, by their names
LEMMA FilesOf ==
    ASSUME NEW pl
    PROVE  /\ \A t \in Targets : <<"native", t>> \in ExpectedPayload
           /\ \A t \in Targets : Content(pl, <<"native", t>>) = pl.build[t]
           /\ \A p \in Packages : <<"npm", p>> \in ExpectedPayload
           /\ \A p \in Packages : Content(pl, <<"npm", p>>) = PackageBytes(p, pl.build)
           /\ Sums \in ExpectedPayload /\ Content(pl, Sums) = pl.build
           /\ Bundle \in ExpectedPayload /\ Content(pl, Bundle) = pl.bundle
<1>1. /\ \A t \in Targets : <<"native", t>> \in ExpectedPayload
      /\ \A p \in Packages : <<"npm", p>> \in ExpectedPayload
      /\ Sums \in ExpectedPayload /\ Bundle \in ExpectedPayload
  BY DEF ExpectedPayload
<1>2. ASSUME NEW t \in Targets PROVE Content(pl, <<"native", t>>) = pl.build[t]
  BY DEF Content, Sums
<1>3. ASSUME NEW p \in Packages
      PROVE  Content(pl, <<"npm", p>>) = PackageBytes(p, pl.build)
  BY DEF Content, Sums
<1>4. Content(pl, Sums) = pl.build /\ Content(pl, Bundle) = pl.bundle
  BY DEF Content, Sums, Bundle
<1>5. QED
  BY <1>1, <1>2, <1>3, <1>4

\* Publish keeps the invariant.
LEMMA PublishStep ==
    ASSUME LifecycleInv, Publish
    PROVE  LifecycleInv'
<1>1. /\ pc = "publish" /\ passed = 4 /\ github # None /\ Verified
      /\ Whole(payload) /\ payload.build \in [Targets -> Builds] /\ PublishedAs(payload)
      /\ native \in [Targets -> Builds]
  BY DEF Publish, LifecycleInv, StepOfJob, PayloadAtHand, NpmFollowed,
         DraftUntilVerified, 
         Whole, Payloads
<1>2. /\ Pass /\ UNCHANGED native /\ UNCHANGED storeVars /\ UNCHANGED npm
      /\ UNCHANGED calm /\ github' = [github EXCEPT !.draft = FALSE]
  BY DEF Publish
<1>3. NewJob /\ passed' = 5
  BY <1>1, <1>2, PassBegins
<1>4. github = [draft |-> github.draft, assets |-> [n \in Assets |-> github.assets[n]]]
  BY <1>1 DEF LifecycleInv, DraftUntilVerified
<1>5. github' = [draft |-> FALSE, assets |-> github.assets]
  BY <1>2, <1>4
<1>6. github'.draft = FALSE /\ github'.assets = github.assets /\ Assets' = Assets
  BY <1>5 DEF Assets
<1>7. GithubForm'
  <2>1. Assets' = ExpectedPayload
    BY <1>1, <1>6 DEF Verified
  <2>2. github.assets = [n \in Assets |-> github.assets[n]]
    BY <1>4
  <2>3. github' = [draft |-> github'.draft, assets |-> [n \in Assets' |-> github'.assets[n]]]
    BY <1>5, <1>6, <2>2
  <2>4. QED
    BY <1>6, <2>1, <2>3 DEF GithubForm
<1>8. ReleasedExactly'
  <2> DEFINE build == [t \in Targets |-> github.assets[<<"native", t>>]]
  <2>1. /\ Assets = ExpectedPayload
        /\ \A name \in ExpectedPayload : github.assets[name] = Content(payload, name)
    BY <1>1 DEF Verified
  <2>2. build = payload.build
    BY <1>1, <2>1, FilesOf
  <2>3. /\ github.assets[Sums] = build /\ github.assets[Bundle].of = build
    BY <1>1, <2>1, <2>2, FilesOf DEF Whole
  <2>4. ASSUME NEW p \in Packages
        PROVE  /\ npm[p] = AsNpm("published", p, build)
               /\ github.assets[<<"npm", p>>] = npm[p].bytes
    <3>1. npm[p] = AsNpm("published", p, build)
      BY <1>1, <2>2 DEF PublishedAs
    <3>2. github.assets[<<"npm", p>>] = PackageBytes(p, build)
      BY <2>1, <2>2, FilesOf
    <3>3. QED
      BY <3>1, <3>2 DEF AsNpm
  <2>5. npm' = npm
    BY <1>2
  <2>6. QED
    BY <1>6, <2>1, <2>3, <2>4, <2>5 DEF ReleasedExactly, AsNpm, PackageBytes
<1>9. /\ artifacts = {} \/ \E pl \in Payloads : artifacts = {pl}
      /\ \A pl \in artifacts : Whole(pl)
      /\ \A pl \in artifacts : PublishedAs(pl)
      /\ native \in [Targets -> Builds \cup {None}] /\ calm' \in BOOLEAN
  BY <1>1, <1>2 DEF LifecycleInv, StoredWhole, NpmFollowed, TypeOK
<1>10. QED
  BY <1>1, <1>2, <1>3, <1>7, <1>8, <1>9, Begun DEF storeVars

-----------------------------------------------------------------------------
(***************************************************************************)
(* The invariant                                                           *)
(***************************************************************************)
\* The invariant holds initially, ...
LEMMA InitLifecycle ==
    ASSUME Init
    PROVE  LifecycleInv
<1>1. TypeOK
  <2>1. Cardinality({}) = 0
    BY FS_EmptySet
  <2>2. QED
    <3>1. pc \in Steps /\ passed \in 0..Len(Entry) /\ attests \in 0..MaxAttests
          /\ polls \in 0..MaxPolls
      BY TheSteps, Jobs, LifecycleAssumption DEF Init
    <3>2. npm \in NpmType
      BY DEF Init, NpmType
    <3>3. /\ native \in [Targets -> Builds \cup {None}]
          /\ artifacts \subseteq Payloads /\ Cardinality(artifacts) <= 1
      BY <2>1 DEF Init
    <3>4. /\ staged \subseteq Packages /\ left \subseteq Packages \cup ExpectedPayload
          /\ exact \subseteq Packages /\ calm \in BOOLEAN
          /\ payload = None /\ prior = None /\ github = None
      BY DEF Init
    <3>5. QED
      BY <3>1, <3>2, <3>3, <3>4 DEF TypeOK, NpmType
<1>2. StoredWhole /\ StepOfJob /\ PayloadAtHand
  BY DEF Init, StoredWhole, StepOfJob, PayloadAtHand
<1>3. NpmFollowed /\ DraftUntilVerified /\ ReleasedExactly
  BY DEF Init, NpmFollowed, DraftUntilVerified, ReleasedExactly, Released
<1>4. QED
  BY <1>1, <1>2, <1>3 DEF LifecycleInv

\* ... and every step keeps it.
LEMMA StepLifecycle ==
    ASSUME LifecycleInv, [Next]_vars
    PROVE  LifecycleInv'
<1>1. CASE UNCHANGED vars
  <2>1. /\ GoesOn /\ StepOfJob' /\ PayloadAtHand'
    BY <1>1
       DEF vars, jobVars, localVars, storeVars, LifecycleInv, TypeOK, GoesOn, StepOfJob,
           PayloadAtHand, Whole
  <2>2. NpmFollowed' /\ DraftUntilVerified'
    BY <1>1
       DEF vars, jobVars, localVars, storeVars, LifecycleInv, NpmFollowed, PublishedAs,
           AsNpm, PackageBytes, DraftUntilVerified, Released, Verified, Content, Assets
  <2>3. UNCHANGED artifacts /\ (pc' # "save" \/ artifacts' = {})
    BY <1>1 DEF vars, storeVars, LifecycleInv, StoredWhole
  <2>4. UNCHANGED npm /\ UNCHANGED github
    BY <1>1 DEF vars
  <2>5. QED
    BY <2>1, <2>2, <2>3, <2>4, WentOn
<1>2. CASE Work
  <2>1. ASSUME NEW p \in Packages, Stage(p) \/ Poll(p)
        PROVE  LifecycleInv'
    BY <2>1, StageStep, PollStep
  <2>2. ASSUME NEW name \in ExpectedPayload, Clobber(name) \/ Put(name)
        PROVE  LifecycleInv'
    BY <2>2, ClobberStep, PutStep
  <2>3. QED
    BY <1>2, <2>1, <2>2, BuildStep, FindPriorStep, AssembleStep,
       ReuseAttestationStep, 
       AttestStep, DeleteArtifactStep, SaveArtifactStep, StageDoneStep, WaitForNpmStep,
       PollDoneStep, GetPayloadStep, ViewStep, CreateStep, VerifyUploadStep, PublishStep,
       DraftGoneStep
       DEF Work
<1>3. ASSUME NEW job \in DOMAIN Entry, Run(job)
      PROVE  LifecycleInv'
  BY <1>3, RunStep
<1>4. ASSUME NEW p \in Packages, Approve(p) \/ Reject(p)
      PROVE  LifecycleInv'
  BY <1>4, ApproveStep, RejectStep
<1>5. CASE Fail \/ Expire \/ Discard \/ AddForeign \/ CalmDown
  BY <1>5, FailStep, ExpireStep, DiscardStep, AddForeignStep, CalmDownStep
<1>6. QED
  BY <1>1, <1>2, <1>3, <1>4, <1>5 DEF Next

\* What holds of the payloads, of npm and of GitHub after any attempts.
THEOREM LifecycleInvariant == Spec => []LifecycleInv
<1>1. QED
  BY InitLifecycle, StepLifecycle, PTL DEF Spec

\* The variables keep their types, and the run never has two payloads.
THEOREM LifecycleTypeCorrect == Spec => []TypeOK
<1>1. LifecycleInv => TypeOK
  BY DEF LifecycleInv
<1>2. QED
  BY <1>1, LifecycleInvariant, PTL

\* publishGithubRelease and waitForNpm: whatever attempts have failed before, a
\* public release is whole, of one build for each target, and npm has its packages.
THEOREM AlwaysReleasedExactly == Spec => []ReleasedExactly
<1>1. LifecycleInv => ReleasedExactly
  BY DEF LifecycleInv
<1>2. QED
  BY <1>1, LifecycleInvariant, PTL

-----------------------------------------------------------------------------
(***************************************************************************)
(* The promise of ReleaseService                                           *)
(***************************************************************************)
OnNpm == [p \in Packages |-> IF npm[p].state = "published" THEN npm[p].bytes ELSE None]

Public ==
    IF Released THEN [f \in Assets \ {Sums, Bundle} |-> github.assets[f]] ELSE None

\* What a user of npm and of GitHub sees does not change.
LEMMA Unseen ==
    ASSUME \A p \in Packages :
              npm'[p] = npm[p] \/ (npm[p].state # "published" /\ npm'[p].state # "published"),
           UNCHANGED github \/ (~ Released /\ ~ Released')
    PROVE  UNCHANGED OnNpm /\ UNCHANGED Public
<1>1. UNCHANGED OnNpm
  BY DEF OnNpm
<1>2. UNCHANGED Public
  BY DEF Public, Released, Assets
<1>3. QED
  BY <1>1, <1>2

\* Every step but two is unseen.
LEMMA MostUnseen ==
    ASSUME LifecycleInv, [Next]_vars, ~ \E p \in Packages : Approve(p), ~ Publish
    PROVE  UNCHANGED OnNpm /\ UNCHANGED Public
<1>1. CASE UNCHANGED npm /\ UNCHANGED github
  BY <1>1, Unseen
<1>2. ASSUME UNCHANGED npm, ~ Released, ~ Released'
      PROVE  UNCHANGED OnNpm /\ UNCHANGED Public
  BY <1>2, Unseen
<1>3. ASSUME NEW p \in Packages, Stage(p) \/ Reject(p)
      PROVE  UNCHANGED OnNpm /\ UNCHANGED Public
  <2>1. npm \in NpmType /\ UNCHANGED github
    BY <1>3 DEF Stage, Reject, LifecycleInv, TypeOK, NpmType
  <2>2. CASE UNCHANGED npm
    BY <1>1, <2>1, <2>2
  <2>3. ASSUME npm[p].state # "published", NEW package, package.state # "published",
               npm' = [npm EXCEPT ![p] = package]
        PROVE  UNCHANGED OnNpm /\ UNCHANGED Public
    <3>1. npm'[p] = package /\ \A q \in Packages \ {p} : npm'[q] = npm[q]
      BY <2>1, <2>3 DEF NpmType
    <3>2. QED
      BY <2>1, <2>3, <3>1, Unseen
  <2>4. CASE Reject(p)
    BY <2>3, <2>4 DEF Reject
  <2>5. CASE Stage(p)
    <3>1. ASSUME NEW pl \in artifacts, npm[p].state = "absent",
                 npm' = [npm EXCEPT ![p] = AsNpm("pending", p, pl.build)]
          PROVE  UNCHANGED OnNpm /\ UNCHANGED Public
      BY <2>3, <3>1 DEF AsNpm
    <3>2. QED
      BY <2>2, <2>5, <3>1 DEF Stage, SelectPackage
  <2>6. QED
    BY <1>3, <2>4, <2>5
<1>4. ASSUME NEW name \in ExpectedPayload, Clobber(name) \/ Put(name)
      PROVE  UNCHANGED OnNpm /\ UNCHANGED Public
  BY <1>2, <1>4, ClobberStep, PutStep DEF Clobber, Put
<1>5. CASE Create \/ Discard \/ AddForeign
  BY <1>2, <1>5, CreateStep, DiscardStep, AddForeignStep
     DEF Create, Discard, AddForeign
<1>6. ASSUME NEW p \in Packages, Poll(p)
      PROVE  UNCHANGED OnNpm /\ UNCHANGED Public
  BY <1>1, <1>6 DEF Poll
<1>7. CASE Build \/ FindPrior \/ Assemble \/ ReuseAttestation \/ Attest \/ DeleteArtifact
              \/ SaveArtifact \/ StageDone \/ WaitForNpm \/ PollDone \/ GetPayload \/ View
              \/ VerifyUpload \/ DraftGone
  BY <1>1, <1>7
     DEF Build, FindPrior, Assemble, ReuseAttestation, Attest, DeleteArtifact,
         SaveArtifact, StageDone, WaitForNpm, PollDone, GetPayload, View, VerifyUpload,
         DraftGone
<1>8. ASSUME NEW job \in DOMAIN Entry, Run(job)
      PROVE  UNCHANGED OnNpm /\ UNCHANGED Public
  BY <1>1, <1>8 DEF Run
<1>9. CASE Fail \/ Expire \/ CalmDown \/ UNCHANGED vars
  BY <1>1, <1>9 DEF Fail, Expire, CalmDown, vars
<1>10. QED
  BY <1>3, <1>4, <1>5, <1>6, <1>7, <1>8, <1>9 DEF Next, Work

\* What a user sees of Approve is that the package is published.
LEMMA ApproveIsPublish ==
    ASSUME LifecycleInv, NEW p \in Packages, Approve(p)
    PROVE  /\ OnNpm[p] = None
           /\ \E bytes \in Builds \cup {Core} : OnNpm' = [OnNpm EXCEPT ![p] = bytes]
           /\ UNCHANGED Public
<1>1. npm \in NpmType /\ npm[p].state = "pending" /\ npm[p].bytes \in Builds \cup {Core}
  BY DEF Approve, LifecycleInv, TypeOK, NpmFollowed, NpmType
<1>2. npm' = [npm EXCEPT ![p].state = "published"] /\ UNCHANGED github
  BY DEF Approve
<1>3. /\ npm'[p].state = "published" /\ npm'[p].bytes = npm[p].bytes
      /\ \A q \in Packages \ {p} : npm'[q] = npm[q]
  BY <1>1, <1>2 DEF NpmType
<1>4. OnNpm' = [OnNpm EXCEPT ![p] = npm[p].bytes] /\ OnNpm[p] = None
  BY <1>1, <1>3 DEF OnNpm
<1>5. UNCHANGED Public
  BY <1>2 DEF Public, Released, Assets
<1>6. QED
  BY <1>1, <1>4, <1>5

\* What a user sees of Publish is the release, with the tarballs that npm has.
LEMMA PublishIsRelease ==
    ASSUME LifecycleInv, Publish
    PROVE  /\ Public = None
           /\ \A p \in Packages : OnNpm[p] # None
           /\ Public' \in {Public, [f \in Service!Tarballs |-> OnNpm[f[2]]]}
           /\ UNCHANGED OnNpm
<1>1. /\ pc = "publish" /\ github # None /\ ~ Released /\ Verified
      /\ Whole(payload) /\ payload.build \in [Targets -> Builds] /\ PublishedAs(payload)
  BY DEF Publish, LifecycleInv, PayloadAtHand, NpmFollowed, DraftUntilVerified,
         Whole, 
         Payloads
<1>2. UNCHANGED npm /\ github' = [github EXCEPT !.draft = FALSE]
  BY DEF Publish
<1>3. github = [draft |-> github.draft, assets |-> [n \in Assets |-> github.assets[n]]]
  BY <1>1 DEF LifecycleInv, DraftUntilVerified
<1>4. github'.draft = FALSE /\ github'.assets = github.assets
  BY <1>2, <1>3
<1>5. UNCHANGED OnNpm
  BY <1>2 DEF OnNpm
<1>6. ASSUME NEW p \in Packages
      PROVE  OnNpm[p] = PackageBytes(p, payload.build) /\ OnNpm[p] # None
  <2>1. OnNpm[p] = PackageBytes(p, payload.build)
    <3>1. npm[p] = AsNpm("published", p, payload.build)
      BY <1>1 DEF PublishedAs
    <3>2. npm[p].state = "published" /\ npm[p].bytes = PackageBytes(p, payload.build)
      BY <3>1 DEF AsNpm
    <3>3. QED
      BY <3>2 DEF OnNpm
  <2>2. PackageBytes(p, payload.build) \in Builds \cup {Core}
    BY <1>1, PackageBytesTyped
  <2>3. QED
    BY <2>1, <2>2, LifecycleAssumption
<1>7. CASE github' = None
  BY <1>1, <1>5, <1>6, <1>7 DEF Public, Released
<1>8. CASE github' # None
  <2>1. ExpectedPayload \ {Sums, Bundle} = Service!Tarballs
    BY DEF ExpectedPayload, Sums, Bundle, Packages, Service!Tarballs
  <2>2. /\ Assets = ExpectedPayload
        /\ \A name \in ExpectedPayload : github.assets[name] = Content(payload, name)
    BY <1>1 DEF Verified
  <2>3. ASSUME NEW f \in Service!Tarballs
        PROVE  github.assets[f] = OnNpm[f[2]]
    <3>1. CASE f \in {"npm"} \X Packages
      <4>1. f[2] \in Packages /\ f = <<"npm", f[2]>>
        BY <3>1
      <4>2. QED
        BY <1>6, <2>2, <4>1, FilesOf
    <3>2. CASE f \in {"native"} \X Targets
      <4>1. f[2] \in Targets /\ f[2] \in Packages /\ f = <<"native", f[2]>>
        BY <3>2 DEF Packages
      <4>2. PackageBytes(f[2], payload.build) = payload.build[f[2]]
        BY <4>1, LifecycleAssumption DEF PackageBytes
      <4>3. QED
        BY <1>6, <2>2, <4>1, <4>2, FilesOf
    <3>3. QED
      BY <3>1, <3>2 DEF Service!Tarballs, Packages
  <2>4. Released' /\ Assets' = ExpectedPayload
    BY <1>4, <1>8, <2>2 DEF Released, Assets
  <2>5. Public' = [f \in Service!Tarballs |-> OnNpm[f[2]]]
    BY <1>4, <2>1, <2>2, <2>3, <2>4 DEF Public
  <2>6. QED
    BY <1>1, <1>5, <1>6, <2>5 DEF Public
<1>9. QED
  BY <1>7, <1>8

\* The initial states are those of the promise.
LEMMA InitPromise ==
    ASSUME Init
    PROVE  Service!ServiceInit
BY DEF Init, Released, Packages, Service!ServiceInit

\* A step is one of the promise, or is unseen.
LEMMA StepPromise ==
    ASSUME LifecycleInv, [Next]_vars
    PROVE  [Service!ServiceNext]_(Service!serviceVars)
<1>1. /\ Packages = DOMAIN OnNpm /\ Service!serviceVars = <<OnNpm, Public>>
      /\ Service!serviceVars' = <<OnNpm', Public'>>
  BY DEF OnNpm, Public, Service!serviceVars
<1>2. ASSUME NEW p \in Packages, Approve(p)
      PROVE  Service!ServiceNext
  <2>1. Service!Publish(p)
    BY <1>2, ApproveIsPublish DEF Service!Publish, OnNpm, Public
  <2>2. QED
    BY <1>1, <2>1 DEF Service!ServiceNext, OnNpm
<1>3. CASE Publish
  <2>1. CASE UNCHANGED OnNpm /\ UNCHANGED Public
    BY <1>1, <2>1
  <2>2. CASE Public' = [f \in Service!Tarballs |-> OnNpm[f[2]]]
    <3>1. Service!Release
      BY <1>1, <1>3, <2>2, PublishIsRelease DEF Service!Release, OnNpm, Public
    <3>2. QED
      BY <3>1 DEF Service!ServiceNext
  <2>3. QED
    BY <1>3, <2>1, <2>2, PublishIsRelease
<1>4. CASE UNCHANGED OnNpm /\ UNCHANGED Public
  BY <1>1, <1>4
<1>5. QED
  BY <1>2, <1>3, <1>4, MostUnseen

\* release-lifecycle.mjs and release.yml: whatever attempts have failed before, what
\* npm or GitHub has published is never changed, and GitHub follows npm.
THEOREM AlwaysImplementsService == Spec => ImplementsService
<1>1. Init => Service!ServiceInit
  BY InitPromise
<1>2. LifecycleInv /\ [Next]_vars => [Service!ServiceNext]_(Service!serviceVars)
  BY StepPromise
<1>3. QED
  BY <1>1, <1>2, LifecycleInvariant, PTL
     DEF Spec, ImplementsService, Service!ServiceSpec
===============================================================================
