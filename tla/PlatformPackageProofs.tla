------------------------- MODULE PlatformPackageProofs -------------------------
(***************************************************************************)
(* Proofs about PlatformPackage for any isolates, versions and number of   *)
(* installations: what is handed out has been verified.                    *)
(***************************************************************************)
EXTENDS PlatformPackage, SequenceTheorems, TLAPS

(***************************************************************************)
(* What is left of a call, by how far it has come: from its end            *)
(***************************************************************************)
Before(step, Rests) == {<<step>> \o rest : rest \in Rests}

Returning  == {<<"return">>}
Rendered   == {<<"returnConfig">>}
Rendering  == Before("render", Rendered)

\* ModulePath has been passed.
Passed     == Returning \cup Before("dlopen", Returning) \cup Before("validate", Rendering)
Checking   == Before("validateModule", Passed)
Validating == Before("validate", Checking)

\* ... that of a module that has not been found; the files are read already,
\* or are not.
Resolving       == Before("resolveModule", Validating)
Revalidating    == Before("validate", Resolving)
ReadingConfig   == Before("readConfig", Resolving)
ReadingModule   == Before("readModule", ReadingConfig)
ReadingManifest == Before("readManifest", ReadingModule)

\* isSupported() before modulePath()
ProbingRead   == Before("probe", Validating \cup Revalidating)
ProbingUnread == Before("probe", ReadingManifest)

\* The files have been verified and the module found; the files have been
\* verified; they have been read.
Done     == Passed \cup Rendering \cup Rendered
Verified == Done \cup Checking
Read     == Verified \cup Validating \cup Resolving \cup Revalidating
            \cup ProbingRead

Programs ==
    {<<>>} \cup Read \cup ReadingConfig \cup ReadingModule \cup ReadingManifest
           \cup ProbingUnread

\* What an isolate has read is of its core's version by the manifest, and whole
\* when the last file has been read.
Snapshot(i) ==
    /\ snap[i]["manifest"] \in {None, core[i]}
    /\ todo[i] \in ReadingModule \cup ReadingConfig => snap[i]["manifest"] # None
    /\ todo[i] \in ReadingConfig => snap[i]["module"] # None
    /\ Cached(i) => snap[i]["manifest"] # None /\ snap[i]["module"] # None
    /\ found[i] \/ todo[i] \in Read => Cached(i)
    /\ core[i] = None => todo[i] = <<>>

\* While no file is replaced, what has been verified stays as it was read.
Undisturbed(i) ==
    quiet[i] /\ todo[i] \in Verified => \A f \in Files : disk[f] = snap[i][f]

\* A private file that an isolate has verified has the bytes that it has read.
Shared(i) ==
    /\ archive /\ todo[i] \in Done => private["module"] = snap[i]["module"]
    /\ todo[i] \in Rendered => private["config"] = snap[i]["config"]

Isolate(i) ==
    todo[i] \in Programs /\ Snapshot(i) /\ Undisturbed(i) /\ Shared(i)

PackageInv == TypeOK /\ disk["core"] \in Versions /\ \A i \in Isolates : Isolate(i)

-----------------------------------------------------------------------------
(***************************************************************************)
(* Programs                                                                *)
(***************************************************************************)
\* A step before a sequence is its head.
LEMMA Prefixed ==
    ASSUME NEW S, NEW step \in S, NEW rest \in Seq(S)
    PROVE  /\ <<step>> \o rest \in Seq(S) /\ <<step>> \o rest # <<>>
           /\ Head(<<step>> \o rest) = step /\ Tail(<<step>> \o rest) = rest
<1> DEFINE first == <<step>>
<1>0. <<step>> \in Seq(S) /\ Len(<<step>>) = 1 /\ <<step>>[1] = step
  OBVIOUS
<1> HIDE DEF first
<1>1. first \in Seq(S) /\ Len(first) = 1 /\ first[1] = step
  BY <1>0 DEF first
<1> DEFINE whole == first \o rest
<1>2. /\ whole \in Seq(S) /\ Len(whole) = Len(first) + Len(rest)
      /\ \A k \in 1..Len(first) + Len(rest) :
            whole[k] = IF k <= Len(first) THEN first[k] ELSE rest[k - Len(first)]
  BY <1>1, ConcatProperties
<1> HIDE DEF whole
<1>3. Len(rest) \in Nat /\ Len(whole) = Len(rest) + 1
  BY <1>1, <1>2
<1>4. whole # <<>> /\ whole[1] = step
  BY <1>1, <1>2, <1>3
<1>5. \A k \in 1..Len(rest) : whole[k + 1] = rest[k]
  BY <1>1, <1>2, <1>3
<1>6. /\ Tail(whole) \in Seq(S) /\ Len(Tail(whole)) = Len(whole) - 1
      /\ \A k \in 1..Len(Tail(whole)) : Tail(whole)[k] = whole[k + 1]
  BY <1>2, <1>4, HeadTailProperties
<1>7. Tail(whole) = rest
  BY <1>3, <1>5, <1>6, SeqEqual
<1>8. Head(whole) = step
  BY <1>2, <1>4
<1>9. QED
  BY <1>2, <1>4, <1>7, <1>8 DEF first, whole

\* A class of programs that begin with the same step
LEMMA BeforeIs ==
    ASSUME NEW step \in StepNames, NEW Rests \in SUBSET Seq(StepNames)
    PROVE  /\ Before(step, Rests) \in SUBSET Seq(StepNames)
           /\ \A s \in Before(step, Rests) :
                 s # <<>> /\ Head(s) = step /\ Tail(s) \in Rests
<1>1. ASSUME NEW s \in Before(step, Rests)
      PROVE  s \in Seq(StepNames) /\ s # <<>> /\ Head(s) = step /\ Tail(s) \in Rests
  <2>1. PICK rest \in Rests : s = <<step>> \o rest
    BY DEF Before
  <2>2. rest \in Seq(StepNames)
    OBVIOUS
  <2>3. QED
    BY <2>1, <2>2, Prefixed
<1>2. QED
  BY <1>1

\* The programs, their first steps, and what is left after these
LEMMA Ways ==
    /\ Programs \in SUBSET Seq(StepNames)
    /\ \A s \in Returning : s # <<>> /\ Head(s) = "return"
    /\ \A s \in Rendered : s # <<>> /\ Head(s) = "returnConfig"
    /\ \A s \in Rendering : s # <<>> /\ Head(s) = "render" /\ Tail(s) \in Rendered
    /\ \A s \in Passed :
          /\ s # <<>> /\ Head(s) \in {"return", "dlopen", "validate"}
          /\ Head(s) = "dlopen" => Tail(s) \in Passed
          /\ Head(s) = "validate" => Tail(s) \in Rendering
    /\ \A s \in Checking : s # <<>> /\ Head(s) = "validateModule" /\ Tail(s) \in Passed
    /\ \A s \in Validating : s # <<>> /\ Head(s) = "validate" /\ Tail(s) \in Checking
    /\ \A s \in Resolving :
          s # <<>> /\ Head(s) = "resolveModule" /\ Tail(s) \in Validating
    /\ \A s \in Revalidating :
          s # <<>> /\ Head(s) = "validate" /\ Tail(s) \in Resolving
    /\ \A s \in ReadingConfig :
          s # <<>> /\ Head(s) = "readConfig" /\ Tail(s) \in Resolving
    /\ \A s \in ReadingModule :
          s # <<>> /\ Head(s) = "readModule" /\ Tail(s) \in ReadingConfig
    /\ \A s \in ReadingManifest :
          s # <<>> /\ Head(s) = "readManifest" /\ Tail(s) \in ReadingModule
    /\ \A s \in ProbingRead :
          s # <<>> /\ Head(s) = "probe" /\ Tail(s) \in Validating \cup Revalidating
    /\ \A s \in ProbingUnread :
          s # <<>> /\ Head(s) = "probe" /\ Tail(s) \in ReadingManifest
<1>1. /\ Returning \in SUBSET Seq(StepNames)
      /\ \A s \in Returning : s # <<>> /\ Head(s) = "return"
      /\ Rendered \in SUBSET Seq(StepNames)
      /\ \A s \in Rendered : s # <<>> /\ Head(s) = "returnConfig"
  <2>1. \A a \in StepNames : <<a>> \in Seq(StepNames) /\ <<a>> # <<>> /\ Head(<<a>>) = a
    OBVIOUS
  <2>2. "return" \in StepNames /\ "returnConfig" \in StepNames
    BY DEF StepNames
  <2>3. QED
    BY <2>1, <2>2, Zenon DEF Returning, Rendered
<1>2. /\ Rendering \in SUBSET Seq(StepNames)
      /\ \A s \in Rendering : s # <<>> /\ Head(s) = "render" /\ Tail(s) \in Rendered
  <2>1. "render" \in StepNames
    BY DEF StepNames
  <2>2. QED
    BY <1>1, <2>1, BeforeIs DEF Rendering
<1>3. /\ Passed \in SUBSET Seq(StepNames)
      /\ \A s \in Passed :
            /\ s # <<>> /\ Head(s) \in {"return", "dlopen", "validate"}
            /\ Head(s) = "dlopen" => Tail(s) \in Passed
            /\ Head(s) = "validate" => Tail(s) \in Rendering
  <2>1. "dlopen" \in StepNames /\ "validate" \in StepNames
    BY DEF StepNames
  <2>2. /\ Before("dlopen", Returning) \in SUBSET Seq(StepNames)
        /\ \A s \in Before("dlopen", Returning) :
              s # <<>> /\ Head(s) = "dlopen" /\ Tail(s) \in Returning
    BY <1>1, <2>1, BeforeIs
  <2>3. /\ Before("validate", Rendering) \in SUBSET Seq(StepNames)
        /\ \A s \in Before("validate", Rendering) :
              s # <<>> /\ Head(s) = "validate" /\ Tail(s) \in Rendering
    BY <1>2, <2>1, BeforeIs
  <2>4. QED
    BY <1>1, <2>2, <2>3 DEF Passed
<1>4. /\ Checking \in SUBSET Seq(StepNames)
      /\ \A s \in Checking : s # <<>> /\ Head(s) = "validateModule" /\ Tail(s) \in Passed
  <2>1. "validateModule" \in StepNames
    BY DEF StepNames
  <2>2. QED
    BY <1>3, <2>1, BeforeIs DEF Checking
<1>5. /\ Validating \in SUBSET Seq(StepNames)
      /\ \A s \in Validating : s # <<>> /\ Head(s) = "validate" /\ Tail(s) \in Checking
  <2>1. "validate" \in StepNames
    BY DEF StepNames
  <2>2. QED
    BY <1>4, <2>1, BeforeIs DEF Validating
<1>6. /\ Resolving \in SUBSET Seq(StepNames)
      /\ \A s \in Resolving :
            s # <<>> /\ Head(s) = "resolveModule" /\ Tail(s) \in Validating
  <2>1. "resolveModule" \in StepNames
    BY DEF StepNames
  <2>2. QED
    BY <1>5, <2>1, BeforeIs DEF Resolving
<1>7. /\ Revalidating \in SUBSET Seq(StepNames)
      /\ \A s \in Revalidating :
            s # <<>> /\ Head(s) = "validate" /\ Tail(s) \in Resolving
  <2>1. "validate" \in StepNames
    BY DEF StepNames
  <2>2. QED
    BY <1>6, <2>1, BeforeIs DEF Revalidating
<1>8. /\ ReadingConfig \in SUBSET Seq(StepNames)
      /\ \A s \in ReadingConfig :
            s # <<>> /\ Head(s) = "readConfig" /\ Tail(s) \in Resolving
  <2>1. "readConfig" \in StepNames
    BY DEF StepNames
  <2>2. QED
    BY <1>6, <2>1, BeforeIs DEF ReadingConfig
<1>9. /\ ReadingModule \in SUBSET Seq(StepNames)
      /\ \A s \in ReadingModule :
            s # <<>> /\ Head(s) = "readModule" /\ Tail(s) \in ReadingConfig
  <2>1. "readModule" \in StepNames
    BY DEF StepNames
  <2>2. QED
    BY <1>8, <2>1, BeforeIs DEF ReadingModule
<1>10. /\ ReadingManifest \in SUBSET Seq(StepNames)
       /\ \A s \in ReadingManifest :
             s # <<>> /\ Head(s) = "readManifest" /\ Tail(s) \in ReadingModule
  <2>1. "readManifest" \in StepNames
    BY DEF StepNames
  <2>2. QED
    BY <1>9, <2>1, BeforeIs DEF ReadingManifest
<1>11. /\ ProbingRead \in SUBSET Seq(StepNames)
       /\ \A s \in ProbingRead :
             s # <<>> /\ Head(s) = "probe" /\ Tail(s) \in Validating \cup Revalidating
  <2>1. "probe" \in StepNames /\ Validating \cup Revalidating \in SUBSET Seq(StepNames)
    BY <1>5, <1>7 DEF StepNames
  <2>2. QED
    BY <2>1, BeforeIs DEF ProbingRead
<1>12. /\ ProbingUnread \in SUBSET Seq(StepNames)
       /\ \A s \in ProbingUnread :
             s # <<>> /\ Head(s) = "probe" /\ Tail(s) \in ReadingManifest
  <2>1. "probe" \in StepNames
    BY DEF StepNames
  <2>2. QED
    BY <1>10, <2>1, BeforeIs DEF ProbingUnread
<1>13. Programs \in SUBSET Seq(StepNames)
  <2>1. Verified \in SUBSET Seq(StepNames)
    BY <1>1, <1>2, <1>3, <1>4 DEF Verified, Done
  <2>2. Read \in SUBSET Seq(StepNames)
    BY <1>5, <1>6, <1>7, <1>11, <2>1 DEF Read
  <2>3. <<>> \in Seq(StepNames)
    OBVIOUS
  <2>4. QED
    BY <1>8, <1>9, <1>10, <1>12, <2>2, <2>3, Zenon DEF Programs
<1>14. QED
  BY <1>1, <1>2, <1>3, <1>4, <1>5, <1>6, <1>7, <1>8, <1>9, <1>10, <1>11, <1>12, <1>13

\* Who has not come as far is not taken for who has.
LEMMA Apart ==
    /\ \A s \in Validating \cup Resolving \cup Revalidating \cup ProbingRead :
          s \notin Verified
    /\ \A s \in ReadingConfig \cup ReadingModule \cup ReadingManifest \cup ProbingUnread :
          s \notin Read
    /\ \A s \in Checking : s \notin Done
    /\ \A s \in Passed \cup Rendering : s \notin Rendered
    /\ \A s \in Read \cup ReadingManifest \cup ProbingUnread :
          s \notin ReadingModule \cup ReadingConfig
    /\ \A s \in ReadingModule : s \notin ReadingConfig
    /\ <<>> \notin Read \cup ReadingModule \cup ReadingConfig
<1>1. ASSUME NEW s \in Passed
      PROVE  Head(s) = "validate" => Head(Tail(s)) = "render"
  BY Ways
<1>2. ASSUME NEW s \in Verified
      PROVE  /\ s # <<>>
             /\ Head(s) \in {"return", "dlopen", "validate", "render", "returnConfig",
                             "validateModule"}
             /\ Head(s) = "validate" => Head(Tail(s)) = "render"
  <2>1. CASE s \in Passed
    BY <1>1, <2>1, Ways
  <2>2. CASE s \in Rendering
    BY <2>2, Ways
  <2>3. CASE s \in Rendered
    BY <2>3, Ways
  <2>4. CASE s \in Checking
    BY <2>4, Ways
  <2>5. QED
    BY <2>1, <2>2, <2>3, <2>4 DEF Verified, Done
<1>3. ASSUME NEW s \in Validating \cup Revalidating
      PROVE  s # <<>> /\ Head(s) = "validate" /\ Head(Tail(s)) # "render"
  <2>1. CASE s \in Validating
    BY <2>1, Ways
  <2>2. CASE s \in Revalidating
    BY <2>2, Ways
  <2>3. QED
    BY <2>1, <2>2
<1>4. ASSUME NEW s \in Read
      PROVE  /\ s # <<>>
             /\ Head(s) \in {"return", "dlopen", "validate", "render", "returnConfig",
                             "validateModule", "resolveModule", "probe"}
             /\ Head(s) = "probe" => Head(Tail(s)) = "validate"
  <2>1. CASE s \in Verified
    BY <1>2, <2>1
  <2>2. CASE s \in Validating \cup Revalidating
    BY <1>3, <2>2
  <2>3. CASE s \in Resolving
    BY <2>3, Ways
  <2>4. CASE s \in ProbingRead
    <3>1. Head(s) = "probe" /\ s # <<>> /\ Tail(s) \in Validating \cup Revalidating
      BY <2>4, Ways
    <3>2. QED
      BY <1>3, <3>1
  <2>5. QED
    BY <2>1, <2>2, <2>3, <2>4 DEF Read
<1>5. \A s \in Validating \cup Resolving \cup Revalidating \cup ProbingRead :
          s \notin Verified
  <2>1. \A s \in Validating \cup Revalidating : s \notin Verified
    BY <1>2, <1>3
  <2>2. \A s \in Resolving : s \notin Verified
    BY <1>2, Ways
  <2>3. \A s \in ProbingRead : s \notin Verified
    BY <1>2, Ways
  <2>4. QED
    BY <2>1, <2>2, <2>3
<1>6. \A s \in ReadingConfig \cup ReadingModule \cup ReadingManifest \cup ProbingUnread :
          s \notin Read
  <2>1. \A s \in ReadingConfig : s \notin Read
    BY <1>4, Ways
  <2>2. \A s \in ReadingModule : s \notin Read
    BY <1>4, Ways
  <2>3. \A s \in ReadingManifest : s \notin Read
    BY <1>4, Ways
  <2>4. ASSUME NEW s \in ProbingUnread
        PROVE  s \notin Read
    <3>1. Head(s) = "probe" /\ Tail(s) \in ReadingManifest
      BY Ways
    <3>2. Head(Tail(s)) = "readManifest"
      BY <3>1, Ways
    <3>3. QED
      BY <1>4, <3>1, <3>2
  <2>5. QED
    BY <2>1, <2>2, <2>3, <2>4
<1>7. \A s \in Checking : s \notin Done
  <2>1. ASSUME NEW s \in Done
        PROVE  Head(s) # "validateModule"
    <3>1. s \in Passed => Head(s) # "validateModule"
      BY Ways
    <3>2. s \in Rendering => Head(s) # "validateModule"
      BY Ways
    <3>3. s \in Rendered => Head(s) # "validateModule"
      BY Ways
    <3>4. QED
      BY <3>1, <3>2, <3>3 DEF Done
  <2>2. QED
    BY <2>1, Ways
<1>8. \A s \in Passed \cup Rendering : s \notin Rendered
  <2>1. \A s \in Passed : Head(s) # "returnConfig"
    BY Ways
  <2>2. \A s \in Rendering : Head(s) # "returnConfig"
    BY Ways
  <2>3. QED
    BY <2>1, <2>2, Ways
<1>9. \A s \in Read \cup ReadingManifest \cup ProbingUnread :
          s \notin ReadingModule \cup ReadingConfig
  <2>1. \A s \in ReadingModule \cup ReadingConfig : Head(s) \in {"readModule", "readConfig"}
    BY Ways
  <2>2. \A s \in ReadingManifest : Head(s) \notin {"readModule", "readConfig"}
    BY Ways
  <2>3. \A s \in ProbingUnread : Head(s) \notin {"readModule", "readConfig"}
    BY Ways
  <2>4. QED
    BY <1>6, <2>1, <2>2, <2>3
<1>10. \A s \in ReadingModule : s \notin ReadingConfig
  <2>1. \A s \in ReadingModule : Head(s) # "readConfig"
    BY Ways
  <2>2. QED
    BY <2>1, Ways
<1>11. <<>> \notin Read \cup ReadingModule \cup ReadingConfig
  <2>1. <<>> \notin ReadingModule /\ <<>> \notin ReadingConfig
    BY Ways
  <2>2. QED
    BY <1>4, <2>1
<1>12. QED
  BY <1>5, <1>6, <1>7, <1>8, <1>9, <1>10, <1>11

\* Two sequences, one of which is a step longer
LEMMA Pairs ==
    /\ \A a, b \in StepNames : <<a, b>> = <<a>> \o <<b>>
    /\ \A a, b, c \in StepNames : <<a, b, c>> = <<a>> \o (<<b>> \o <<c>>)
    /\ \A a \in StepNames : <<a>> \in Seq(StepNames)
<1>1. ASSUME NEW a \in StepNames, NEW s \in Seq(StepNames)
      PROVE  /\ <<a>> \o s \in Seq(StepNames) /\ Len(<<a>> \o s) = Len(s) + 1
             /\ (<<a>> \o s)[1] = a
             /\ \A k \in 1..Len(s) : (<<a>> \o s)[k + 1] = s[k]
  <2> DEFINE whole == <<a>> \o s
  <2>1. whole \in Seq(StepNames) /\ whole # <<>> /\ Head(whole) = a /\ Tail(whole) = s
    BY Prefixed
  <2> HIDE DEF whole
  <2>2. /\ Len(Tail(whole)) = Len(whole) - 1
        /\ \A k \in 1..Len(Tail(whole)) : Tail(whole)[k] = whole[k + 1]
    BY <2>1, HeadTailProperties
  <2>3. Len(s) \in Nat /\ Len(whole) \in Nat
    BY <2>1
  <2>4. QED
    BY <2>1, <2>2, <2>3 DEF whole
<1>2. \A a \in StepNames : <<a>> \in Seq(StepNames) /\ Len(<<a>>) = 1 /\ <<a>>[1] = a
  OBVIOUS
<1>3. ASSUME NEW a \in StepNames, NEW b \in StepNames
      PROVE  <<a, b>> = <<a>> \o <<b>>
  <2> DEFINE pair == <<a, b>>  whole == <<a>> \o <<b>>
  <2>1. pair \in Seq(StepNames) /\ Len(pair) = 2 /\ pair[1] = a /\ pair[2] = b
    OBVIOUS
  <2>2. /\ whole \in Seq(StepNames) /\ Len(whole) = 1 + 1 /\ whole[1] = a
        /\ whole[1 + 1] = b
    BY <1>1, <1>2
  <2> HIDE DEF pair, whole
  <2>3. pair = whole
    BY <2>1, <2>2, SeqEqual
  <2>4. QED
    BY <2>3 DEF pair, whole
<1>4. ASSUME NEW a \in StepNames, NEW b \in StepNames, NEW c \in StepNames
      PROVE  <<a, b, c>> = <<a>> \o (<<b>> \o <<c>>)
  <2> DEFINE triple == <<a, b, c>>  rest == <<b, c>>  whole == <<a>> \o <<b, c>>
  <2>1. /\ triple \in Seq(StepNames) /\ Len(triple) = 3
        /\ triple[1] = a /\ triple[2] = b /\ triple[3] = c
    OBVIOUS
  <2>2. rest \in Seq(StepNames) /\ Len(rest) = 2 /\ rest[1] = b /\ rest[2] = c
    OBVIOUS
  <2>3. /\ whole \in Seq(StepNames) /\ Len(whole) = 2 + 1 /\ whole[1] = a
        /\ whole[1 + 1] = b /\ whole[2 + 1] = c
    BY <1>1, <2>2
  <2> HIDE DEF triple, rest, whole
  <2>4. triple = whole
    BY <2>1, <2>3, SeqEqual
  <2>5. QED
    BY <1>3, <2>4 DEF triple, whole
<1>5. QED
  BY <1>2, <1>3, <1>4

\* The ways that ModulePath is written, and the steps one after the other
SameWays(m1, m2, m3, r, v, vm, rest) ==
    /\ (v \o vm) \o rest = v \o (vm \o rest)
    /\ ((v \o r) \o (v \o vm)) \o rest = v \o (r \o (v \o (vm \o rest)))
    /\ (((m1 \o (m2 \o m3)) \o r) \o (v \o vm)) \o rest
          = m1 \o (m2 \o (m3 \o (r \o (v \o (vm \o rest)))))
    /\ (v \o r) \o (v \o vm) \in Seq(StepNames)
    /\ ((m1 \o (m2 \o m3)) \o r) \o (v \o vm) \in Seq(StepNames)

\* Joining sequences of steps is associative.
LEMMA Joined ==
    \A m1, m2, m3, r, v, vm, rest \in Seq(StepNames) :
        SameWays(m1, m2, m3, r, v, vm, rest)
<1> DEFINE Q == Seq(StepNames)  Cat(a, b) == a \o b
<1>1. ASSUME NEW a \in Q, NEW b \in Q
      PROVE  Cat(a, b) \in Q
  BY ConcatProperties
<1>2. ASSUME NEW a \in Q, NEW b \in Q, NEW c \in Q
      PROVE  Cat(Cat(a, b), c) = Cat(a, Cat(b, c))
  BY ConcatAssociative
<1> SUFFICES
      ASSUME NEW m1 \in Seq(StepNames), NEW m2 \in Seq(StepNames), NEW m3 \in Seq(StepNames),
             NEW r \in Seq(StepNames), NEW v \in Seq(StepNames), NEW vm \in Seq(StepNames), NEW rest \in Seq(StepNames)
      PROVE  /\ (v \o vm) \o rest = v \o (vm \o rest)
             /\ ((v \o r) \o (v \o vm)) \o rest = v \o (r \o (v \o (vm \o rest)))
             /\ (((m1 \o (m2 \o m3)) \o r) \o (v \o vm)) \o rest
                   = m1 \o (m2 \o (m3 \o (r \o (v \o (vm \o rest)))))
             /\ (v \o r) \o (v \o vm) \in Seq(StepNames)
             /\ ((m1 \o (m2 \o m3)) \o r) \o (v \o vm) \in Seq(StepNames)
  BY Zenon DEF SameWays
<1>3. /\ m1 \in Q /\ m2 \in Q /\ m3 \in Q /\ r \in Q /\ v \in Q /\ vm \in Q
      /\ rest \in Q
  OBVIOUS
<1> HIDE DEF Q, Cat
<1> DEFINE w == Cat(v, vm)  x == Cat(m2, m3)  y == Cat(m1, x)  z == Cat(v, r)
           tail == Cat(v, Cat(vm, rest))
<1>4. /\ w \in Q /\ x \in Q /\ y \in Q /\ z \in Q /\ Cat(vm, rest) \in Q
      /\ Cat(y, r) \in Q /\ tail \in Q /\ Cat(r, tail) \in Q /\ Cat(m3, Cat(r, tail)) \in Q
  BY <1>1, <1>3
<1>5. Cat(w, rest) = tail
  BY <1>2, <1>3
<1>6. Cat(Cat(z, w), rest) = Cat(v, Cat(r, tail))
  BY <1>2, <1>3, <1>4, <1>5
<1>7. Cat(Cat(Cat(y, r), w), rest) = Cat(m1, Cat(m2, Cat(m3, Cat(r, tail))))
  <2>1. Cat(Cat(Cat(y, r), w), rest) = Cat(y, Cat(r, tail))
    BY <1>2, <1>3, <1>4, <1>5
  <2>2. Cat(y, Cat(r, tail)) = Cat(m1, Cat(x, Cat(r, tail)))
    BY <1>2, <1>3, <1>4
  <2>3. Cat(x, Cat(r, tail)) = Cat(m2, Cat(m3, Cat(r, tail)))
    BY <1>2, <1>3, <1>4
  <2>4. QED
    BY <2>1, <2>2, <2>3
<1>8. Cat(z, w) \in Q /\ Cat(Cat(y, r), w) \in Q
  BY <1>1, <1>3, <1>4
<1>9. QED
  BY <1>5, <1>6, <1>7, <1>8, Zenon DEF Q, Cat

\* ModulePath() and what comes after it
LEMMA Paths ==
    ASSUME NEW i \in Isolates, NEW rest \in Passed
    PROVE  /\ ModulePath(i) \in Seq(StepNames) /\ rest \in Seq(StepNames)
           /\ found[i] => ModulePath(i) \o rest \in Validating
           /\ ~found[i] /\ Cached(i) => ModulePath(i) \o rest \in Revalidating
           /\ ~found[i] /\ ~Cached(i) => ModulePath(i) \o rest \in ReadingManifest
<1> DEFINE V == <<"validate">>  VM == <<"validateModule">>  R == <<"resolveModule">>
           M1 == <<"readManifest">>  M2 == <<"readModule">>  M3 == <<"readConfig">>
<1>1. /\ "validate" \in StepNames /\ "validateModule" \in StepNames
      /\ "resolveModule" \in StepNames /\ "readManifest" \in StepNames
      /\ "readModule" \in StepNames /\ "readConfig" \in StepNames
  BY DEF StepNames
<1>2. /\ V \in Seq(StepNames) /\ VM \in Seq(StepNames) /\ R \in Seq(StepNames)
      /\ M1 \in Seq(StepNames) /\ M2 \in Seq(StepNames) /\ M3 \in Seq(StepNames)
  BY <1>1, Pairs
<1>3. rest \in Seq(StepNames)
  BY Ways DEF Programs, Read, Verified, Done
<1>4. /\ <<"validate", "validateModule">> = V \o VM
      /\ <<"readManifest", "readModule", "readConfig">> = M1 \o (M2 \o M3)
  BY <1>1, Pairs
<1>5. V \o (VM \o rest) \in Validating
  BY DEF Validating, Checking, Before
<1>6. R \o (V \o (VM \o rest)) \in Resolving
  BY <1>5 DEF Resolving, Before
<1>7. V \o (R \o (V \o (VM \o rest))) \in Revalidating
  BY <1>6 DEF Revalidating, Before
<1>8. M1 \o (M2 \o (M3 \o (R \o (V \o (VM \o rest))))) \in ReadingManifest
  BY <1>6 DEF ReadingManifest, ReadingModule, ReadingConfig, Before
<1>9. \A s \in Seq(StepNames) :
          /\ Append(s, "resolveModule") = s \o R
          /\ <<>> \o s = s
  BY <1>1, AppendIsConcat, ConcatEmptySeq
<1>10. /\ V \o VM \in Seq(StepNames) /\ M2 \o M3 \in Seq(StepNames)
       /\ M1 \o (M2 \o M3) \in Seq(StepNames)
       /\ VM \o rest \in Seq(StepNames) /\ V \o (VM \o rest) \in Seq(StepNames)
       /\ R \o (V \o (VM \o rest)) \in Seq(StepNames)
       /\ M3 \o (R \o (V \o (VM \o rest))) \in Seq(StepNames)
       /\ V \o R \in Seq(StepNames)
       /\ (M1 \o (M2 \o M3)) \o R \in Seq(StepNames)
  <2> HIDE DEF V, VM, R, M1, M2, M3
  <2>1. \A s, t \in Seq(StepNames) : s \o t \in Seq(StepNames)
    BY ConcatProperties
  <2>2. QED
    BY <1>2, <1>3, <2>1, Zenon
<1>11. /\ (V \o VM) \o rest = V \o (VM \o rest)
       /\ ((V \o R) \o (V \o VM)) \o rest = V \o (R \o (V \o (VM \o rest)))
       /\ (((M1 \o (M2 \o M3)) \o R) \o (V \o VM)) \o rest
             = M1 \o (M2 \o (M3 \o (R \o (V \o (VM \o rest)))))
       /\ (V \o R) \o (V \o VM) \in Seq(StepNames)
       /\ ((M1 \o (M2 \o M3)) \o R) \o (V \o VM) \in Seq(StepNames)
  <2> HIDE DEF V, VM, R, M1, M2, M3
  <2>1. /\ V \in Seq(StepNames) /\ VM \in Seq(StepNames) /\ R \in Seq(StepNames)
        /\ M1 \in Seq(StepNames) /\ M2 \in Seq(StepNames) /\ M3 \in Seq(StepNames)
        /\ rest \in Seq(StepNames)
    BY ONLY <1>2, <1>3
  <2>2. SameWays(M1, M2, M3, R, V, VM, rest)
    BY ONLY <2>1, Joined
  <2>3. QED
    BY <2>2 DEF SameWays
<1>12. CASE found[i]
  <2>1. ModulePath(i) = V \o VM
    BY <1>4, <1>9, <1>10, <1>12, Zenon DEF ModulePath
  <2>2. QED
    BY <1>3, <1>5, <1>10, <1>11, <1>12, <2>1, Zenon
<1>13. CASE ~found[i] /\ Cached(i)
  <2>1. ModulePath(i) = (V \o R) \o (V \o VM)
    BY <1>2, <1>4, <1>9, <1>13, Zenon DEF ModulePath, Resolve
  <2>2. QED
    BY <1>3, <1>7, <1>11, <1>13, <2>1, Zenon
<1>14. CASE ~found[i] /\ ~Cached(i)
  <2>1. ModulePath(i) = ((M1 \o (M2 \o M3)) \o R) \o (V \o VM)
    BY <1>4, <1>9, <1>10, <1>14, Zenon DEF ModulePath, Resolve
  <2>2. QED
    BY <1>3, <1>8, <1>11, <1>14, <2>1, Zenon
<1>15. QED
  BY <1>12, <1>13, <1>14

\* Of a call, the files are the first thing, or the probe; or, if they have been
\* read, their validation.
LEMMA Calls ==
    ASSUME NEW i \in Isolates, NEW f \in DOMAIN Steps(i)
    PROVE  /\ found[i] \/ Cached(i) =>
                 Steps(i)[f] \in Validating \cup Revalidating \cup ProbingRead
           /\ ~found[i] /\ ~Cached(i) => Steps(i)[f] \in ReadingManifest \cup ProbingUnread
<1>1. /\ "return" \in StepNames /\ "dlopen" \in StepNames /\ "validate" \in StepNames
      /\ "render" \in StepNames /\ "returnConfig" \in StepNames /\ "probe" \in StepNames
  BY DEF StepNames
<1>2. <<"return">> \in Passed
  BY DEF Passed, Returning
<1>3. <<"dlopen", "return">> \in Passed
  <2>1. <<"dlopen", "return">> = <<"dlopen">> \o <<"return">>
    BY <1>1, Pairs, Zenon
  <2>2. QED
    BY <2>1, Zenon DEF Passed, Returning, Before
<1>4. <<"validate", "render", "returnConfig">> \in Passed
  <2>1. <<"validate", "render", "returnConfig">>
           = <<"validate">> \o (<<"render">> \o <<"returnConfig">>)
    <3>1. \A x, y, z \in StepNames : <<x, y, z>> = <<x>> \o (<<y>> \o <<z>>)
      BY ONLY Pairs
    <3>2. PICK x \in StepNames, y \in StepNames, z \in StepNames :
               x = "validate" /\ y = "render" /\ z = "returnConfig"
      BY <1>1
    <3>3. <<x, y, z>> = <<x>> \o (<<y>> \o <<z>>)
      BY ONLY <3>1
    <3>4. QED
      BY ONLY <3>2, <3>3
  <2>2. <<"render">> \o <<"returnConfig">> \in Rendering
    BY Zenon DEF Rendering, Rendered, Before
  <2>3. QED
    BY <2>1, <2>2, Zenon DEF Passed, Before
<1>5. (<<"probe">> \o ModulePath(i)) \o <<"return">>
         = <<"probe">> \o (ModulePath(i) \o <<"return">>)
  <2>1. /\ <<"probe">> \in Seq(StepNames) /\ ModulePath(i) \in Seq(StepNames)
        /\ <<"return">> \in Seq(StepNames)
    BY <1>1, <1>2, Pairs, Paths, Zenon
  <2> DEFINE P == <<"probe">>  M == ModulePath(i)  R == <<"return">>
  <2> HIDE DEF P, M, R
  <2>2. P \in Seq(StepNames) /\ M \in Seq(StepNames) /\ R \in Seq(StepNames)
    BY <2>1 DEF P, M, R
  <2>3. (P \o M) \o R = P \o (M \o R)
    BY <2>2, ConcatAssociative
  <2>4. QED
    BY <2>3 DEF P, M, R
<1>6. /\ f \in {"modulePath", "opensslConfigPath", "isSupported", "register"}
      /\ f = "modulePath" => Steps(i)[f] = ModulePath(i) \o <<"return">>
      /\ f = "opensslConfigPath" =>
            Steps(i)[f] = ModulePath(i) \o <<"validate", "render", "returnConfig">>
      /\ f = "isSupported" => Steps(i)[f] = (<<"probe">> \o ModulePath(i)) \o <<"return">>
      /\ f = "register" => Steps(i)[f] = ModulePath(i) \o <<"dlopen", "return">>
  <2> DEFINE a == ModulePath(i) \o <<"return">>
             b == ModulePath(i) \o <<"validate", "render", "returnConfig">>
             c == (<<"probe">> \o ModulePath(i)) \o <<"return">>
             d == ModulePath(i) \o <<"dlopen", "return">>
  <2>1. Steps(i) = [modulePath |-> a, opensslConfigPath |-> b, isSupported |-> c,
                    register |-> d]
    BY DEF Steps
  <2> HIDE DEF a, b, c, d
  <2>2. /\ f \in {"modulePath", "opensslConfigPath", "isSupported", "register"}
        /\ f = "modulePath" => Steps(i)[f] = a
        /\ f = "opensslConfigPath" => Steps(i)[f] = b
        /\ f = "isSupported" => Steps(i)[f] = c
        /\ f = "register" => Steps(i)[f] = d
    BY <2>1
  <2>3. QED
    BY <2>2, Zenon DEF a, b, c, d
<1>7. CASE f = "isSupported"
  <2>1. /\ found[i] \/ Cached(i) =>
              ModulePath(i) \o <<"return">> \in Validating \cup Revalidating
        /\ ~found[i] /\ ~Cached(i) => ModulePath(i) \o <<"return">> \in ReadingManifest
    BY <1>2, Paths, Zenon
  <2>2. QED
    BY <1>5, <1>6, <1>7, <2>1, Zenon DEF ProbingRead, ProbingUnread, Before
<1>8. CASE f # "isSupported"
  <2>1. \E rest \in Passed : Steps(i)[f] = ModulePath(i) \o rest
    BY <1>2, <1>3, <1>4, <1>6, <1>8, Zenon
  <2>2. QED
    BY <2>1, Paths, Zenon
<1>9. QED
  BY <1>7, <1>8

-----------------------------------------------------------------------------
(***************************************************************************)
(* Steps of an isolate                                                     *)
(***************************************************************************)
\* The definitions of the types in one piece
LEMMA Typed ==
    ASSUME PackageInv
    PROVE  /\ \A i \in Isolates :
                 /\ todo[i] \in Programs /\ Snapshot(i) /\ Undisturbed(i) /\ Shared(i)
                 /\ snap[i] \in [Files -> Bytes \cup {None}]
                 /\ core[i] \in Versions \cup {None}
           /\ \A f \in Files : disk[f] \in Bytes /\ disk[f] # None
           /\ disk["core"] \in Versions /\ disk["core"] # None
BY VersionsAssumption DEF PackageInv, TypeOK, Isolate, Files

\* What one isolate does leaves the others as they were: a private file that is
\* there is not changed.
LEMMA Moves ==
    ASSUME PackageInv, TypeOK', NEW i \in Isolates, NEW p \in Programs,
           UNCHANGED <<package, core>>, todo' = [todo EXCEPT ![i] = p],
           \A j \in Isolates \ {i} :
              snap'[j] = snap[j] /\ found'[j] = found[j] /\ quiet'[j] = quiet[j],
           \A f \in {"module", "config"} : private[f] # None => private'[f] = private[f],
           Snapshot(i)', Undisturbed(i)', Shared(i)'
    PROVE  PackageInv'
<1>1. todo \in [Isolates -> Seq(StepNames)]
  BY DEF PackageInv, TypeOK
<1>2. Isolate(i)'
  BY <1>1 DEF Isolate
<1>3. ASSUME NEW j \in Isolates, j # i
      PROVE  Isolate(j)'
  <2>1. /\ todo'[j] = todo[j] /\ snap'[j] = snap[j] /\ found'[j] = found[j]
        /\ quiet'[j] = quiet[j] /\ core'[j] = core[j] /\ disk' = disk /\ archive' = archive
    BY <1>1, <1>3 DEF package
  <2>2. todo[j] \in Programs /\ Snapshot(j) /\ Undisturbed(j) /\ Shared(j)
    BY Typed
  <2>3. Snapshot(j)'
    BY <2>1, <2>2 DEF Snapshot, Cached
  <2>4. Undisturbed(j)'
    BY <2>1, <2>2 DEF Undisturbed
  <2>5. todo[j] \in Done => snap[j]["module"] # None /\ snap[j]["config"] # None
    BY <2>2 DEF Snapshot, Cached, Read, Verified
  <2>6. Rendered \subseteq Done
    BY DEF Done
  <2>7. Shared(j)'
    BY <2>1, <2>2, <2>5, <2>6 DEF Shared
  <2>8. QED
    BY <2>1, <2>2, <2>3, <2>4, <2>7 DEF Isolate
<1>4. disk'["core"] \in Versions
  BY DEF PackageInv, package
<1>5. QED
  BY <1>2, <1>3, <1>4 DEF PackageInv

\* A call that ends, and may forget what it has read of the files
LEMMA Ends ==
    ASSUME PackageInv, NEW i \in Isolates, End(i),
           UNCHANGED <<package, core, found, private>>,
           \/ snap' = snap
           \/ ~Cached(i) /\ snap' = [snap EXCEPT ![i] = Unread]
    PROVE  PackageInv'
<1>1. <<>> \in Programs /\ <<>> \notin Read \cup ReadingModule \cup ReadingConfig
  BY Apart DEF Programs
<1>2. TypeOK'
  <2>1. Unread \in [Files -> Bytes \cup {None}] /\ <<>> \in Seq(StepNames)
    BY DEF Unread
  <2>2. QED
    BY <2>1 DEF PackageInv, TypeOK, End, package
<1>3. todo'[i] = <<>> /\ quiet'[i] = FALSE
  BY DEF PackageInv, TypeOK, End
<1>4. Snapshot(i)'
  <2>1. Snapshot(i) /\ core'[i] = core[i] /\ found'[i] = found[i]
    BY Typed
  <2>2. CASE snap' = snap
    BY <1>1, <1>3, <2>1, <2>2 DEF Snapshot, Cached
  <2>3. CASE ~Cached(i) /\ snap' = [snap EXCEPT ![i] = Unread]
    <3>1. snap'[i] = Unread
      BY <2>3 DEF PackageInv, TypeOK
    <3>2. \A f \in Files : snap'[i][f] = None
      BY <3>1 DEF Unread
    <3>3. QED
      BY <1>1, <1>3, <2>1, <2>3, <3>2 DEF Snapshot, Cached, Files
  <2>4. QED
    BY <2>2, <2>3
<1>5. Undisturbed(i)'
  BY <1>3 DEF Undisturbed
<1>6. Shared(i)'
  BY <1>1, <1>3 DEF Shared, Read, Verified, Done
<1>7. \A j \in Isolates \ {i} :
         snap'[j] = snap[j] /\ found'[j] = found[j] /\ quiet'[j] = quiet[j]
  BY DEF PackageInv, TypeOK, End
<1>8. todo' = [todo EXCEPT ![i] = <<>>]
  BY DEF End
<1>9. QED
  BY <1>1, <1>2, <1>4, <1>5, <1>6, <1>7, <1>8, Moves

\* A call that proceeds, when what this takes is true already
LEMMA Proceeds ==
    ASSUME PackageInv, NEW i \in Isolates, Proceed(i), todo[i] # <<>>,
           UNCHANGED <<package, core, snap, found, private>>,
           Tail(todo[i]) \in Programs,
           Tail(todo[i]) \notin ReadingModule \cup ReadingConfig,
           Tail(todo[i]) \in Read => Cached(i),
           quiet[i] /\ Tail(todo[i]) \in Verified =>
              \A f \in Files : disk[f] = snap[i][f],
           archive /\ Tail(todo[i]) \in Done => private["module"] = snap[i]["module"],
           Tail(todo[i]) \in Rendered => private["config"] = snap[i]["config"]
    PROVE  PackageInv'
<1>1. /\ todo' = [todo EXCEPT ![i] = Tail(todo[i])] /\ todo'[i] = Tail(todo[i])
      /\ quiet' = quiet /\ Tail(todo[i]) \in Seq(StepNames)
  BY DEF PackageInv, TypeOK, Proceed
<1>2. Snapshot(i) /\ Undisturbed(i)
  BY Typed
<1>3. TypeOK'
  BY <1>1 DEF PackageInv, TypeOK, package
<1>4. Snapshot(i)'
  BY <1>1, <1>2 DEF Snapshot, Cached
<1>5. Undisturbed(i)'
  BY <1>1, <1>2 DEF Undisturbed, package
<1>6. Shared(i)'
  BY <1>1 DEF Shared, package
<1>7. QED
  BY <1>1, <1>3, <1>4, <1>5, <1>6, Moves

\* Where a call is, by its next step
LEMMA Where ==
    ASSUME PackageInv, NEW i \in Isolates
    PROVE  /\ At(i, "probe") => todo[i] \in ProbingRead \cup ProbingUnread
           /\ At(i, "readManifest") => todo[i] \in ReadingManifest
           /\ At(i, "readModule") => todo[i] \in ReadingModule
           /\ At(i, "readConfig") => todo[i] \in ReadingConfig
           /\ At(i, "resolveModule") => todo[i] \in Resolving
           /\ At(i, "validate") => todo[i] \in Passed \cup Validating \cup Revalidating
           /\ At(i, "validateModule") => todo[i] \in Checking
           /\ At(i, "dlopen") \/ At(i, "return") => todo[i] \in Passed
           /\ At(i, "render") => todo[i] \in Rendering
           /\ At(i, "returnConfig") => todo[i] \in Rendered
<1>1. todo[i] \in Programs
  BY Typed
<1>2. \/ todo[i] = <<>>
      \/ todo[i] \in Passed /\ Head(todo[i]) \in {"return", "dlopen", "validate"}
      \/ todo[i] \in Rendering /\ Head(todo[i]) = "render"
      \/ todo[i] \in Rendered /\ Head(todo[i]) = "returnConfig"
      \/ todo[i] \in Checking /\ Head(todo[i]) = "validateModule"
      \/ todo[i] \in Validating \cup Revalidating /\ Head(todo[i]) = "validate"
      \/ todo[i] \in Resolving /\ Head(todo[i]) = "resolveModule"
      \/ todo[i] \in ReadingConfig /\ Head(todo[i]) = "readConfig"
      \/ todo[i] \in ReadingModule /\ Head(todo[i]) = "readModule"
      \/ todo[i] \in ReadingManifest /\ Head(todo[i]) = "readManifest"
      \/ todo[i] \in ProbingRead \cup ProbingUnread /\ Head(todo[i]) = "probe"
  BY <1>1, Ways DEF Programs, Read, Verified, Done
<1>3. QED
  BY <1>2 DEF At

\* The parts of a call that are parts of others
LEMMA Parts ==
    /\ Passed \subseteq Done /\ Rendering \subseteq Done /\ Rendered \subseteq Done
    /\ Done \subseteq Verified /\ Checking \subseteq Verified /\ Verified \subseteq Read
    /\ Validating \subseteq Read /\ Resolving \subseteq Read /\ Revalidating \subseteq Read
    /\ ProbingRead \subseteq Read /\ Read \subseteq Programs
    /\ ReadingConfig \subseteq Programs /\ ReadingModule \subseteq Programs
    /\ ReadingManifest \subseteq Programs /\ ProbingUnread \subseteq Programs
    /\ <<>> \in Programs
BY DEF Done, Verified, Read, Programs

\* isSupported() goes on to what modulePath() does, or has its answer.
LEMMA ProbeInductive ==
    ASSUME PackageInv, NEW i \in Isolates, Probe(i)
    PROVE  PackageInv'
<1>1. CASE End(i)
  BY <1>1, Ends DEF Probe
<1>2. CASE Proceed(i)
  <2>1. todo[i] # <<>> /\ UNCHANGED <<package, core, snap, found, private>>
    BY DEF Probe, At
  <2>2. CASE todo[i] \in ProbingRead
    <3>1. Tail(todo[i]) \in Validating \cup Revalidating
      BY <2>2, Ways
    <3>2. /\ Tail(todo[i]) \in Read /\ Tail(todo[i]) \in Programs
          /\ Tail(todo[i]) \notin Verified /\ Tail(todo[i]) \notin Done
          /\ Tail(todo[i]) \notin Rendered
          /\ Tail(todo[i]) \notin ReadingModule \cup ReadingConfig
      BY <3>1, Parts, Apart
    <3>3. Cached(i)
      BY <2>2, Typed, Parts DEF Snapshot
    <3>4. QED
      BY <1>2, <2>1, <3>2, <3>3, Proceeds
  <2>3. CASE todo[i] \in ProbingUnread
    <3>1. Tail(todo[i]) \in ReadingManifest
      BY <2>3, Ways
    <3>2. /\ Tail(todo[i]) \notin Read /\ Tail(todo[i]) \in Programs
          /\ Tail(todo[i]) \notin Verified /\ Tail(todo[i]) \notin Done
          /\ Tail(todo[i]) \notin Rendered
          /\ Tail(todo[i]) \notin ReadingModule \cup ReadingConfig
      BY <3>1, Parts, Apart
    <3>3. QED
      BY <1>2, <2>1, <3>2, Proceeds
  <2>4. QED
    BY <2>2, <2>3, Where DEF Probe
<1>3. QED
  BY <1>1, <1>2 DEF Probe

\* What is read of the manifest is of core's version.
LEMMA ReadManifestInductive ==
    ASSUME PackageInv, NEW i \in Isolates, ReadManifest(i)
    PROVE  PackageInv'
<1>1. UNCHANGED <<package, core, found, private>> /\ todo[i] \in ReadingManifest
  BY Where DEF ReadManifest
<1>2. CASE disk["manifest"] = core[i]
  <2> DEFINE p == Tail(todo[i])
  <2>1. /\ snap' = [snap EXCEPT ![i]["manifest"] = core[i]] /\ Proceed(i)
    BY <1>2 DEF ReadManifest
  <2>2. p \in ReadingModule /\ p \in Programs /\ p \notin Read /\ p \notin ReadingConfig
    BY <1>1, Ways, Parts, Apart
  <2>3. p \notin Verified /\ p \notin Done /\ p \notin Rendered
    BY <2>2, Parts
  <2>4. todo' = [todo EXCEPT ![i] = p] /\ quiet' = quiet /\ p \in Seq(StepNames)
    BY <2>1, <2>2, Ways DEF Proceed
  <2>5. core[i] \in Bytes /\ core[i] # None
    BY <1>2, Typed DEF Files
  <2> HIDE DEF p
  <2>6. TypeOK'
    BY <1>1, <2>1, <2>4, <2>5 DEF PackageInv, TypeOK, package, Files
  <2>7. /\ todo'[i] = p /\ core' = core /\ found' = found /\ snap'[i]["manifest"] = core[i]
        /\ snap'[i]["module"] = snap[i]["module"] /\ snap'[i]["config"] = snap[i]["config"]
    BY <1>1, <2>1, <2>4 DEF PackageInv, TypeOK, package, Files
  <2>8. Snapshot(i)'
    BY <2>2, <2>5, <2>7, Typed DEF Snapshot, Cached
  <2>9. Undisturbed(i)'
    BY <1>1, <2>3, <2>4, <2>7, Typed DEF Undisturbed, package
  <2>10. Shared(i)'
    BY <2>3, <2>7 DEF Shared
  <2>11. \A j \in Isolates \ {i} :
            snap'[j] = snap[j] /\ found'[j] = found[j] /\ quiet'[j] = quiet[j]
    BY <1>1, <2>1, <2>4 DEF PackageInv, TypeOK
  <2>12. QED
    BY <1>1, <2>2, <2>4, <2>6, <2>8, <2>9, <2>10, <2>11, Moves
<1>3. CASE disk["manifest"] # core[i]
  BY <1>1, <1>3, Ends DEF ReadManifest, Refuse
<1>4. QED
  BY <1>2, <1>3

\* What is read of the other two is there.
LEMMA ReadFileInductive ==
    ASSUME PackageInv, NEW i \in Isolates, NEW f \in {"module", "config"}, ReadFile(i, f)
    PROVE  PackageInv'
<1>1. /\ UNCHANGED <<package, core, found, private>>
      /\ f = "module" => todo[i] \in ReadingModule
      /\ f = "config" => todo[i] \in ReadingConfig
  <2>1. /\ f = "module" =>
              [module |-> "readModule", config |-> "readConfig"][f] = "readModule"
        /\ f = "config" =>
              [module |-> "readModule", config |-> "readConfig"][f] = "readConfig"
    OBVIOUS
  <2>2. /\ UNCHANGED <<package, core, found, private>>
        /\ f = "module" => At(i, "readModule")
        /\ f = "config" => At(i, "readConfig")
    BY <2>1 DEF ReadFile
  <2>3. QED
    BY <2>2, Where, Zenon
<1>2. CASE snap' = [snap EXCEPT ![i][f] = disk[f]] /\ Proceed(i)
  <2> DEFINE p == Tail(todo[i])
  <2>1. /\ f = "module" => p \in ReadingConfig
        /\ f = "config" => p \in Resolving
        /\ p \in Programs /\ p \notin Verified /\ p \notin ReadingModule
        /\ p \in Read => f = "config"
        /\ p \in ReadingConfig => f = "module"
    <3>1. CASE f = "module"
      <4>1. p \in ReadingConfig
        BY <1>1, <3>1, Ways
      <4>2. p \in Programs /\ p \notin Read /\ p \notin Verified
        BY <4>1, Parts, Apart
      <4>3. p \notin ReadingModule
        BY <4>1, Apart
      <4>4. QED
        BY <3>1, <4>1, <4>2, <4>3
    <3>2. CASE f = "config"
      <4>1. p \in Resolving
        BY <1>1, <3>2, Ways
      <4>2. QED
        BY <3>2, <4>1, Parts, Apart
    <3>3. QED
      BY <3>1, <3>2
  <2>2. p \notin Done /\ p \notin Rendered
    BY <2>1, Parts
  <2>3. todo' = [todo EXCEPT ![i] = p] /\ quiet' = quiet /\ p \in Seq(StepNames)
    BY <1>2, <2>1, Ways DEF Proceed
  <2>4. disk[f] \in Bytes /\ disk[f] # None
    BY Typed DEF Files
  <2> HIDE DEF p
  <2>5. TypeOK'
    BY <1>1, <1>2, <2>3, <2>4 DEF PackageInv, TypeOK, package, Files
  <2>6. /\ todo'[i] = p /\ core' = core /\ found' = found /\ snap'[i][f] = disk[f]
        /\ snap'[i]["manifest"] = snap[i]["manifest"]
        /\ \A g \in {"module", "config"} : g # f => snap'[i][g] = snap[i][g]
    BY <1>1, <1>2, <2>3 DEF PackageInv, TypeOK, package, Files
  <2>7. /\ Snapshot(i) /\ snap[i]["manifest"] # None
        /\ f = "config" => snap[i]["module"] # None
    BY <1>1, Typed DEF Snapshot
  <2>8. Snapshot(i)'
    <3>1. CASE f = "module"
      BY <2>1, <2>4, <2>6, <2>7, <3>1 DEF Snapshot, Cached
    <3>2. CASE f = "config"
      BY <2>1, <2>4, <2>6, <2>7, <3>2 DEF Snapshot, Cached
    <3>3. QED
      BY <3>1, <3>2
  <2>9. Undisturbed(i)'
    BY <1>1, <2>1, <2>3, <2>6, Typed DEF Undisturbed, package
  <2>10. Shared(i)'
    BY <2>2, <2>6 DEF Shared
  <2>11. \A j \in Isolates \ {i} :
            snap'[j] = snap[j] /\ found'[j] = found[j] /\ quiet'[j] = quiet[j]
    BY <1>1, <1>2, <2>3 DEF PackageInv, TypeOK
  <2>12. QED
    BY <1>1, <2>1, <2>3, <2>5, <2>8, <2>9, <2>10, <2>11, Moves
<1>3. CASE Refuse(i)
  BY <1>1, <1>3, Ends DEF Refuse
<1>4. QED
  BY <1>2, <1>3 DEF ReadFile

\* After the validation, the files are what has been read.
LEMMA ValidateInductive ==
    ASSUME PackageInv, NEW i \in Isolates, Validate(i)
    PROVE  PackageInv'
<1>1. /\ UNCHANGED <<package, core, snap, found, private>> /\ todo[i] # <<>>
      /\ todo[i] \in Passed \cup Validating \cup Revalidating
  BY Where DEF Validate, At
<1>2. Head(todo[i]) = "validate"
  BY DEF Validate, At
<1>3. Cached(i)
  BY <1>1, Typed, Parts DEF Snapshot
<1>4. CASE End(i)
  BY <1>1, <1>4, Ends
<1>5. ASSUME \A f \in Files : disk[f] = snap[i][f], Proceed(i)
      PROVE  PackageInv'
  <2>1. CASE todo[i] \in Passed
    <3>1. Tail(todo[i]) \in Rendering
      BY <1>2, <2>1, Ways
    <3>2. /\ Tail(todo[i]) \in Programs /\ Tail(todo[i]) \in Read
          /\ Tail(todo[i]) \notin Rendered
          /\ Tail(todo[i]) \notin ReadingModule \cup ReadingConfig
          /\ todo[i] \in Verified /\ todo[i] \in Done
      BY <2>1, <3>1, Parts, Apart
    <3>3. /\ quiet[i] => \A f \in Files : disk[f] = snap[i][f]
          /\ archive => private["module"] = snap[i]["module"]
      BY <3>2, Typed DEF Undisturbed, Shared
    <3>4. QED
      BY <1>1, <1>3, <1>5, <3>2, <3>3, Proceeds
  <2>2. CASE todo[i] \in Validating
    <3>1. Tail(todo[i]) \in Checking
      BY <2>2, Ways
    <3>2. /\ Tail(todo[i]) \in Programs /\ Tail(todo[i]) \in Read
          /\ Tail(todo[i]) \notin Done /\ Tail(todo[i]) \notin Rendered
          /\ Tail(todo[i]) \notin ReadingModule \cup ReadingConfig
      BY <3>1, Parts, Apart
    <3>3. QED
      BY <1>1, <1>3, <1>5, <3>2, Proceeds
  <2>3. CASE todo[i] \in Revalidating
    <3>1. Tail(todo[i]) \in Resolving
      BY <2>3, Ways
    <3>2. /\ Tail(todo[i]) \in Programs /\ Tail(todo[i]) \notin Verified
          /\ Tail(todo[i]) \notin Done /\ Tail(todo[i]) \notin Rendered
          /\ Tail(todo[i]) \notin ReadingModule \cup ReadingConfig
      BY <3>1, Parts, Apart
    <3>3. QED
      BY <1>1, <1>3, <1>5, <3>2, Proceeds
  <2>4. QED
    BY <1>1, <2>1, <2>2, <2>3
<1>6. QED
  BY <1>4, <1>5 DEF Validate

\* writePrivateFile() leaves a private file that is there as it is.
LEMMA ResolveModuleInductive ==
    ASSUME PackageInv, NEW i \in Isolates, ResolveModule(i)
    PROVE  PackageInv'
<1> DEFINE p == Tail(todo[i])
<1>1. /\ UNCHANGED <<package, core, snap>> /\ todo[i] \in Resolving /\ Proceed(i)
      /\ found' = [found EXCEPT ![i] = TRUE]
  BY Where DEF ResolveModule
<1>2. /\ p \in Validating /\ p \in Programs /\ p \in Read /\ p \notin Verified
      /\ p \notin Done /\ p \notin Rendered /\ p \notin ReadingModule \cup ReadingConfig
  <2>1. p \in Validating
    BY <1>1, Ways
  <2>2. QED
    BY <2>1, Parts, Apart
<1>3. Cached(i)
  BY <1>1, Typed, Parts DEF Snapshot
<1>4. todo' = [todo EXCEPT ![i] = p] /\ quiet' = quiet /\ p \in Seq(StepNames)
  BY <1>1, <1>2, Ways DEF Proceed
<1> HIDE DEF p
<1>5. /\ private' \in [{"module", "config"} -> Bytes \cup {None}]
      /\ \A f \in {"module", "config"} : private[f] # None => private'[f] = private[f]
  <2>1. /\ private \in [{"module", "config"} -> Bytes \cup {None}]
        /\ snap[i]["module"] \in Bytes \cup {None}
    BY Typed DEF PackageInv, TypeOK, Files
  <2>2. CASE UNCHANGED private
    BY <2>1, <2>2
  <2>3. CASE WritePrivateFile(i, "module")
    BY <2>1, <2>3 DEF WritePrivateFile
  <2>4. QED
    BY <2>2, <2>3 DEF ResolveModule
<1>6. TypeOK'
  BY <1>1, <1>4, <1>5 DEF PackageInv, TypeOK, package
<1>7. /\ todo'[i] = p /\ core' = core /\ snap' = snap
  BY <1>1, <1>4 DEF PackageInv, TypeOK
<1>8. Snapshot(i)'
  BY <1>2, <1>3, <1>7, Typed DEF Snapshot, Cached
<1>9. Undisturbed(i)'
  BY <1>1, <1>2, <1>4, <1>7, Typed DEF Undisturbed, package
<1>10. Shared(i)'
  BY <1>2, <1>7 DEF Shared
<1>11. \A j \in Isolates \ {i} :
          snap'[j] = snap[j] /\ found'[j] = found[j] /\ quiet'[j] = quiet[j]
  BY <1>1, <1>4 DEF PackageInv, TypeOK
<1>12. QED
  BY <1>1, <1>2, <1>4, <1>5, <1>6, <1>8, <1>9, <1>10, <1>11, Moves

\* A module that was copied has been compared with what was read.
LEMMA ValidateModuleInductive ==
    ASSUME PackageInv, NEW i \in Isolates, ValidateModule(i)
    PROVE  PackageInv'
<1>1. /\ UNCHANGED <<package, core, snap, found, private>> /\ todo[i] # <<>>
      /\ todo[i] \in Checking /\ Proceed(i)
      /\ archive => private["module"] = snap[i]["module"]
  BY Where DEF ValidateModule, At
<1>2. Tail(todo[i]) \in Passed
  BY <1>1, Ways
<1>3. /\ Tail(todo[i]) \in Programs /\ Tail(todo[i]) \notin Rendered
      /\ Tail(todo[i]) \notin ReadingModule \cup ReadingConfig
      /\ todo[i] \in Verified /\ todo[i] \in Read
  BY <1>1, <1>2, Parts, Apart
<1>4. /\ Cached(i)
      /\ quiet[i] => \A f \in Files : disk[f] = snap[i][f]
  BY <1>3, Typed DEF Snapshot, Undisturbed
<1>5. QED
  BY <1>1, <1>3, <1>4, Proceeds

\* The private config is the one that is there, or of what has been read.
LEMMA RenderInductive ==
    ASSUME PackageInv, NEW i \in Isolates, Render(i)
    PROVE  PackageInv'
<1> DEFINE p == Tail(todo[i])
<1>1. /\ UNCHANGED <<package, core, snap, found>> /\ todo[i] \in Rendering /\ Proceed(i)
      /\ WritePrivateFile(i, "config")
  BY Where DEF Render
<1>2. /\ p \in Rendered /\ p \in Programs /\ p \in Read
      /\ p \notin ReadingModule \cup ReadingConfig
      /\ todo[i] \in Verified /\ todo[i] \in Done
  <2>1. p \in Rendered
    BY <1>1, Ways
  <2>2. QED
    BY <1>1, <2>1, Parts, Apart
<1>3. /\ Snapshot(i) /\ Cached(i)
      /\ archive => private["module"] = snap[i]["module"]
  BY <1>2, Typed, Parts DEF Snapshot, Shared
<1>4. todo' = [todo EXCEPT ![i] = p] /\ quiet' = quiet /\ p \in Seq(StepNames)
  BY <1>1, <1>2, Ways DEF Proceed
<1> HIDE DEF p
<1>5. /\ private' \in [{"module", "config"} -> Bytes \cup {None}]
      /\ \A f \in {"module", "config"} : private[f] # None => private'[f] = private[f]
      /\ private'["config"] = snap[i]["config"] /\ private'["module"] = private["module"]
  <2>1. /\ private \in [{"module", "config"} -> Bytes \cup {None}]
        /\ snap[i]["config"] \in Bytes \cup {None}
    BY Typed DEF PackageInv, TypeOK, Files
  <2>2. QED
    BY <1>1, <2>1 DEF WritePrivateFile
<1>6. TypeOK'
  BY <1>1, <1>4, <1>5 DEF PackageInv, TypeOK, package
<1>7. /\ todo'[i] = p /\ core' = core /\ snap' = snap /\ found' = found
  BY <1>1, <1>4 DEF PackageInv, TypeOK
<1>8. Snapshot(i)'
  BY <1>2, <1>3, <1>7 DEF Snapshot, Cached
<1>9. Undisturbed(i)'
  BY <1>1, <1>2, <1>4, <1>7, Typed DEF Undisturbed, package
<1>10. Shared(i)'
  <2>1. archive' = archive
    BY <1>1 DEF package
  <2>2. QED
    BY <1>2, <1>3, <1>5, <1>7, <2>1 DEF Shared
<1>11. \A j \in Isolates \ {i} :
          snap'[j] = snap[j] /\ found'[j] = found[j] /\ quiet'[j] = quiet[j]
  BY <1>1, <1>4
<1>12. QED
  BY <1>1, <1>2, <1>4, <1>5, <1>6, <1>8, <1>9, <1>10, <1>11, Moves

\* The module that is loaded is that of the path, or the call ends.
LEMMA DlopenInductive ==
    ASSUME PackageInv, NEW i \in Isolates, Dlopen(i)
    PROVE  PackageInv'
<1>1. /\ UNCHANGED <<package, core, snap, found, private>> /\ todo[i] # <<>>
      /\ todo[i] \in Passed /\ Head(todo[i]) = "dlopen"
  BY Where DEF Dlopen, At
<1>2. CASE End(i)
  BY <1>1, <1>2, Ends
<1>3. CASE Proceed(i)
  <2>1. Tail(todo[i]) \in Passed
    BY <1>1, Ways
  <2>2. /\ Tail(todo[i]) \in Programs /\ Tail(todo[i]) \notin Rendered
        /\ Tail(todo[i]) \notin ReadingModule \cup ReadingConfig
        /\ todo[i] \in Verified /\ todo[i] \in Read /\ todo[i] \in Done
    BY <1>1, <2>1, Parts, Apart
  <2>3. /\ Cached(i)
        /\ quiet[i] => \A f \in Files : disk[f] = snap[i][f]
        /\ archive => private["module"] = snap[i]["module"]
    BY <2>2, Typed DEF Snapshot, Undisturbed, Shared
  <2>4. QED
    BY <1>1, <1>3, <2>2, <2>3, Proceeds
<1>4. QED
  BY <1>2, <1>3 DEF Dlopen

\* What cannot be written, or is other than it should be, ends the call.
LEMMA FileFailsInductive ==
    ASSUME PackageInv, NEW i \in Isolates, FileFails(i)
    PROVE  PackageInv'
BY Ends DEF FileFails

\* The path is the last of a call.
LEMMA ReturnInductive ==
    ASSUME PackageInv, NEW i \in Isolates, Return(i)
    PROVE  PackageInv'
BY Ends DEF Return

\* An isolate that has no copy of index.js has read nothing.
LEMMA ImportInductive ==
    ASSUME PackageInv, NEW i \in Isolates, Import(i)
    PROVE  PackageInv'
<1>1. /\ UNCHANGED <<package, todo, snap, found, quiet, private>> /\ core[i] = None
      /\ core' = [core EXCEPT ![i] = disk["core"]] /\ disk["core"] \in Versions
  BY Typed DEF Import
<1>2. TypeOK'
  BY <1>1 DEF PackageInv, TypeOK, package
<1>3. disk'["core"] \in Versions /\ disk' = disk /\ archive' = archive
  BY <1>1 DEF PackageInv, package
<1>4. ASSUME NEW j \in Isolates
      PROVE  Isolate(j)'
  <2>1. todo[j] \in Programs /\ Snapshot(j) /\ Undisturbed(j) /\ Shared(j)
    BY Typed
  <2>2. CASE j # i
    <3>1. core'[j] = core[j]
      BY <1>1, <2>2 DEF PackageInv, TypeOK
    <3>2. QED
      BY <1>1, <1>3, <2>1, <3>1 DEF Isolate, Snapshot, Undisturbed, Shared, Cached
  <2>3. CASE j = i
    <3>1. /\ core'[i] = disk["core"] /\ todo[i] = <<>> /\ snap[i]["manifest"] = None
          /\ ~Cached(i) /\ ~found[i]
      BY <1>1, <2>1, <2>3 DEF PackageInv, TypeOK, Snapshot
    <3>2. <<>> \notin Read \cup ReadingModule \cup ReadingConfig
      BY Apart
    <3>3. Snapshot(i)'
      BY <1>1, <3>1, <3>2 DEF Snapshot, Cached
    <3>4. <<>> \notin Verified /\ <<>> \notin Done /\ <<>> \notin Rendered
      BY <3>2, Parts
    <3>5. Undisturbed(i)'
      BY <1>1, <1>3, <2>1, <2>3, <3>1, <3>4 DEF Undisturbed
    <3>6. Shared(i)'
      BY <1>1, <3>1, <3>4 DEF Shared
    <3>7. QED
      BY <1>1, <2>1, <2>3, <3>3, <3>5, <3>6 DEF Isolate
  <2>4. QED
    BY <2>2, <2>3
<1>5. QED
  BY <1>2, <1>3, <1>4 DEF PackageInv

\* A call begins with the files, unless they are cached.
LEMMA CallInductive ==
    ASSUME PackageInv, NEW i \in Isolates, NEW f \in DOMAIN Steps(i), Call(i, f)
    PROVE  PackageInv'
<1> DEFINE p == Steps(i)[f]
<1>1. /\ UNCHANGED <<package, core, snap, found, private>> /\ core[i] # None
      /\ todo' = [todo EXCEPT ![i] = p] /\ quiet' = [quiet EXCEPT ![i] = TRUE]
  BY DEF Call
<1>2. /\ p \in Programs /\ p \notin Verified
      /\ p \notin ReadingModule \cup ReadingConfig
      /\ p \in Read => Cached(i)
  <2>1. found[i] => Cached(i)
    BY Typed DEF Snapshot
  <2>2. CASE Cached(i)
    <3>1. p \in Validating \cup Revalidating \cup ProbingRead
      BY <2>2, Calls
    <3>2. QED
      BY <2>2, <3>1, Parts, Apart
  <2>3. CASE ~Cached(i)
    <3>1. p \in ReadingManifest \cup ProbingUnread
      BY <2>1, <2>3, Calls
    <3>2. QED
      BY <3>1, Parts, Apart
  <2>4. QED
    BY <2>2, <2>3
<1>3. p \notin Done /\ p \notin Rendered /\ p \in Seq(StepNames)
  BY <1>2, Parts, Ways
<1> HIDE DEF p
<1>4. TypeOK'
  BY <1>1, <1>3 DEF PackageInv, TypeOK, package
<1>5. todo'[i] = p
  BY <1>1 DEF PackageInv, TypeOK
<1>6. Snapshot(i)'
  BY <1>1, <1>2, <1>5, Typed DEF Snapshot, Cached
<1>7. Undisturbed(i)'
  BY <1>2, <1>5 DEF Undisturbed
<1>8. Shared(i)'
  BY <1>3, <1>5 DEF Shared
<1>9. \A j \in Isolates \ {i} :
          snap'[j] = snap[j] /\ found'[j] = found[j] /\ quiet'[j] = quiet[j]
  BY <1>1 DEF PackageInv, TypeOK
<1>10. QED
  BY <1>1, <1>2, <1>4, <1>6, <1>7, <1>8, <1>9, Moves

-----------------------------------------------------------------------------
(***************************************************************************)
(* Steps of npm                                                            *)
(***************************************************************************)
\* npm begins.
LEMMA InstallInductive ==
    ASSUME PackageInv, NEW v \in Versions, Install(v)
    PROVE  PackageInv'
<1>1. /\ UNCHANGED <<disk, archive, core, todo, snap, found, quiet, private>>
      /\ installing' = v /\ installs' = installs + 1 /\ installs < MaxInstalls
  BY DEF Install, isolate
<1>2. TypeOK'
  <2>1. installs' \in 0..MaxInstalls
    BY <1>1, VersionsAssumption DEF PackageInv, TypeOK
  <2>2. QED
    BY <1>1, <2>1 DEF PackageInv, TypeOK
<1>3. \A i \in Isolates : Isolate(i)'
  BY <1>1 DEF PackageInv, Isolate, Snapshot, Undisturbed, Shared, Cached
<1>4. QED
  BY <1>1, <1>2, <1>3 DEF PackageInv

\* npm ends, with what it has replaced.
LEMMA InstallEndsInductive ==
    ASSUME PackageInv, InstallEnds
    PROVE  PackageInv'
<1>1. /\ UNCHANGED <<disk, archive, core, todo, snap, found, quiet, private, installs>>
      /\ installing' = None
  BY DEF InstallEnds, isolate
<1>2. TypeOK'
  BY <1>1 DEF PackageInv, TypeOK
<1>3. \A i \in Isolates : Isolate(i)'
  BY <1>1 DEF PackageInv, Isolate, Snapshot, Undisturbed, Shared, Cached
<1>4. QED
  BY <1>1, <1>2, <1>3 DEF PackageInv

\* A file that is replaced disturbs every call.
LEMMA ReplaceInductive ==
    ASSUME PackageInv, NEW f \in DOMAIN disk, Replace(f)
    PROVE  PackageInv'
<1>1. /\ UNCHANGED <<installing, installs, archive, core, todo, snap, found, private>>
      /\ quiet' = [i \in Isolates |-> FALSE] /\ installing \in Versions
  BY DEF Replace, PackageInv, TypeOK
<1>2. PICK bytes \in Bytes :
         /\ disk' = [disk EXCEPT ![f] = bytes]
         /\ f = "core" => bytes \in Versions
  BY <1>1 DEF Replace, Bytes
<1>3. disk' \in [Files \cup {"core"} -> Bytes]
  BY <1>2 DEF PackageInv, TypeOK
<1>4. TypeOK'
  BY <1>1, <1>3 DEF PackageInv, TypeOK
<1>5. disk'["core"] \in Versions
  <2>1. disk["core"] \in Versions /\ disk \in [Files \cup {"core"} -> Bytes]
    BY DEF PackageInv, TypeOK
  <2>2. QED
    BY <1>2, <2>1
<1>6. ASSUME NEW i \in Isolates
      PROVE  Isolate(i)'
  <2>1. todo[i] \in Programs /\ Snapshot(i) /\ Shared(i)
    BY Typed
  <2>2. ~quiet'[i]
    BY <1>1
  <2>3. QED
    BY <1>1, <2>1, <2>2 DEF Isolate, Snapshot, Undisturbed, Shared, Cached
<1>7. QED
  BY <1>4, <1>5, <1>6 DEF PackageInv

-----------------------------------------------------------------------------
(***************************************************************************)
(* The invariant                                                           *)
(***************************************************************************)
\* No isolate has read anything.
LEMMA InitPackage == Init => PackageInv
<1> SUFFICES ASSUME Init
    PROVE  PackageInv
  OBVIOUS
<1>1. PICK v \in Versions : disk = [f \in Files \cup {"core"} |-> v]
  BY DEF Init
<1>2. <<>> \in Seq(StepNames) /\ Unread \in [Files -> Bytes \cup {None}]
  BY DEF Unread
<1>3. TypeOK
  <2>1. disk \in [Files \cup {"core"} -> Bytes]
    BY <1>1 DEF Bytes
  <2>2. 0 \in 0..MaxInstalls
    BY VersionsAssumption
  <2>3. QED
    BY <1>2, <2>1, <2>2 DEF Init, TypeOK
<1>4. disk["core"] \in Versions
  BY <1>1, VersionsAssumption
<1>5. ASSUME NEW i \in Isolates
      PROVE  Isolate(i)
  <2>1. /\ todo[i] = <<>> /\ core[i] = None /\ ~found[i] /\ ~quiet[i]
        /\ snap[i] = [f \in Files |-> None]
    BY DEF Init, Unread
  <2>2. <<>> \in Programs /\ <<>> \notin Read \cup ReadingModule \cup ReadingConfig
    BY Apart, Parts
  <2>3. <<>> \notin Done /\ <<>> \notin Rendered
    BY <2>2, Parts
  <2>4. Snapshot(i)
    BY <2>1, <2>2 DEF Snapshot, Cached, Files
  <2>5. QED
    BY <2>1, <2>2, <2>3, <2>4 DEF Isolate, Undisturbed, Shared
<1>6. QED
  BY <1>3, <1>4, <1>5 DEF PackageInv

\* Every step keeps the invariant.
LEMMA NextPackage == PackageInv /\ [Next]_vars => PackageInv'
<1> SUFFICES ASSUME PackageInv, [Next]_vars
    PROVE  PackageInv'
  OBVIOUS
<1>1. CASE \E i \in Isolates : Import(i)
  BY <1>1, ImportInductive
<1>2. CASE \E i \in Isolates : Probe(i)
  BY <1>2, ProbeInductive
<1>3. CASE \E i \in Isolates : ReadManifest(i)
  BY <1>3, ReadManifestInductive
<1>4. CASE \E i \in Isolates : ReadFile(i, "module") \/ ReadFile(i, "config")
  BY <1>4, ReadFileInductive
<1>5. CASE \E i \in Isolates : Validate(i)
  BY <1>5, ValidateInductive
<1>6. CASE \E i \in Isolates : ResolveModule(i)
  BY <1>6, ResolveModuleInductive
<1>7. CASE \E i \in Isolates : ValidateModule(i)
  BY <1>7, ValidateModuleInductive
<1>8. CASE \E i \in Isolates : Render(i)
  BY <1>8, RenderInductive
<1>9. CASE \E i \in Isolates : FileFails(i)
  BY <1>9, FileFailsInductive
<1>10. CASE \E i \in Isolates : Dlopen(i)
  BY <1>10, DlopenInductive
<1>11. CASE \E i \in Isolates : Return(i)
  BY <1>11, ReturnInductive
<1>12. CASE \E i \in Isolates : \E f \in DOMAIN Steps(i) : Call(i, f)
  BY <1>12, CallInductive
<1>13. CASE \E v \in Versions : Install(v)
  BY <1>13, InstallInductive
<1>14. CASE \E f \in DOMAIN disk : Replace(f)
  BY <1>14, ReplaceInductive
<1>15. CASE InstallEnds
  BY <1>15, InstallEndsInductive
<1>16. CASE UNCHANGED vars
  BY <1>16 DEF PackageInv, TypeOK, Isolate, Snapshot, Undisturbed, Shared, Cached,
     vars, package, isolate
<1>17. QED
  BY <1>1, <1>2, <1>3, <1>4, <1>5, <1>6, <1>7, <1>8, <1>9, <1>10, <1>11, <1>12, <1>13,
     <1>14, <1>15, <1>16 DEF Next

\* The invariant: how far a call of index.js has come says what its isolate has
\* read, what of it was verified since, and which private files it shares.
THEOREM PackageInvariant == Spec => []PackageInv
BY InitPackage, NextPackage, PTL DEF Spec

\* The files, npm's work, and what every isolate's copy of index.js holds keep
\* their types.
THEOREM PackageTypeCorrect == Spec => []TypeOK
<1>1. PackageInv => TypeOK
  BY DEF PackageInv
<1>2. QED
  BY <1>1, PackageInvariant, PTL

\* The module that modulePath() returns or register() loads is that of the package,
\* the config is made of its template, and its manifest has the version of the core
\* package that asks, unless a file is replaced during the call; of a package that
\* is left half installed too.
THEOREM AlwaysVerifiedBytes == Spec => []VerifiedBytes
<1>1. PackageInv => VerifiedBytes
  <2> SUFFICES ASSUME PackageInv, NEW i \in Isolates, quiet[i],
                      At(i, "dlopen") \/ At(i, "return") \/ At(i, "returnConfig")
      PROVE  /\ disk["manifest"] = core[i] /\ AtPath = disk["module"]
             /\ At(i, "returnConfig") => private["config"] = disk["config"]
    BY DEF VerifiedBytes
  <2>1. Undisturbed(i) /\ Shared(i) /\ Snapshot(i)
    BY Typed
  <2>2. /\ todo[i] \in Done /\ todo[i] \in Verified /\ todo[i] \in Read
        /\ At(i, "returnConfig") => todo[i] \in Rendered
    BY Where, Parts
  <2>3. \A f \in Files : disk[f] = snap[i][f]
    BY <2>1, <2>2 DEF Undisturbed
  <2>4. snap[i]["manifest"] = core[i]
    BY <2>1, <2>2 DEF Snapshot
  <2>5. QED
    BY <2>1, <2>2, <2>3, <2>4 DEF AtPath, Shared, Files
<1>2. QED
  BY <1>1, PackageInvariant, PTL

\* The private files that all isolates of a process share have, for each that is
\* given the path, the bytes that it has read and verified.
THEOREM AlwaysSharedFilesAgree == Spec => []SharedFilesAgree
<1>1. PackageInv => SharedFilesAgree
  <2> SUFFICES ASSUME PackageInv, NEW i \in Isolates
      PROVE  /\ archive /\ (At(i, "return") \/ At(i, "dlopen")) =>
                   private["module"] = snap[i]["module"]
             /\ At(i, "returnConfig") => private["config"] = snap[i]["config"]
    BY DEF SharedFilesAgree
  <2>1. Shared(i)
    BY Typed
  <2>2. QED
    BY <2>1, Where, Parts DEF Shared
<1>2. QED
  BY <1>1, PackageInvariant, PTL

================================================================================
