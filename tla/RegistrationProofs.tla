-------------------------- MODULE RegistrationProofs --------------------------
(***************************************************************************)
(* Proofs about Registration for any number of isolates and any default    *)
(* property query: the provider is registered once, the guard is in the    *)
(* query before that, and the query is otherwise left as it was.           *)
(***************************************************************************)
EXTENDS Registration, FiniteSetTheorems, SequenceTheorems, TLAPS

\* What the isolate inside awskms_register knows at each of its steps
BeforeChange == {"read", "add", "set"}
AfterChange == {"load", "restore"}

\* The query once awskms_register has stopped with an error
PutBack == error # None /\ (error # "unrestored" => default = policy)

RoutineMatchesPc ==
    \A i \in Isolates :
        /\ pc[i] \in Routine =>
              once = "running" /\ \A j \in Isolates : pc[j] \in Routine => i = j
        /\ pc[i] \in BeforeChange \cup AfterChange => ~ succeeded /\ error = None
        /\ pc[i] \in BeforeChange => default = policy
        /\ pc[i] \in {"add", "set"} => existing = default
        /\ pc[i] \in {"add", "set"} \cup AfterChange =>
              /\ existing \in Seq(Clauses) /\ MarkerState(existing) # "conflict"
              /\ existing = policy
        /\ pc[i] \in AfterChange => default = Merged
        /\ pc[i] = "return" => succeeded \/ PutBack

OnceMatches ==
    /\ once = "fresh" => ~ succeeded /\ error = None /\ default = policy
    /\ once = "done" => succeeded \/ PutBack
    /\ succeeded => active /\ error = None /\ MarkerState(default) = "guard"
    /\ retained = (IF succeeded THEN 1 ELSE 0)

IsolatesTold ==
    \A i \in Isolates :
        /\ pc[i] = "registered" => succeeded
        /\ pc[i] = "thrown" => once = "done" /\ ~ succeeded

RegistrationInv ==
    /\ TypeOK /\ RoutineMatchesPc /\ OnceMatches /\ IsolatesTold
    /\ Preserves(default, policy)

-----------------------------------------------------------------------------
(***************************************************************************)
(* Queries and their clauses                                               *)
(***************************************************************************)

\* A clause that is appended is counted once more, the others as often as before.
LEMMA CountAppend ==
    ASSUME NEW S, NEW q \in Seq(S), NEW c \in S, NEW d
    PROVE  /\ Count(q, d) \in Nat
           /\ Count(Append(q, c), d) = Count(q, d) + (IF c = d THEN 1 ELSE 0)
<1> DEFINE before == {n \in 1..Len(q) : q[n] = d}
           after == {n \in 1..Len(Append(q, c)) : Append(q, c)[n] = d}
           last == Len(q) + 1
<1>1. IsFiniteSet(before) /\ Cardinality(before) \in Nat
  <2>1. IsFiniteSet(1..Len(q)) /\ before \in SUBSET (1..Len(q))
    BY FS_Interval
  <2>2. IsFiniteSet(before)
    BY <2>1, FS_Subset
  <2>3. QED
    BY <2>2, FS_CardinalityType
<1>2. after = before \cup (IF c = d THEN {last} ELSE {})
  OBVIOUS
<1>3. last \notin before
  OBVIOUS
<1>4. Count(q, d) = Cardinality(before) /\ Count(Append(q, c), d) = Cardinality(after)
  BY DEF Count
<1> HIDE DEF before, after, last
<1>5. Cardinality(before \cup {last}) =
        IF last \in before THEN Cardinality(before) ELSE Cardinality(before) + 1
  BY <1>1, FS_AddElement, Zenon
<1>6. CASE c = d
  <2>1. after = before \cup {last}
    BY <1>2, <1>6
  <2>2. QED
    BY <1>1, <1>3, <1>4, <1>5, <1>6, <2>1
<1>7. CASE c # d
  <2>1. after = before
    BY <1>2, <1>7
  <2>2. QED
    BY <1>1, <1>4, <1>7, <2>1
<1>8. QED
  BY <1>6, <1>7

\* awskms_append_default_property gives a query with the guard.
LEMMA MergedHasGuard ==
    ASSUME NEW q \in Seq(Clauses), MarkerState(q) # "conflict"
    PROVE  MarkerState(IF MarkerState(q) = "guard" THEN q ELSE Append(q, Guard))
             = "guard"
<1>1. Guard \in Clauses /\ Guard # Reserved
  BY DEF Guard, Reserved, Clauses
<1>2. /\ Count(q, Guard) \in Nat /\ Count(q, Reserved) \in Nat
      /\ Count(Append(q, Guard), Guard) = Count(q, Guard) + 1
      /\ Count(Append(q, Guard), Reserved) = Count(q, Reserved)
  BY <1>1, CountAppend
<1>3. QED
  BY <1>2 DEF MarkerState

\* setFips does not change what the marker is.
LEMMA FipsKeepsMarker ==
    ASSUME NEW q \in Seq(Clauses)
    PROVE  MarkerState(Append(q, Fips)) = MarkerState(q)
<1>1. Fips \in Clauses /\ Fips # Reserved /\ Fips # Guard
  BY DEF Guard, Reserved, Fips, Clauses
<1>2. /\ Count(q, Guard) \in Nat /\ Count(q, Reserved) \in Nat
      /\ Count(Append(q, Fips), Guard) = Count(q, Guard)
      /\ Count(Append(q, Fips), Reserved) = Count(q, Reserved)
  BY <1>1, CountAppend
<1>3. QED
  BY <1>2 DEF MarkerState

\* A query without its last clause
LEMMA RemoveLast ==
    ASSUME NEW S, NEW q \in Seq(S), NEW c \in S
    PROVE  RemoveAt(Append(q, c), Len(q) + 1) = q
BY DEF RemoveAt

\* The rest of a sequence to which an element is appended.
LEMMA RestAppend ==
    ASSUME NEW S, NEW q \in Seq(S), NEW c \in S, NEW m \in 1..(Len(q) + 1)
    PROVE  SubSeq(Append(q, c), m, Len(q) + 1) = Append(SubSeq(q, m, Len(q)), c)
<1> DEFINE r == Append(q, c)
           back == SubSeq(q, m, Len(q))
           rest == SubSeq(r, m, Len(q) + 1)
<1>1. /\ r \in Seq(S) /\ Len(r) = Len(q) + 1 /\ r[Len(q) + 1] = c
      /\ \A k \in 1..Len(q) : r[k] = q[k]
  BY AppendProperties
<1>2. /\ back \in Seq(S) /\ Len(back) = Len(q) + 1 - m
      /\ \A k \in 1..(Len(q) + 1 - m) : back[k] = q[m + k - 1]
  BY SubSeqProperties
<1> HIDE DEF r
<1>3. /\ rest \in Seq(S) /\ Len(rest) = Len(q) + 2 - m
      /\ \A k \in 1..(Len(q) + 2 - m) : rest[k] = r[m + k - 1]
  BY <1>1, SubSeqProperties
<1> HIDE DEF back, rest
<1>4. /\ Append(back, c) \in Seq(S) /\ Len(Append(back, c)) = Len(back) + 1
      /\ \A k \in 1..Len(back) : Append(back, c)[k] = back[k]
      /\ Append(back, c)[Len(back) + 1] = c
  BY <1>2
<1>5. \A k \in 1..Len(rest) : rest[k] = Append(back, c)[k]
  <2> SUFFICES ASSUME NEW k \in 1..Len(rest) PROVE rest[k] = Append(back, c)[k]
    OBVIOUS
  <2>1. CASE k = Len(rest)
    BY <2>1, <1>1, <1>2, <1>3, <1>4
  <2>2. CASE k # Len(rest)
    <3>1. k \in 1..Len(back) /\ m + k - 1 \in 1..Len(q)
      BY <2>2, <1>2, <1>3
    <3>2. QED
      BY <3>1, <1>1, <1>2, <1>3, <1>4
  <2>3. QED
    BY <2>1, <2>2
<1>6. rest = Append(back, c)
  <2>1. Len(rest) = Len(Append(back, c))
    BY <1>2, <1>3, <1>4
  <2>2. QED
    BY <1>3, <1>4, <1>5, <2>1, SeqEqual, Zenon
<1>7. QED
  BY <1>6 DEF rest, back, r

\* A clause is removed from a query before or after another is appended.
LEMMA RemoveAppend ==
    ASSUME NEW S, NEW q \in Seq(S), NEW c \in S, NEW n \in 1..Len(q)
    PROVE  RemoveAt(Append(q, c), n) = Append(RemoveAt(q, n), c)
<1> DEFINE front == SubSeq(q, 1, n - 1)
           back == SubSeq(q, n + 1, Len(q))
<1>1. front \in Seq(S) /\ back \in Seq(S)
  OBVIOUS
<1>2. SubSeq(Append(q, c), 1, n - 1) = front
  OBVIOUS
<1>3. SubSeq(Append(q, c), n + 1, Len(Append(q, c))) = Append(back, c)
  <2>1. n + 1 \in 1..(Len(q) + 1) /\ Len(Append(q, c)) = Len(q) + 1
    OBVIOUS
  <2>2. \A m \in 1..(Len(q) + 1) :
          SubSeq(Append(q, c), m, Len(q) + 1) = Append(SubSeq(q, m, Len(q)), c)
    BY RestAppend
  <2>3. QED
    BY <2>1, <2>2
<1> HIDE DEF front, back
<1>4. front \o Append(back, c) = Append(front \o back, c)
  BY <1>1
<1>5. QED
  BY <1>2, <1>3, <1>4 DEF RemoveAt, front, back

\* A guard that was put in stays one when the query grows, and what is left
\* without it grows the same.
LEMMA PreservesAppend ==
    ASSUME NEW S, NEW q \in Seq(S), NEW p \in Seq(S), NEW c \in S, Preserves(q, p)
    PROVE  Preserves(Append(q, c), Append(p, c))
<1>1. CASE q = p
  BY <1>1 DEF Preserves
<1>2. ASSUME NEW n \in 1..Len(q), q[n] = Guard, RemoveAt(q, n) = p
      PROVE  Preserves(Append(q, c), Append(p, c))
  <2>1. RemoveAt(Append(q, c), n) = Append(p, c)
    BY <1>2, RemoveAppend
  <2>2. n \in 1..Len(Append(q, c)) /\ Append(q, c)[n] = Guard
    BY <1>2
  <2>3. QED
    BY <2>1, <2>2 DEF Preserves
<1>3. QED
  BY <1>1, <1>2 DEF Preserves

\* awskms_append_default_property puts one guard in, or none.
LEMMA MergedPreserves ==
    ASSUME existing \in Seq(Clauses)
    PROVE  Merged \in Seq(Clauses) /\ Preserves(Merged, existing)
<1>1. Guard \in Clauses
  BY DEF Clauses
<1>2. RemoveAt(Append(existing, Guard), Len(existing) + 1) = existing
  BY <1>1, RemoveLast
<1>3. /\ Append(existing, Guard) \in Seq(Clauses)
      /\ Len(existing) + 1 \in 1..Len(Append(existing, Guard))
      /\ Append(existing, Guard)[Len(existing) + 1] = Guard
  BY <1>1
<1>4. QED
  BY <1>2, <1>3 DEF Merged, Preserves

-----------------------------------------------------------------------------
(***************************************************************************)
(* The invariant                                                           *)
(***************************************************************************)
LEMMA InitRegistration == Init => RegistrationInv
<1> SUFFICES ASSUME Init PROVE RegistrationInv
  OBVIOUS
<1>1. TypeOK
  BY PoliciesAssumption DEF Init, TypeOK
<1>2. RoutineMatchesPc /\ OnceMatches /\ IsolatesTold
  BY DEF Init, RoutineMatchesPc, OnceMatches, IsolatesTold, Routine,
         BeforeChange, AfterChange
<1>3. QED
  BY <1>1, <1>2 DEF Init, RegistrationInv, Preserves

\* An isolate asks to be registered.
LEMMA RegisterStep ==
    ASSUME RegistrationInv, NEW i \in Isolates, Register(i)
    PROVE  RegistrationInv'
<1> USE NoneAssumption
    DEF RegistrationInv, TypeOK, RoutineMatchesPc, OnceMatches, IsolatesTold,
        PutBack, Routine, BeforeChange, AfterChange, Errors, Goto, Stop
<1>1. TypeOK'
  BY DEF Register
<1>2. RoutineMatchesPc'
  BY DEF Register, Merged
<1>3. OnceMatches'
  BY DEF Register
<1>4. IsolatesTold'
  BY DEF Register
<1>5. Preserves(default, policy)'
  BY DEF Register
<1>6. QED
  BY <1>1, <1>2, <1>3, <1>4, <1>5

\* One isolate enters CRYPTO_THREAD_run_once.
LEMMA RunOnceStep ==
    ASSUME RegistrationInv, NEW i \in Isolates, RunOnce(i)
    PROVE  RegistrationInv'
<1> USE NoneAssumption
    DEF RegistrationInv, TypeOK, RoutineMatchesPc, OnceMatches, IsolatesTold,
        PutBack, Routine, BeforeChange, AfterChange, Errors, Goto, Stop
<1>1. TypeOK'
  BY DEF RunOnce
<1>2. RoutineMatchesPc'
  BY DEF RunOnce, Merged
<1>3. OnceMatches'
  BY DEF RunOnce
<1>4. IsolatesTold'
  BY DEF RunOnce
<1>5. Preserves(default, policy)'
  BY DEF RunOnce
<1>6. QED
  BY <1>1, <1>2, <1>3, <1>4, <1>5

\* ... and returns from it.
LEMMA RunOnceDoneStep ==
    ASSUME RegistrationInv, NEW i \in Isolates, RunOnceDone(i)
    PROVE  RegistrationInv'
<1> USE NoneAssumption
    DEF RegistrationInv, TypeOK, RoutineMatchesPc, OnceMatches, IsolatesTold,
        PutBack, Routine, BeforeChange, AfterChange, Errors, Goto, Stop
<1>1. TypeOK'
  BY DEF RunOnceDone
<1>2. RoutineMatchesPc'
  BY DEF RunOnceDone, Merged
<1>3. OnceMatches'
  BY DEF RunOnceDone
<1>4. IsolatesTold'
  BY DEF RunOnceDone
<1>5. Preserves(default, policy)'
  BY DEF RunOnceDone
<1>6. QED
  BY <1>1, <1>2, <1>3, <1>4, <1>5

\* The outcome that every isolate is given
LEMMA OutcomeStep ==
    ASSUME RegistrationInv, NEW i \in Isolates, Outcome(i)
    PROVE  RegistrationInv'
<1> USE NoneAssumption
    DEF RegistrationInv, TypeOK, RoutineMatchesPc, OnceMatches, IsolatesTold,
        PutBack, Routine, BeforeChange, AfterChange, Errors, Goto, Stop
<1>1. TypeOK'
  BY DEF Outcome
<1>2. RoutineMatchesPc'
  BY DEF Outcome, Merged
<1>3. OnceMatches'
  BY DEF Outcome
<1>4. IsolatesTold'
  BY DEF Outcome
<1>5. Preserves(default, policy)'
  BY DEF Outcome
<1>6. QED
  BY <1>1, <1>2, <1>3, <1>4, <1>5

\* The version check, the getter and the marker
LEMMA ReadPropertiesStep ==
    ASSUME RegistrationInv, NEW i \in Isolates, ReadProperties(i)
    PROVE  RegistrationInv'
<1> USE NoneAssumption
    DEF RegistrationInv, TypeOK, RoutineMatchesPc, OnceMatches, IsolatesTold,
        PutBack, Routine, BeforeChange, AfterChange, Errors, Goto, Stop
<1>1. TypeOK'
  BY DEF ReadProperties
<1>2. RoutineMatchesPc'
  BY DEF ReadProperties, Merged
<1>3. OnceMatches'
  BY DEF ReadProperties
<1>4. IsolatesTold'
  BY DEF ReadProperties
<1>5. Preserves(default, policy)'
  BY DEF ReadProperties
<1>6. QED
  BY <1>1, <1>2, <1>3, <1>4, <1>5

\* OSSL_PROVIDER_add_builtin succeeds or fails.
LEMMA AddBuiltinStep ==
    ASSUME RegistrationInv, NEW i \in Isolates, AddBuiltin(i)
    PROVE  RegistrationInv'
<1> USE NoneAssumption
    DEF RegistrationInv, TypeOK, RoutineMatchesPc, OnceMatches, IsolatesTold,
        PutBack, Routine, BeforeChange, AfterChange, Errors, Goto, Stop
<1>1. TypeOK'
  BY DEF AddBuiltin
<1>2. RoutineMatchesPc'
  BY DEF AddBuiltin, Merged
<1>3. OnceMatches'
  BY DEF AddBuiltin
<1>4. IsolatesTold'
  BY DEF AddBuiltin
<1>5. Preserves(default, policy)'
  BY DEF AddBuiltin
<1>6. QED
  BY <1>1, <1>2, <1>3, <1>4, <1>5

\* The guard becomes part of the default properties, or is not taken.
LEMMA SetPropertiesStep ==
    ASSUME RegistrationInv, NEW i \in Isolates, SetProperties(i)
    PROVE  RegistrationInv'
<1> USE NoneAssumption
    DEF RegistrationInv, TypeOK, RoutineMatchesPc, OnceMatches, IsolatesTold,
        PutBack, Routine, BeforeChange, AfterChange, Errors, Goto, Stop
<1>1. TypeOK'
  BY MergedPreserves DEF SetProperties
<1>2. RoutineMatchesPc'
  BY DEF SetProperties, Merged
<1>3. OnceMatches'
  BY DEF SetProperties
<1>4. IsolatesTold'
  BY DEF SetProperties
<1>5. Preserves(default, policy)'
  BY MergedPreserves DEF SetProperties
<1>6. QED
  BY <1>1, <1>2, <1>3, <1>4, <1>5

\* OSSL_PROVIDER_try_load succeeds or fails.
LEMMA TryLoadStep ==
    ASSUME RegistrationInv, NEW i \in Isolates, TryLoad(i)
    PROVE  RegistrationInv'
<1> USE NoneAssumption
    DEF RegistrationInv, TypeOK, RoutineMatchesPc, OnceMatches, IsolatesTold,
        PutBack, Routine, BeforeChange, AfterChange, Errors, Goto, Stop
<1>1. TypeOK'
  <2>1. retained' \in Nat
    BY DEF TryLoad
  <2>2. QED
    BY <2>1 DEF TryLoad
<1>2. RoutineMatchesPc'
  BY DEF TryLoad, Merged
<1>3. OnceMatches'
  <2>1. MarkerState(default) = "guard"
    BY MergedHasGuard DEF TryLoad, Merged
  <2>2. CASE succeeded' = succeeded
    BY <2>2 DEF TryLoad
  <2>3. CASE succeeded' = TRUE
    <3>1. ~ succeeded /\ retained = 0 /\ once = "running" /\ error = None
      BY DEF TryLoad
    <3>2. /\ active' = TRUE /\ retained' = retained + 1
          /\ UNCHANGED <<default, once, error, policy>>
      BY <2>3, <3>1, Zenon DEF TryLoad
    <3>3. MarkerState(default)' = "guard"
      BY <2>1, <3>2
    <3>4. QED
      BY <2>3, <3>1, <3>2, <3>3
  <2>4. QED
    BY <2>2, <2>3 DEF TryLoad
<1>4. IsolatesTold'
  BY DEF TryLoad
<1>5. Preserves(default, policy)'
  BY DEF TryLoad
<1>6. QED
  BY <1>1, <1>2, <1>3, <1>4, <1>5

\* The properties are set back to what they were.
LEMMA RestoreStep ==
    ASSUME RegistrationInv, NEW i \in Isolates, Restore(i)
    PROVE  RegistrationInv'
<1> USE NoneAssumption
    DEF RegistrationInv, TypeOK, RoutineMatchesPc, OnceMatches, IsolatesTold,
        PutBack, Routine, BeforeChange, AfterChange, Errors, Goto, Stop
<1>1. TypeOK'
  BY DEF Restore
<1>2. RoutineMatchesPc'
  BY DEF Restore, Merged
<1>3. OnceMatches'
  BY DEF Restore
<1>4. IsolatesTold'
  BY DEF Restore
<1>5. Preserves(default, policy)'
  BY DEF Restore, Preserves
<1>6. QED
  BY <1>1, <1>2, <1>3, <1>4, <1>5

\* The application turns FIPS on or off.
LEMMA SetFipsStep ==
    ASSUME RegistrationInv, SetFips
    PROVE  RegistrationInv'
<1> USE DEF RegistrationInv, TypeOK, RoutineMatchesPc, OnceMatches,
            IsolatesTold, PutBack, Routine, BeforeChange, AfterChange
<1>1. Fips \in Clauses
  BY DEF Clauses
<1>2. TypeOK'
  BY <1>1 DEF SetFips
<1>3. RoutineMatchesPc'
  BY DEF SetFips
<1>4. OnceMatches'
  <2>1. MarkerState(default') = MarkerState(default)
    BY FipsKeepsMarker DEF SetFips
  <2>2. QED
    BY <2>1 DEF SetFips
<1>5. IsolatesTold'
  BY DEF SetFips
<1>6. Preserves(default, policy)'
  BY <1>1, PreservesAppend DEF SetFips
<1>7. QED
  BY <1>2, <1>3, <1>4, <1>5, <1>6

\* A step that changes nothing
LEMMA RegistrationStutter ==
    ASSUME RegistrationInv, UNCHANGED vars
    PROVE  RegistrationInv'
BY DEF vars, RegistrationInv, TypeOK, RoutineMatchesPc, OnceMatches,
       IsolatesTold, PutBack, Preserves, MarkerState, Count, Merged

-----------------------------------------------------------------------------
\* Whatever the isolates do, in whatever order, the registration is as the
\* invariant has it.
THEOREM RegistrationInvariant == Spec => []RegistrationInv
<1>1. RegistrationInv /\ [Next]_vars => RegistrationInv'
  <2> SUFFICES ASSUME RegistrationInv, [Next]_vars PROVE RegistrationInv'
    OBVIOUS
  <2>1. ASSUME NEW i \in Isolates,
               \/ Register(i) \/ RunOnce(i) \/ RunOnceDone(i) \/ Outcome(i)
               \/ ReadProperties(i) \/ AddBuiltin(i) \/ SetProperties(i)
               \/ TryLoad(i) \/ Restore(i)
        PROVE  RegistrationInv'
    BY <2>1, RegisterStep, RunOnceStep, RunOnceDoneStep, OutcomeStep,
       ReadPropertiesStep, AddBuiltinStep, SetPropertiesStep, TryLoadStep,
       RestoreStep
  <2>2. QED
    BY <2>1, SetFipsStep, RegistrationStutter DEF Next
<1>2. QED
  BY InitRegistration, <1>1, PTL DEF Spec

\* Type correctness of the registration and of every isolate that asks for it.
THEOREM RegistrationTypeCorrect == Spec => []TypeOK
<1>1. RegistrationInv => TypeOK
  BY DEF RegistrationInv
<1>2. QED
  BY RegistrationInvariant, <1>1, PTL

\* awskms_register loads the provider only behind the guard, and nothing the
\* application does to its query later takes the guard away.
THEOREM AlwaysGuarded == Spec => []GuardBeforeProvider
<1>1. RegistrationInv => GuardBeforeProvider
  BY DEF RegistrationInv, OnceMatches, GuardBeforeProvider
<1>2. QED
  BY RegistrationInvariant, <1>1, PTL

\* The application's clauses survive awskms_register, in their order, whether it
\* succeeds or stops at any of its calls.
THEOREM AlwaysPolicyPreserved == Spec => []PolicyPreserved
<1>1. RegistrationInv => PolicyPreserved
  BY DEF RegistrationInv, OnceMatches, PutBack, PolicyPreserved
<1>2. QED
  BY RegistrationInvariant, <1>1, PTL

\* CRYPTO_THREAD_run_once: one isolate runs awskms_register, once, and every
\* isolate is told its outcome and no other.
THEOREM AlwaysOneOutcome == Spec => []OneOutcome
<1>1. RegistrationInv => OneOutcome
  <2> SUFFICES ASSUME RegistrationInv PROVE OneOutcome
    OBVIOUS
  <2>1. \A i, j \in Isolates :
          pc[i] \in Routine => once = "running" /\ (pc[j] \in Routine => i = j)
    BY DEF RegistrationInv, RoutineMatchesPc
  <2>2. \A i \in Isolates :
          /\ pc[i] = "registered" => succeeded /\ active
          /\ pc[i] = "thrown" => once = "done" /\ error # None /\ ~ succeeded
    BY DEF RegistrationInv, IsolatesTold, OnceMatches, PutBack
  <2>3. QED
    BY <2>1, <2>2 DEF RegistrationInv, OnceMatches, OneOutcome
<1>2. QED
  BY RegistrationInvariant, <1>1, PTL
===============================================================================
