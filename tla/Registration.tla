----------------------------- MODULE Registration -----------------------------
(***************************************************************************)
(* register() (npm/core/index.js and src/napi.c): the isolates of a        *)
(* process (the main thread and the Workers) load the module as an addon,  *)
(* and the first of them registers the provider with libcrypto, under      *)
(* CRYPTO_THREAD_run_once, while the others wait for it.                   *)
(*                                                                         *)
(* A default property query is the sequence of its clauses: a clause is    *)
(* our guard, ?keyobject.aws_kms!=yes, another use of that name, or one of *)
(* the application's.  The application changes its query before or after   *)
(* the registration, never during it: README.md:115-118 asks for that,     *)
(* because OpenSSL's default query is not thread-safe.                     *)
(***************************************************************************)
EXTENDS Naturals, Sequences, SequencesExt

CONSTANTS
    Isolates,    \* those that call register()
    Policies,    \* the default property queries a process may start with
    None         \* NULL, or undefined

Guard == "?keyobject.aws_kms!=yes"
Reserved == "keyobject.aws_kms=yes"
Fips == "fips=yes"
Clauses == {Guard, Reserved, Fips}

ASSUME PoliciesAssumption == Policies \subseteq Seq(Clauses)

\* What awskms_register may stop with
Errors == {"version", "getter", "conflict", "memory", "builtin", "set", "load",
           "unrestored"}

ASSUME NoneAssumption == None \notin Errors

VARIABLES
    pc,        \* pc[i]: what isolate i is doing
    once,      \* awskms_register_once: "fresh", "running" or "done"
    default,   \* libcrypto's default property query
    existing,  \* existing, the local of awskms_register, or None
    builtin,   \* the provider's init function is registered with libcrypto
    active,    \* the provider is active in libcrypto
    retained,  \* the handles awskms_provider has been given
    succeeded, \* awskms_registration_succeeded
    error,     \* awskms_registration_error, or None
    policy     \* what the application has asked the default query to be

vars == <<pc, once, default, existing, builtin, active, retained, succeeded,
          error, policy>>

Init ==
    /\ pc = [i \in Isolates |-> "idle"]
    /\ once = "fresh"
    /\ policy \in Policies /\ default = policy
    /\ existing = None
    /\ builtin = FALSE
    /\ active \in BOOLEAN \* activated by an OpenSSL config, or not
    /\ retained = 0
    /\ succeeded = FALSE /\ error = None

Goto(i, step) == pc' = [pc EXCEPT ![i] = step]

-----------------------------------------------------------------------------
(***************************************************************************)
(* awskms_register                                                         *)
(***************************************************************************)
Count(query, clause) == Cardinality({n \in 1..Len(query) : query[n] = clause})

\* awskms_marker_state
MarkerState(query) ==
    IF Count(query, Reserved) > 0 \/ Count(query, Guard) > 1 THEN "conflict"
    ELSE IF Count(query, Guard) = 1 THEN "guard" ELSE "absent"

\* awskms_append_default_property, unless the guard is there
Merged == IF MarkerState(existing) = "guard" THEN existing
          ELSE Append(existing, Guard)

PropertiesChanged == MarkerState(existing) # "guard"

\* awskms_register stops with an error.
Stop(i, why) ==
    /\ error' = why
    /\ Goto(i, "return")

\* The version check, the getter and the marker
ReadProperties(i) ==
    /\ pc[i] = "read"
    /\ \/ \* OpenSSL is older than 3.5, or its getter fails
          /\ \E why \in {"version", "getter"} : Stop(i, why)
          /\ UNCHANGED existing
       \/ /\ existing' = default
          /\ \/ /\ MarkerState(default) = "conflict"
                /\ Stop(i, "conflict")
             \/ /\ MarkerState(default) = "absent"
                /\ Stop(i, "memory")
             \/ /\ MarkerState(default) # "conflict"
                /\ Goto(i, "add") /\ UNCHANGED error
    /\ UNCHANGED <<once, default, builtin, active, retained, succeeded, policy>>

\* OSSL_PROVIDER_add_builtin, unless a config has activated the provider
AddBuiltin(i) ==
    /\ pc[i] = "add"
    /\ \/ /\ builtin' = (builtin \/ ~ active)
          /\ Goto(i, "set") /\ UNCHANGED error
       \/ /\ ~ active
          /\ Stop(i, "builtin") /\ UNCHANGED builtin
    /\ UNCHANGED <<once, default, existing, active, retained, succeeded, policy>>

\* (slip) the guard is left for later
SetPropertiesLater(i) ==
    /\ pc[i] = "set"
    /\ Goto(i, "load")
    /\ UNCHANGED <<once, default, existing, builtin, active, retained,
                   succeeded, error, policy>>

\* EVP_set_default_properties
SetProperties(i) ==
    /\ pc[i] = "set"
    /\ \/ default' = Merged /\ Goto(i, "load") /\ UNCHANGED error
       \/ PropertiesChanged /\ Stop(i, "set") /\ UNCHANGED default
    /\ UNCHANGED <<once, existing, builtin, active, retained, succeeded, policy>>

\* (slip) the query is left as it is when the provider cannot be loaded
TryLoadOrStop(i) ==
    /\ pc[i] = "load"
    /\ \/ /\ active' = TRUE /\ retained' = retained + 1
          /\ succeeded' = TRUE
          /\ Goto(i, "return") /\ UNCHANGED error
       \/ Stop(i, "load") /\ UNCHANGED <<active, retained, succeeded>>
    /\ UNCHANGED <<once, default, existing, builtin, policy>>

\* OSSL_PROVIDER_try_load, which may fail even if a config has activated the
\* provider
TryLoad(i) ==
    /\ pc[i] = "load"
    /\ \/ /\ active' = TRUE /\ retained' = retained + 1
          /\ succeeded' = TRUE
          /\ Goto(i, "return")
       \/ Goto(i, "restore") /\ UNCHANGED <<active, retained, succeeded>>
    /\ UNCHANGED <<once, default, existing, builtin, error, policy>>

\* EVP_set_default_properties, to what it was
Restore(i) ==
    /\ pc[i] = "restore"
    /\ \/ default' = existing /\ Stop(i, "load")
       \/ PropertiesChanged /\ Stop(i, "unrestored") /\ UNCHANGED default
    /\ UNCHANGED <<once, existing, builtin, active, retained, succeeded, policy>>

-----------------------------------------------------------------------------
(***************************************************************************)
(* register, and napi_register_module_v1                                   *)
(***************************************************************************)

\* register(), in an isolate where it has not succeeded, loads the addon, once
\* more if it has thrown before.
Register(i) ==
    /\ pc[i] \in {"idle", "thrown"}
    /\ Goto(i, "once")
    /\ UNCHANGED <<once, default, existing, builtin, active, retained,
                   succeeded, error, policy>>

\* (slip) a flag, tested and set by nobody in particular
RunUnlocked(i) ==
    /\ pc[i] = "once" /\ ~ succeeded
    /\ once' = "running"
    /\ Goto(i, "read")
    /\ UNCHANGED <<default, existing, builtin, active, retained, succeeded,
                   error, policy>>

\* CRYPTO_THREAD_run_once: one isolate runs awskms_register, ...
RunOnce(i) ==
    /\ pc[i] = "once"
    /\ once = "fresh" /\ once' = "running"
    /\ Goto(i, "read")
    /\ UNCHANGED <<default, existing, builtin, active, retained, succeeded,
                   error, policy>>

\* ... returns from it, ...
RunOnceDone(i) ==
    /\ pc[i] = "return"
    /\ once' = "done" /\ existing' = None
    /\ Goto(i, "once")
    /\ UNCHANGED <<default, builtin, active, retained, succeeded, error, policy>>

\* (slip) nobody waits
OutcomeAtOnce(i) ==
    /\ pc[i] = "once" /\ once # "fresh"
    /\ Goto(i, IF error = None THEN "registered" ELSE "thrown")
    /\ UNCHANGED <<once, default, existing, builtin, active, retained,
                   succeeded, error, policy>>

\* ... and every one that has waited for that, or comes later, gets its outcome.
Outcome(i) ==
    /\ pc[i] = "once" /\ once = "done"
    /\ Goto(i, IF succeeded THEN "registered" ELSE "thrown")
    /\ UNCHANGED <<once, default, existing, builtin, active, retained,
                   succeeded, error, policy>>

\* crypto.setFips(1), of the application
SetFips ==
    /\ once # "running"
    /\ Count(policy, Fips) = 0
    /\ policy' = Append(policy, Fips)
    /\ default' = Append(default, Fips)
    /\ UNCHANGED <<pc, once, existing, builtin, active, retained, succeeded,
                   error>>

Next ==
    \/ \E i \in Isolates :
          \/ Register(i) \/ RunOnce(i) \/ RunOnceDone(i) \/ Outcome(i)
          \/ ReadProperties(i) \/ AddBuiltin(i) \/ SetProperties(i)
          \/ TryLoad(i) \/ Restore(i)
    \/ SetFips

Spec == Init /\ [][Next]_vars

-----------------------------------------------------------------------------
(***************************************************************************)
(* Properties                                                              *)
(***************************************************************************)
Routine == {"read", "add", "set", "load", "restore", "return"}

\* The types of the variables.
TypeOK ==
    /\ pc \in [Isolates -> Routine \cup {"idle", "once", "registered", "thrown"}]
    /\ once \in {"fresh", "running", "done"}
    /\ default \in Seq(Clauses) /\ policy \in Seq(Clauses)
    /\ existing = None \/ existing \in Seq(Clauses)
    /\ builtin \in BOOLEAN /\ active \in BOOLEAN /\ succeeded \in BOOLEAN
    /\ retained \in Nat
    /\ error \in Errors \cup {None}

\* From the moment register() has the provider, ordinary algorithms are kept off
\* it: the guard is in the default query, once, and nothing contradicts it.
GuardBeforeProvider == retained > 0 => MarkerState(default) = "guard"

\* The query is the application's, but for a guard that was put in somewhere.
Preserves(query, wanted) ==
    \/ query = wanted
    \/ \E n \in 1..Len(query) :
          query[n] = Guard /\ RemoveAt(query, n) = wanted

\* "preserving the application's existing default property policy" (napi.c:207):
\* but for one guard, the default query is the application's, FIPS included, in
\* the order it gave.  A registration that failed has left no guard of its own
\* behind either, unless putting the query back has failed, and says so.
PolicyPreserved ==
    /\ Preserves(default, policy)
    /\ once = "done" /\ ~ succeeded /\ error # "unrestored" =>
          default = policy

\* The provider is retained once, however many isolates register it and however
\* often; one at most is inside awskms_register, while the once flag says so; and
\* they all get the same answer, which is true when they get it.
OneOutcome ==
    /\ \A i, j \in Isolates :
          pc[i] \in Routine => once = "running" /\ (pc[j] \in Routine => i = j)
    /\ retained = (IF succeeded THEN 1 ELSE 0)
    /\ \A i \in Isolates :
          /\ pc[i] = "registered" => succeeded /\ active
          /\ pc[i] = "thrown" => once = "done" /\ error # None /\ ~ succeeded

===============================================================================
