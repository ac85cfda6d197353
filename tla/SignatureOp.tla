----------------------------- MODULE SignatureOp -----------------------------
(***************************************************************************)
(* Signature operations of the provider (src/src/signature.c): what the    *)
(* application asks of an algorithm context, call by call, and what the    *)
(* context then asks of KMS.                                               *)
(*                                                                         *)
(* The caller is libcrypto.  It initialises a fresh context with a key,    *)
(* re-initialises a digest_sign context only for the same operation and    *)
(* without a key, and may duplicate a context at any time                  *)
(* (EVP_DigestSignFinal does, so that signing can go on).  Typed setters   *)
(* reach a context only if its table lists the parameter, while a context  *)
(* string and an instance reach every family through the init parameters.  *)
(*                                                                         *)
(* A signature takes Required bytes at most; a message is its sequence of  *)
(* chunks, one unit of length each.                                        *)
(***************************************************************************)
EXTENDS Integers, Sequences, FiniteSets

CONSTANTS
    Keys,       \* key objects
    Family,     \* Keys -> RSA, EC (of curve P-256), ED25519 or ML_DSA
    KeyFips,    \* Keys -> was the key loaded with fips_required
    Ctxs,       \* algorithm contexts
    ParamSets,  \* OSSL_PARAM arrays: functions from names to values
    Chunks,     \* pieces of messages
    MaxChunks,  \* longest message
    MaxMessage, \* KMS's limit on a RAW message (4096 bytes)
    MaxContext, \* FIPS 204's limit on a context string (255 bytes)
    Digests,    \* digests handed to EVP_PKEY_sign, as [md, data]
    MdNames,    \* digest names given to an initialisation, "" for NULL
    None        \* NULL, absent, or a value of the wrong form

Messages == UNION {[1..n -> Chunks] : n \in 0..MaxChunks}

DigestNames == {"sha256", "sha384", "sha3-256", "shake256"}

Instances == {"Ed25519", "Ed25519ctx"}

Mds == [name : DigestNames, fips : BOOLEAN]

Streams == [md : Mds, data : Messages, final : BOOLEAN]

\* AWSKMS_SIG_CTX
CtxType ==
    [op : {"sign", "verify", "dsign", "dverify"}, key : Keys \cup {None},
     fips : BOOLEAN, fipsPub : [of : Keys, fips : {TRUE}] \cup {None},
     md : Mds \cup {None}, digest : {"NONE", "OTHER", "sha256", "sha384"},
     mdctx : Streams \cup {None}, pad : {"pkcs1", "pss"}, salt : Int,
     context : Messages, instance : Instances \cup {None}]

\* digest is what was asked for last, opened what it was when the stream was
\* last initialised.
AskedType ==
    [settled : BOOLEAN, fips : BOOLEAN, digest : DigestNames \cup {None},
     opened : DigestNames \cup {None},
     pad : {"pkcs1", "pss"}, salt : Int, context : Messages,
     instance : Instances \cup {None}, data : Messages]

ASSUME FamilyAssumption ==
    Family \in [Keys -> {"RSA", "EC", "ED25519", "ML_DSA"}]
ASSUME KeyFipsAssumption == KeyFips \in [Keys -> BOOLEAN]
ASSUME CtxsAssumption == IsFiniteSet(Ctxs)
ASSUME MaxChunksAssumption == MaxChunks \in Nat

\* A parameter has its type, or is of the wrong form.
ASSUME ParamSetsAssumption ==
    \A params \in ParamSets :
        /\ "digest" \in DOMAIN params =>
              params["digest"] \in DigestNames \cup {"", None}
        /\ "salt" \in DOMAIN params => params["salt"] \in Int \cup {None}
        /\ "context" \in DOMAIN params => params["context"] \in Messages \cup {None}
        /\ "instance" \in DOMAIN params => params["instance"] \in Instances \cup {None}

ASSUME DigestsAssumption == Digests \subseteq [md : Mds \cup {None}, data : Messages]
ASSUME MdNamesAssumption == MdNames \subseteq DigestNames \cup {""}

ASSUME NoneAssumption ==
    /\ None \notin Keys /\ None \notin CtxType
    /\ None \notin Mds /\ None \notin Streams
    /\ None \notin DigestNames \cup {"", "pkcs1", "pss"}

VARIABLES
    ctx,         \* ctx[c]: the AWSKMS_SIG_CTX at c, or None
    refs,        \* AWSKMS_KEY.refcnt of each key, its EVP_PKEY holding one
    asked,       \* history: what the application asked of each context
    exchange     \* history: the last call, its result, and what KMS was sent

vars == <<ctx, refs, asked, exchange>>

Required == 2  \* required_sig_size, in units of half a signature

\* EVP_MD_get_size
DigestSize == [d \in DigestNames |->
    IF d = "sha384" THEN 48 ELSE 32]

OneShot(k) == Family[k] \in {"ED25519", "ML_DSA"}

\* awskms_digest_of: a digest KMS does not sign with is OTHER
DigestOf(md) ==
    IF md = None THEN "NONE"
    ELSE IF md.name \in {"sha256", "sha384"} THEN md.name ELSE "OTHER"

\* awskms_digest_length
DigestLength(digest) ==
    IF digest \in {"sha256", "sha384"} THEN DigestSize[digest] ELSE 0

\* awskms_signing_algorithm
SigningAlgorithm(k, digest, pss) ==
    CASE Family[k] = "RSA" ->
            IF digest \in {"NONE", "OTHER"} THEN None
            ELSE <<IF pss THEN "RSASSA_PSS" ELSE "RSASSA_PKCS1_V1_5", digest>>
      [] Family[k] = "EC" ->
            IF digest = "sha256" THEN <<"ECDSA", digest>> ELSE None
      [] Family[k] = "ED25519" ->
            IF digest = "NONE" THEN <<"ED25519", "sha512">> ELSE None
      [] Family[k] = "ML_DSA" ->
            IF digest = "NONE" THEN <<"ML_DSA", "shake256">> ELSE None

-----------------------------------------------------------------------------
(***************************************************************************)
(* Contexts and the parameters they take                                   *)
(***************************************************************************)
FreshCtx(fips) ==
    [op |-> None, key |-> None, fips |-> fips, fipsPub |-> None,
     md |-> None, digest |-> "NONE", mdctx |-> None,
     pad |-> "pkcs1", salt |-> -1, context |-> <<>>, instance |-> None]

NothingAsked ==
    [settled |-> TRUE, fips |-> FALSE, digest |-> None, opened |-> None,
     pad |-> "pkcs1", salt |-> -1,
     context |-> <<>>, instance |-> None, data |-> <<>>]

\* operation_requires_fips
RequiresFips(x) == x.fips \/ (x.key # None /\ KeyFips[x.key])

\* (slip) the shared key's view, whatever the operation asked for
OperationPubkeyOfKey(x) ==
    IF x.key = None THEN None ELSE [of |-> x.key, fips |-> KeyFips[x.key]]

\* operation_pubkey: whose public key is used, and how it was parsed
OperationPubkey(x) ==
    IF x.key = None THEN None
    ELSE IF x.fips /\ ~ KeyFips[x.key] THEN x.fipsPub
    ELSE [of |-> x.key, fips |-> KeyFips[x.key]]

Accepted(x) == [x |-> x, ok |-> TRUE, raised |-> 0]
Refused(x)  == [x |-> x, ok |-> FALSE, raised |-> 1]
Silent(x)   == [x |-> x, ok |-> FALSE, raised |-> 0]

\* (slip) the digest code left as it was
SetDigestKeepsCode(x, name) ==
    IF name = "shake256" THEN Refused(x)
    ELSE Accepted([x EXCEPT !.md = IF name = "" THEN None
                                   ELSE [name |-> name, fips |-> RequiresFips(x)]])

\* set_digest
SetDigest(x, name) ==
    IF name = "" THEN Accepted([x EXCEPT !.md = None, !.digest = "NONE"])
    ELSE IF name = "shake256" THEN Refused(x)
    ELSE LET md == [name |-> name, fips |-> RequiresFips(x)]
         IN  Accepted([x EXCEPT !.md = md, !.digest = DigestOf(md)])

\* A value of another type, or one that get_utf8_param or parse_decimal_int does
\* not take
Malformed(value) == value = None

\* The parameters of awskms_sig_set_ctx_params, one by one
SetDigestParam(x, value) == IF Malformed(value) THEN Silent(x) ELSE SetDigest(x, value)

SetPad(x, value) ==
    IF Malformed(value) THEN Silent(x)
    ELSE IF value \in {"pkcs1", "pss"} THEN Accepted([x EXCEPT !.pad = value])
    ELSE Refused(x)

SetSalt(x, value) ==
    IF Malformed(value) THEN Silent(x) ELSE Accepted([x EXCEPT !.salt = value])

SetContext(x, value) ==
    IF Malformed(value) THEN Silent(x)
    ELSE IF Len(value) > MaxContext THEN Refused(x)
    ELSE Accepted([x EXCEPT !.context = value])

SetInstance(x, value) ==
    IF Malformed(value) THEN Refused(x) ELSE Accepted([x EXCEPT !.instance = value])

SetMgf1(x, value) ==
    IF Malformed(value) THEN Silent(x)
    ELSE IF x.md # None /\ x.md.name = value THEN Accepted(x) ELSE Refused(x)

SetParam(x, name, value) ==
    CASE name = "digest"   -> SetDigestParam(x, value)
      [] name = "pad"      -> SetPad(x, value)
      [] name = "salt"     -> SetSalt(x, value)
      [] name = "context"  -> SetContext(x, value)
      [] name = "instance" -> SetInstance(x, value)
      [] name = "mgf1"     -> SetMgf1(x, value)

\* The parameter that awskms_sig_set_ctx_params looks for after what gave r
Then(r, params, name) ==
    IF r.ok /\ name \in DOMAIN params THEN SetParam(r.x, name, params[name]) ELSE r

\* awskms_sig_set_ctx_params: the parameters in the code's own order.  What
\* was set before the one that is refused stays set.
SetCtxParams(x, params) ==
    LET digest   == Then(Accepted(x), params, "digest")
        pad      == Then(digest, params, "pad")
        salt     == Then(pad, params, "salt")
        context  == Then(salt, params, "context")
        instance == Then(context, params, "instance")
    IN  Then(instance, params, "mgf1")

\* (slip) RSA_PSS_SALTLEN_MAX taken for no requirement
SaltSatisfiableMax(x) == x.salt < 0 \/ x.salt = DigestLength(x.digest)

\* saltlen_is_satisfiable
SaltSatisfiable(x) == x.salt \in {-1, -2, DigestLength(x.digest)}

\* unsupported_params_refused (TRUE when nothing is)
ParamsSupported(x) ==
    /\ x.instance # None =>
          Family[x.key] = "ED25519" /\ x.instance = "Ed25519"
    /\ x.context # <<>> => Family[x.key] = "ML_DSA"

-----------------------------------------------------------------------------
(***************************************************************************)
(* What a call does to its context: results of the form [x, ok, raised],   *)
(* x being the context afterwards.                                         *)
(***************************************************************************)

\* bind_key.  A context that needs FIPS parses a view of its own of a key
\* that was loaded without; that may fail.
BindKey(x, k) ==
    IF k = None THEN {IF x.key = None THEN Silent(x) ELSE Accepted(x)}
    ELSE IF x.fips /\ ~ KeyFips[k]
    THEN {Accepted([x EXCEPT !.key = k, !.fipsPub = [of |-> k, fips |-> TRUE]]),
          Refused(x)}
    ELSE {Accepted([x EXCEPT !.key = k, !.fipsPub = None])}

\* awskms_sig_sign_init, awskms_sig_verify_init
PrehashInit(x, k, params) ==
    {IF b.ok THEN SetCtxParams(b.x, params) ELSE b : b \in BindKey(x, k)}

\* (slip) the digest context initialised again without naming its MD, so that
\* it keeps the one it had
StreamDigestReused(x, mdname) ==
    LET named == IF mdname = "" THEN Accepted(x) ELSE SetDigest(x, mdname)
    IN  IF ~ named.ok THEN named
        ELSE IF named.x.md = None THEN Refused(named.x)
        ELSE Accepted([named.x EXCEPT !.mdctx =
                [md |-> IF x.mdctx = None THEN named.x.md ELSE x.mdctx.md,
                 data |-> <<>>, final |-> FALSE]])

\* awskms_sig_digest_sign_init, from the digest on
StreamDigest(x, mdname) ==
    LET named == IF mdname = "" THEN Accepted(x) ELSE SetDigest(x, mdname)
    IN  IF ~ named.ok THEN named
        ELSE IF named.x.md = None THEN Refused(named.x)
        ELSE Accepted([named.x EXCEPT !.mdctx =
                          [md |-> named.x.md, data |-> <<>>, final |-> FALSE]])

StreamInit(x, k, mdname, params) ==
    {IF p.ok THEN StreamDigest(p.x, mdname) ELSE p :
        p \in PrehashInit(x, k, params)}

\* awskms_sig_oneshot_init, from the digest on
OneShotDigest(x, mdname) ==
    LET y == [x EXCEPT !.digest = "NONE"]
    IN  IF mdname # "" THEN Refused(x)
        ELSE IF ParamsSupported(y) THEN Accepted(y) ELSE Refused(y)

OneShotInit(x, k, mdname, params) ==
    {IF p.ok THEN OneShotDigest(p.x, mdname) ELSE p :
        p \in PrehashInit(x, k, params)}

-----------------------------------------------------------------------------
(***************************************************************************)
(* Signing.  What is handed to kms:Sign is a digest of known origin, the   *)
(* message, or mu; tbs is [md, data], md being None for a raw message.     *)
(***************************************************************************)
LengthOf(tbs) == IF tbs.md = None THEN Len(tbs.data) ELSE DigestSize[tbs.md.name]

\* required_sig_size is not zero
SizeKnown(x) == OneShot(x.key) \/ OperationPubkey(x) # None

Pss(x) == Family[x.key] = "RSA" /\ x.pad = "pss"

AlgorithmOf(x) == SigningAlgorithm(x.key, x.digest, Pss(x))

\* (slip) a buffer of any size
BufferNotEmpty(size) == size > 0

\* (slip) the length of the digest is not checked
DigestSignableAnyLength(x, tbs) ==
    /\ x.digest # "NONE" /\ ParamsSupported(x) /\ AlgorithmOf(x) # None
    /\ Pss(x) => SaltSatisfiable(x)

\* The checks of sign_digest and output_buffer_fits, each of which raises one
\* error and returns.
BufferFits(size) == size >= Required

DigestSignable(x, tbs) ==
    /\ x.digest # "NONE"
    /\ ParamsSupported(x)
    /\ AlgorithmOf(x) # None
    /\ LengthOf(tbs) = DigestLength(x.digest)
    /\ Pss(x) => SaltSatisfiable(x)

\* The checks of awskms_sig_oneshot_sign
RawSizeOk(msg) == Len(msg) \in 1..MaxMessage

OneShotSignable(x, msg) ==
    /\ ParamsSupported(x)
    /\ Family[x.key] = "ED25519" => RawSizeOk(msg)
    /\ Family[x.key] = "ML_DSA" => OperationPubkey(x) # None

\* awskms_kms_sign: refused by the routing, failed at KMS, or answered with a
\* signature, which is returned when it fits.
KmsSign(x, algorithm, type, payload, size) ==
    LET request == [fips |-> RequiresFips(x), algorithm |-> algorithm,
                    type |-> type, payload |-> payload, size |-> size]
        Result(ok, sent, answered) ==
            [ok |-> ok, raised |-> IF ok THEN 0 ELSE 1,
             request |-> IF sent THEN request ELSE None, answered |-> answered]
    IN  {Result(FALSE, FALSE, FALSE), Result(FALSE, TRUE, FALSE)} \cup
        {Result(len <= size, TRUE, TRUE) : len \in 1..Required}

NotSent(errors) ==
    {[ok |-> FALSE, raised |-> errors, request |-> None, answered |-> FALSE]}

\* sign_digest
SignDigest(x, tbs, size) ==
    IF ~ SizeKnown(x) THEN NotSent(0)
    ELSE IF ~ (BufferFits(size) /\ DigestSignable(x, tbs)) THEN NotSent(1)
    ELSE KmsSign(x, AlgorithmOf(x), "DIGEST", tbs, size)

\* compute_mu: under the operation's own view of the public key, over the
\* context string and the message
Mu(x, msg) ==
    [tr |-> OperationPubkey(x), context |-> x.context, data |-> msg]

\* awskms_sig_oneshot_sign
SignMessage(x, msg, size) ==
    LET algorithm == SigningAlgorithm(x.key, "NONE", FALSE)
    IN
    IF ~ (BufferFits(size) /\ OneShotSignable(x, msg)) THEN NotSent(1)
    ELSE IF Family[x.key] = "ED25519"
    THEN KmsSign(x, algorithm, "RAW", [md |-> None, data |-> msg], size)
    ELSE KmsSign(x, algorithm, "EXTERNAL_MU", Mu(x, msg), size)

-----------------------------------------------------------------------------
(***************************************************************************)
(* Actions                                                                 *)
(***************************************************************************)
Stream(c)  == ctx[c] # None /\ ctx[c].op \in {"dsign", "dverify"}

\* What was asked is of no further account once a call has failed.
Settled(a, ok) ==
    IF a.settled /\ ok THEN a
    ELSE [NothingAsked EXCEPT !.settled = FALSE, !.fips = a.fips]

Given(params, name, current) ==
    IF name \in DOMAIN params THEN params[name] ELSE current

\* What the application asks for with an accepted parameter array, and with
\* the digest name of an initialisation
WithParams(a, params, mdname) ==
    LET named == Given(params, "digest", a.digest)
    IN  [a EXCEPT
            !.digest = IF mdname # "" THEN mdname
                       ELSE IF named = "" THEN None ELSE named,
            !.pad = Given(params, "pad", @), !.salt = Given(params, "salt", @),
            !.context = Given(params, "context", @),
            !.instance = Given(params, "instance", @)]

\* What was asked of an initialisation: the stream it opens, if any, hashes
\* with the digest asked for by then.
Opened(a) == [a EXCEPT !.opened = a.digest]

\* The application's data for c
Gives(c, data) ==
    asked' = [asked EXCEPT ![c].data = IF asked[c].settled THEN data ELSE @]

NoExchange ==
    [call |-> None, ctx |-> None, ok |-> TRUE, raised |-> 0, size |-> 0,
     request |-> None, answered |-> FALSE, check |-> None]

Returned(call, c, ok, raised) ==
    [NoExchange EXCEPT !.call = call, !.ctx = c, !.ok = ok, !.raised = raised]

Init ==
    /\ ctx = [c \in Ctxs |-> None]
    /\ refs = [k \in Keys |-> 1]
    /\ asked = [c \in Ctxs |-> NothingAsked]
    /\ exchange = NoExchange

\* (slip) the reference taken is never given back
ReboundWithoutFree(from, to) ==
    refs' = [k \in Keys |-> refs[k] + (IF k = to THEN 1 ELSE 0)]

\* The keys' references, a context having gone from one key to another
Rebound(from, to) ==
    refs' = [k \in Keys |-> refs[k] + (IF k = to THEN 1 ELSE 0)
                                    - (IF k = from THEN 1 ELSE 0)]

\* The initialisation that the dispatch table of the key's family names: those
\* of Ed25519 and ML-DSA have no sign_init and no update
InitResults(x, k, op, mdname, params) ==
    IF op \in {"sign", "verify"} THEN PrehashInit(x, k, params)
    ELSE IF OneShot(IF k = None THEN x.key ELSE k)
    THEN OneShotInit(x, k, mdname, params)
    ELSE StreamInit(x, k, mdname, params)

\* awskms_sig_newctx and the initialisation that follows it; fips is what
\* awskms_fips_requested says of the call.  libcrypto frees the context of a
\* failed initialisation, unless it named a digest.
Begin(c, k, op, fips, mdname, params) ==
    /\ ctx[c] = None
    /\ op \in {"sign", "verify"} => mdname = "" /\ ~ OneShot(k)
    /\ \E r \in InitResults([FreshCtx(fips) EXCEPT !.op = op],
                             k, op, mdname, params) :
          LET kept == r.ok \/ (op \in {"dsign", "dverify"} /\ mdname # "")
              x    == IF kept THEN r.x ELSE None
          IN  /\ ctx' = [ctx EXCEPT ![c] = x]
              /\ Rebound(None, IF kept THEN x.key ELSE None)
              /\ asked' = [asked EXCEPT ![c] =
                    IF ~ kept THEN NothingAsked
                    ELSE Settled(Opened(WithParams(
                           [NothingAsked EXCEPT !.fips = fips],
                           params, mdname)), r.ok)]
              /\ exchange' = Returned("init", c, r.ok, r.raised)

\* A digest_sign context initialised again, for the same key and operation
Again(c, mdname, params) ==
    /\ Stream(c) /\ ctx[c].key # None
    /\ \E r \in InitResults(ctx[c], None, ctx[c].op, mdname, params) :
          /\ ctx' = [ctx EXCEPT ![c] = r.x]
          /\ asked' = [asked EXCEPT ![c] = Settled(
                Opened(WithParams([@ EXCEPT !.data = <<>>],
                                  params, mdname)), r.ok)]
          /\ exchange' = Returned("init", c, r.ok, r.raised)
    /\ UNCHANGED refs

SettableOneShot == {"context", "instance"}

\* What a typed setter may set
Settable(k) ==
    CASE Family[k] = "RSA" -> {"digest", "pad", "salt", "mgf1"}
      [] Family[k] = "EC"  -> {"digest"}
      [] OTHER             -> SettableOneShot

\* awskms_sig_set_ctx_params, through a typed setter

SetParams(c, params) ==
    /\ ctx[c] # None /\ ctx[c].key # None
    /\ DOMAIN params \subseteq Settable(ctx[c].key)
    /\ LET r == SetCtxParams(ctx[c], params)
       IN  /\ ctx' = [ctx EXCEPT ![c] = r.x]
           /\ asked' = [asked EXCEPT ![c] =
                 Settled(WithParams(@, params, ""), r.ok)]
           /\ exchange' = Returned("set", c, r.ok, r.raised)
    /\ UNCHANGED refs

\* awskms_sig_digest_sign_update, awskms_sig_digest_verify_update
Update(c, chunk) ==
    /\ Stream(c) /\ ctx[c].mdctx # None /\ ~ ctx[c].mdctx.final
    /\ Len(ctx[c].mdctx.data) < MaxChunks
    /\ ctx' = [ctx EXCEPT ![c].mdctx.data = Append(@, chunk)]
    /\ Gives(c, Append(asked[c].data, chunk))
    /\ exchange' = NoExchange
    /\ UNCHANGED refs

\* The outcome s of a signing call is what the caller and KMS see of it.
Signed(call, c, size, s) ==
    exchange' = [Returned(call, c, s.ok, s.raised) EXCEPT
        !.size = size, !.request = s.request, !.answered = s.answered]

\* awskms_sig_sign; tbs is a digest the application computed
Sign(c, tbs, size) ==
    /\ ctx[c] # None /\ ctx[c].op = "sign"
    /\ \E s \in SignDigest(ctx[c], tbs, size) : Signed("sign", c, size, s)
    /\ Gives(c, tbs.data)
    /\ UNCHANGED <<ctx, refs>>

\* (slip) the digest is finalised before the buffer is measured
FinalHashesFirst(c, size) ==
    /\ Stream(c) /\ ctx[c].op = "dsign"
    /\ ctx[c].mdctx # None /\ ~ ctx[c].mdctx.final
    /\ ctx' = [ctx EXCEPT ![c].mdctx.final = TRUE]
    /\ \E s \in SignDigest(ctx[c], [md |-> ctx[c].mdctx.md,
                                  data |-> ctx[c].mdctx.data], size) :
          Signed("final", c, size, s)
    /\ UNCHANGED <<refs, asked>>

\* awskms_sig_digest_sign_final.  The probe, and a buffer that is too small,
\* leave the digest open.
Final(c, size) ==
    /\ Stream(c) /\ ctx[c].op = "dsign" /\ ctx[c].mdctx # None
    /\ LET x == ctx[c]
           opened == SizeKnown(x) /\ BufferFits(size)
       IN  IF ~ opened
           THEN /\ \E s \in NotSent(IF SizeKnown(x) THEN 1 ELSE 0) :
                      Signed("final", c, size, s)
                /\ UNCHANGED ctx
           ELSE IF x.mdctx.final
           THEN /\ \E s \in NotSent(0) : Signed("final", c, size, s)
                /\ UNCHANGED ctx
           ELSE /\ ctx' = [ctx EXCEPT ![c].mdctx.final = TRUE]
                /\ \E s \in SignDigest(x, [md |-> x.mdctx.md,
                                          data |-> x.mdctx.data], size) :
                      Signed("final", c, size, s)
    /\ UNCHANGED <<refs, asked>>

\* awskms_sig_oneshot_sign
OneShotSign(c, msg, size) ==
    /\ Stream(c) /\ ctx[c].op = "dsign"
    /\ ctx[c].key # None /\ OneShot(ctx[c].key)
    /\ \E s \in SignMessage(ctx[c], msg, size) : Signed("oneshot", c, size, s)
    /\ Gives(c, msg)
    /\ UNCHANGED <<ctx, refs>>

\* Any of the three asked for the size of a signature
Probe(c) ==
    /\ ctx[c] # None /\ ctx[c].op \in {"sign", "dsign"} /\ ctx[c].key # None
    /\ ctx[c].op = "dsign" => OneShot(ctx[c].key) \/ ctx[c].mdctx # None
    /\ exchange' = Returned("probe", c, SizeKnown(ctx[c]), 0)
    /\ UNCHANGED <<ctx, refs, asked>>

\* (slip) the context string is not handed to the verifier
CheckWithoutContext(x, tbs) ==
    [pub |-> OperationPubkey(x), fips |-> RequiresFips(x), md |-> x.md,
     pad |-> x.pad, context |-> <<>>, tbs |-> tbs]

\* What is handed to the local verifier
Check(x, tbs) ==
    [pub |-> OperationPubkey(x), fips |-> RequiresFips(x), md |-> x.md,
     pad |-> x.pad, context |-> x.context, tbs |-> tbs]

\* awskms_sig_verify, awskms_sig_oneshot_verify: local, against the
\* operation's own view of the public key.  No signature of a digest of the
\* wrong length, or none at all without a public key, is ever valid.
Verified(call, c, tbs) ==
    LET x == ctx[c]
        known == OperationPubkey(x) # None
        possible == known /\
            (OneShot(x.key) \/ x.md = None \/ LengthOf(tbs) = DigestSize[x.md.name])
    IN  \E valid \in {FALSE, possible} :
            exchange' = [Returned(call, c, valid, 0) EXCEPT
                !.check = IF known THEN Check(x, tbs) ELSE None]

Verify(c, tbs) ==
    /\ ctx[c] # None /\ ctx[c].op = "verify"
    /\ Verified("verify", c, tbs)
    /\ Gives(c, tbs.data)
    /\ UNCHANGED <<ctx, refs>>

\* awskms_sig_digest_verify_final
VerifyFinal(c) ==
    /\ Stream(c) /\ ctx[c].op = "dverify"
    /\ ctx[c].mdctx # None /\ ~ ctx[c].mdctx.final
    /\ ctx' = [ctx EXCEPT ![c].mdctx.final = TRUE]
    /\ Verified("verify", c, [md |-> ctx[c].mdctx.md, data |-> ctx[c].mdctx.data])
    /\ UNCHANGED <<refs, asked>>

OneShotVerify(c, msg) ==
    /\ Stream(c) /\ ctx[c].op = "dverify"
    /\ ctx[c].key # None /\ OneShot(ctx[c].key)
    /\ Verified("verify", c, [md |-> None, data |-> msg])
    /\ Gives(c, msg)
    /\ UNCHANGED <<ctx, refs>>

\* awskms_sig_dupctx, which may run out of memory half way
Copy(x) == x

DupCtx(c, d) ==
    /\ ctx[c] # None /\ ctx[d] = None
    /\ \/ /\ ctx' = [ctx EXCEPT ![d] = Copy(ctx[c])]
          /\ Rebound(None, ctx'[d].key)
          /\ asked' = [asked EXCEPT ![d] = asked[c]]
       \/ UNCHANGED <<ctx, refs, asked>>
    /\ exchange' = NoExchange

\* awskms_sig_freectx
FreeCtx(c) ==
    /\ ctx[c] # None
    /\ ctx' = [ctx EXCEPT ![c] = None]
    /\ Rebound(ctx[c].key, None)
    /\ asked' = [asked EXCEPT ![c] = NothingAsked]
    /\ exchange' = NoExchange

Sizes == 0..Required

Next ==
    \/ \E c \in Ctxs, k \in Keys, op \in {"sign", "verify", "dsign", "dverify"},
          fips \in BOOLEAN, mdname \in MdNames, params \in ParamSets :
            Begin(c, k, op, fips, mdname, params)
    \/ \E c \in Ctxs, mdname \in MdNames, params \in ParamSets :
            Again(c, mdname, params)
    \/ \E c \in Ctxs, params \in ParamSets : SetParams(c, params)
    \/ \E c \in Ctxs, chunk \in Chunks : Update(c, chunk)
    \/ \E c \in Ctxs, size \in Sizes, tbs \in Digests : Sign(c, tbs, size)
    \/ \E c \in Ctxs, size \in Sizes : Final(c, size)
    \/ \E c \in Ctxs, size \in Sizes, msg \in Messages : OneShotSign(c, msg, size)
    \/ \E c \in Ctxs : Probe(c)
    \/ \E c \in Ctxs, tbs \in Digests : Verify(c, tbs)
    \/ \E c \in Ctxs : VerifyFinal(c)
    \/ \E c \in Ctxs, msg \in Messages : OneShotVerify(c, msg)
    \/ \E c, d \in Ctxs : DupCtx(c, d)
    \/ \E c \in Ctxs : FreeCtx(c)

Spec == Init /\ [][Next]_vars

-----------------------------------------------------------------------------
(***************************************************************************)
(* Properties                                                              *)
(***************************************************************************)
\* The types of contexts, references and what was asked.
TypeOK ==
    /\ ctx \in [Ctxs -> CtxType \cup {None}]
    /\ refs \in [Keys -> Nat]
    /\ asked \in [Ctxs -> AskedType]

\* A key has one reference for its EVP_PKEY and one for every context bound to
\* it: whatever fails, bind_key, dupctx and freectx neither leak the key nor
\* free it under another context.
RefsExact ==
    \A k \in Keys : refs[k] = 1 + Cardinality(
        {c \in Ctxs : ctx[c] # None /\ ctx[c].key = k})

\* A request to KMS carries what the application asked this context for: its
\* data, its padding, a salt length KMS can honour, its context string or none,
\* and an instance that KMS has, each as last asked.  Of a stream, the hash was
\* made with the digest asked for when the stream was last initialised
\* (awskms_sig_digest_sign_init hands ctx->md to EVP_DigestInit_ex), and the
\* algorithm names the digest asked for last: set_digest leaves an open stream
\* alone, so the two are one digest unless the application set another between
\* the initialisation and the end (HashedAsDeclared says that they never
\* differ, and is not so).  An application that was refused something and went
\* on regardless is outside this statement.  And the digest code of a context
\* that streams always describes its fetched MD (set_digest sets the two
\* together), since the code is what the request names.
SignedAsAsked ==
    LET q == exchange.request
        c == exchange.ctx
        a == asked[c]
        family == Family[ctx[c].key]
    IN  /\ \A x \in Ctxs : ctx[x] # None /\ ctx[x].mdctx # None =>
              ctx[x].digest = DigestOf(ctx[x].md)
        /\ q # None /\ a.settled =>
              /\ q.payload.data = a.data
              /\ q.type = "DIGEST" =>
                    q.algorithm[2] = a.digest /\ family \in {"RSA", "EC"}
              /\ exchange.call = "final" => q.payload.md.name = a.opened
              /\ family = "RSA" => (q.algorithm[1] = "RSASSA_PSS") = (a.pad = "pss")
              /\ family = "RSA" /\ a.pad = "pss" =>
                    a.salt \in {-1, -2, DigestSize[a.digest]}
              /\ IF family = "ML_DSA" THEN q.payload.context = a.context
                 ELSE a.context = <<>>
              /\ a.instance # None =>
                    a.instance = "Ed25519" /\ family = "ED25519"

\* KMS is never sent what it must refuse: a digest whose length is not that of
\* the signing algorithm's, or a raw message out of its limits.
AcceptedByKms ==
    LET q == exchange.request
    IN  q # None =>
        /\ q.type = "DIGEST" => LengthOf(q.payload) = DigestSize[q.algorithm[2]]
        /\ q.type = "RAW" => Len(q.payload.data) \in 1..MaxMessage

\* Once the operation or the key was asked for with FIPS, everything on the
\* way to a signature or a verification is FIPS: the endpoint of the request,
\* the digest the provider computes, the view of the public key that gives tr
\* and verifies.
FipsThroughout ==
    LET q == exchange.request
        c == exchange.ctx
        v == exchange.check
    IN  exchange.call # None /\ ctx[c] # None /\ ctx[c].key # None
        /\ (asked[c].fips \/ KeyFips[ctx[c].key]) =>
        /\ q # None =>
              /\ q.fips
              /\ exchange.call = "final" => q.payload.md.fips
              /\ q.type = "EXTERNAL_MU" => q.payload.tr.fips
        /\ v # None =>
              v.fips /\ v.pub.fips /\ (v.md # None => v.md.fips)

\* A signature KMS has charged for reaches the caller: it fits in the buffer,
\* which was measured before the request.
BilledSignatureDelivered == exchange.answered => exchange.ok

\* Verification uses the key of the context, with the digest, padding and (for
\* ML-DSA) context string the application asked for last, and the data it gave:
\* of a stream, hashed with the digest asked for at its initialisation.  KMS's
\* salt length is always used, whichever was asked for.
VerifiedAsAsked ==
    LET v == exchange.check
        c == exchange.ctx
        a == asked[c]
    IN  v # None /\ a.settled =>
        /\ v.pub.of = ctx[c].key
        /\ v.tbs.data = a.data
        /\ ~ OneShot(ctx[c].key) =>
              /\ IF a.digest = None THEN v.md = None ELSE v.md.name = a.digest
              /\ ctx[c].op = "dverify" => v.tbs.md.name = a.opened
        /\ v.pad = a.pad
        /\ Family[ctx[c].key] = "ML_DSA" => v.context = a.context

\* Only a call that goes on to sign or to verify finishes the digest of a
\* stream: a size probe, or a buffer that is too small, leaves the caller able
\* to sign what it has given so far.
OnlySigningConsumes ==
    [][\A c \in Ctxs :
        /\ ctx[c] # None /\ ctx[c].mdctx # None /\ ~ ctx[c].mdctx.final
        /\ ctx'[c] # None /\ ctx'[c].mdctx # None /\ ctx'[c].mdctx.final
        => /\ exchange'.ctx = c
           /\ exchange'.call = "verify" \/
              (exchange'.call = "final" /\ exchange'.size >= Required)]_vars

\* err.h: "something must always be raised".  Every call that fails raises an
\* error of the provider's.  (Verification answers, it does not fail.)
EveryRefusalRaised ==
    exchange.call \notin {None, "verify"} /\ ~ exchange.ok => exchange.raised >= 1

\* signature.c: one digest is selected by the caller, and fetched for
\* streaming.  What is signed as a digest was computed with the digest that
\* the signing algorithm names.
HashedAsDeclared ==
    LET q == exchange.request
    IN  q # None /\ exchange.call = "final" /\ asked[exchange.ctx].settled =>
          q.payload.md.name = q.algorithm[2]

=============================================================================
