-------------------------- MODULE SignatureOpProofs --------------------------
(***************************************************************************)
(* Proofs about SignatureOp for any keys, contexts, parameters and         *)
(* messages: references are exact, and whatever the order of the calls,    *)
(* what is sent to KMS and what is verified is what was asked for last,    *)
(* the hash of a stream being made with the digest asked for at its        *)
(* initialisation.                                                         *)
(***************************************************************************)
EXTENDS SignatureOp, FiniteSetTheorems, SequenceTheorems, TLAPS

\* What is fetched and parsed for a context is what its operation requires.
\* The digest code is that of the digest, but for an operation that takes none.
Consistent(x) ==
    /\ x.md # None => x.key # None /\ x.md.fips = RequiresFips(x)
    /\ x.digest = DigestOf(x.md) \/ (x.key # None /\ OneShot(x.key))
    /\ x.key # None /\ x.fips /\ ~ KeyFips[x.key] =>
          x.fipsPub = [of |-> x.key, fips |-> TRUE]
    /\ x.mdctx # None =>
          /\ x.key # None /\ ~ OneShot(x.key) /\ x.op \in {"dsign", "dverify"}
          /\ x.mdctx.md.fips = RequiresFips(x)
    /\ x.key # None /\ x.op \in {"sign", "verify"} => ~ OneShot(x.key)

\* The digest of a context by its name
Named(md, digest) == IF digest = None THEN md = None ELSE md # None /\ md.name = digest

\* A context is as the application has last asked for, and its stream holds the
\* application's data and hashes with the digest asked for at initialisation.
AsAsked(x, a) ==
    /\ a.fips = x.fips
    /\ a.settled =>
          /\ Named(x.md, a.digest)
          /\ x.pad = a.pad /\ x.salt = a.salt
          /\ x.context = a.context /\ x.instance = a.instance
          /\ x.mdctx # None =>
                x.mdctx.data = a.data /\ x.mdctx.md.name = a.opened

ContextsSound ==
    \A c \in Ctxs : ctx[c] # None =>
        /\ Consistent(ctx[c]) /\ AsAsked(ctx[c], asked[c])
        /\ ctx[c].key = None => ctx[c].op \in {"dsign", "dverify"}

SignatureInv == TypeOK /\ ContextsSound /\ RefsExact

-----------------------------------------------------------------------------
(***************************************************************************)
(* Parameters                                                              *)
(***************************************************************************)
\* The messages are sequences, and a chunk more is a message while it fits.
LEMMA MessagesAreSequences ==
    /\ <<>> \in Messages
    /\ \A m \in Messages : /\ m \in Seq(Chunks) /\ Len(m) \in 0..MaxChunks
                           /\ \A chunk \in Chunks :
                                 Len(m) < MaxChunks => Append(m, chunk) \in Messages
<1>1. \A n \in 0..MaxChunks : \A m \in [1..n -> Chunks] : m \in Messages
  BY DEF Messages
<1>2. <<>> \in Messages
  <2>1. <<>> \in [1..0 -> Chunks]
    OBVIOUS
  <2>2. 0 \in 0..MaxChunks
    BY MaxChunksAssumption
  <2>3. QED
    BY <1>1, <2>1, <2>2
<1>3. ASSUME NEW m \in Messages
      PROVE  /\ m \in Seq(Chunks) /\ Len(m) \in 0..MaxChunks
             /\ \A chunk \in Chunks :
                   Len(m) < MaxChunks => Append(m, chunk) \in Messages
  <2>1. PICK n \in 0..MaxChunks : m \in [1..n -> Chunks]
    BY DEF Messages
  <2>2. m \in Seq(Chunks) /\ Len(m) = n
    BY <2>1
  <2>3. ASSUME NEW chunk \in Chunks, Len(m) < MaxChunks
        PROVE  Append(m, chunk) \in Messages
    <3>1. Append(m, chunk) \in Seq(Chunks) /\ Len(Append(m, chunk)) = n + 1
      BY <2>1, <2>2
    <3>2. Append(m, chunk) \in [1..(n + 1) -> Chunks]
      BY <3>1, LenProperties
    <3>3. n + 1 \in 0..MaxChunks
      BY <2>2, <2>3, MaxChunksAssumption
    <3>4. QED
      BY <1>1, <3>2, <3>3
  <2>4. QED
    BY <2>1, <2>2, <2>3
<1>4. QED
  BY <1>2, <1>3

\* What parameters and streams never touch
Bound(x, y) ==
    /\ y.op = x.op /\ y.key = x.key /\ y.fips = x.fips /\ y.fipsPub = x.fipsPub

\* A result of a step that sets parameters of a context with a key
Sound(r) ==
    /\ r.x \in CtxType /\ Consistent(r.x) /\ r.x.key # None
    /\ r.ok \in BOOLEAN

\* set_digest fetches the digest for what the operation requires, and keeps the
\* code with it.
LEMMA SetDigestSound ==
    ASSUME NEW x \in CtxType, Consistent(x), x.key # None,
           NEW name \in DigestNames \cup {""}
    PROVE  LET s == SetDigest(x, name)
           IN  /\ Sound(s) /\ Bound(x, s.x) /\ s.x.mdctx = x.mdctx
               /\ s.ok => /\ Named(s.x.md, IF name = "" THEN None ELSE name)
                          /\ s.x.pad = x.pad /\ s.x.salt = x.salt
                          /\ s.x.context = x.context /\ s.x.instance = x.instance
<1>1. CASE name = ""
  <2> DEFINE y == [x EXCEPT !.md = None, !.digest = "NONE"]
  <2>1. /\ y \in CtxType /\ y.md = None /\ y.digest = "NONE" /\ Bound(x, y)
        /\ y.mdctx = x.mdctx /\ y.pad = x.pad /\ y.salt = x.salt
        /\ y.context = x.context /\ y.instance = x.instance
    BY DEF CtxType, Bound
  <2> HIDE DEF y
  <2>2. Consistent(y)
    BY <2>1 DEF Consistent, Bound, RequiresFips, DigestOf
  <2>3. SetDigest(x, name).x = y /\ SetDigest(x, name).ok = TRUE
    BY <1>1 DEF SetDigest, Accepted, y
  <2>4. QED
    BY <1>1, <2>1, <2>2, <2>3 DEF Sound, Named, Bound
<1>2. CASE name = "shake256"
  BY <1>2 DEF SetDigest, Refused, Sound, Bound
<1>3. CASE name \notin {"", "shake256"}
  <2> DEFINE md == [name |-> name, fips |-> RequiresFips(x)]
             y  == [x EXCEPT !.md = md, !.digest = DigestOf(md)]
  <2>1. /\ md \in Mds /\ md.name = name /\ md.fips = RequiresFips(x) /\ md # None
    <3>1. RequiresFips(x) \in BOOLEAN
      BY KeyFipsAssumption DEF RequiresFips, CtxType
    <3> DEFINE fips == RequiresFips(x)
    <3> HIDE DEF fips
    <3>2. [name |-> name, fips |-> fips] \in Mds
      BY <1>3, <3>1 DEF Mds, fips
    <3>3. QED
      BY <3>2, NoneAssumption DEF fips
  <2> HIDE DEF md
  <2>2. DigestOf(md) \in {"NONE", "OTHER", "sha256", "sha384"}
    BY <2>1 DEF DigestOf
  <2>3. /\ y \in CtxType /\ y.md = md /\ y.digest = DigestOf(md) /\ Bound(x, y)
        /\ y.mdctx = x.mdctx /\ y.pad = x.pad /\ y.salt = x.salt
        /\ y.context = x.context /\ y.instance = x.instance
    BY <2>1, <2>2 DEF CtxType, Bound
  <2> HIDE DEF y
  <2>4. Consistent(y)
    BY <2>1, <2>3 DEF Consistent, Bound, RequiresFips
  <2>5. SetDigest(x, name).x = y /\ SetDigest(x, name).ok = TRUE
    BY <1>3 DEF SetDigest, Accepted, y, md
  <2>6. QED
    BY <1>3, <2>1, <2>3, <2>4, <2>5, NoneAssumption DEF Sound, Named, Bound
<1>4. QED
  BY <1>1, <1>2, <1>3

\* Parameters but the digest do not bear on what a context has fetched.
LEMMA OtherParameter ==
    ASSUME NEW x \in CtxType, Consistent(x), NEW y, Bound(x, y),
           y.md = x.md, y.digest = x.digest, y.mdctx = x.mdctx
    PROVE  Consistent(y)
BY DEF Consistent, Bound, RequiresFips

\* The digest named by an array of parameters, or the one there was
DigestGiven(md, params, x) ==
    IF "digest" \in DOMAIN params
    THEN Named(md, IF params["digest"] = "" THEN None ELSE params["digest"])
    ELSE md = x.md

\* The parameters are told apart by their names.
LEMMA ParamByName ==
    ASSUME NEW x, NEW value
    PROVE  /\ SetParam(x, "digest", value) = SetDigestParam(x, value)
           /\ SetParam(x, "pad", value) = SetPad(x, value)
           /\ SetParam(x, "salt", value) = SetSalt(x, value)
           /\ SetParam(x, "context", value) = SetContext(x, value)
           /\ SetParam(x, "instance", value) = SetInstance(x, value)
           /\ SetParam(x, "mgf1", value) = SetMgf1(x, value)
<1>1. SetParam(x, "digest", value) = SetDigestParam(x, value)
  BY DEF SetParam
<1>2. SetParam(x, "pad", value) = SetPad(x, value)
  BY DEF SetParam
<1>3. SetParam(x, "salt", value) = SetSalt(x, value)
  BY DEF SetParam
<1>4. SetParam(x, "context", value) = SetContext(x, value)
  BY DEF SetParam
<1>5. SetParam(x, "instance", value) = SetInstance(x, value)
  BY DEF SetParam
<1>6. SetParam(x, "mgf1", value) = SetMgf1(x, value)
  BY DEF SetParam
<1>7. QED
  BY <1>1, <1>2, <1>3, <1>4, <1>5, <1>6

\* One lemma for each parameter: it is taken as it is given, or refused, and
\* touches nothing else.
LEMMA ThenDigest ==
    ASSUME NEW r, Sound(r), NEW params \in ParamSets
    PROVE  LET s == Then(r, params, "digest")
           IN  /\ Sound(s) /\ Bound(r.x, s.x) /\ s.x.mdctx = r.x.mdctx
               /\ s.ok => /\ r.ok /\ DigestGiven(s.x.md, params, r.x)
                          /\ s.x.pad = r.x.pad /\ s.x.salt = r.x.salt
                          /\ s.x.context = r.x.context /\ s.x.instance = r.x.instance
<1> DEFINE s == Then(r, params, "digest")
           name == params["digest"]
<1>0. r.ok /\ "digest" \in DOMAIN params => s = SetDigestParam(r.x, params["digest"])
  BY ParamByName DEF Then
<1>1. CASE ~ (r.ok /\ "digest" \in DOMAIN params)
  <2>1. s = r
    BY <1>1 DEF Then
  <2>2. QED
    BY <1>1, <2>1 DEF Bound, DigestGiven
<1>2. CASE r.ok /\ "digest" \in DOMAIN params /\ name = None
  <2>1. s.x = r.x /\ s.ok = FALSE
    BY <1>0, <1>2 DEF SetDigestParam, Malformed, Silent
  <2>2. QED
    BY <2>1 DEF Bound, Sound
<1>3. CASE r.ok /\ "digest" \in DOMAIN params /\ name # None
  <2>1. s = SetDigest(r.x, name)
    BY <1>0, <1>3 DEF SetDigestParam, Malformed
  <2>2. name \in DigestNames \cup {""}
    BY <1>3, ParamSetsAssumption
  <2>3. QED
    BY <1>3, <2>1, <2>2, SetDigestSound DEF Sound, DigestGiven
<1>4. QED
  BY <1>1, <1>2, <1>3

\* The padding
LEMMA ThenPad ==
    ASSUME NEW r, Sound(r), NEW params \in ParamSets
    PROVE  LET s == Then(r, params, "pad")
           IN  /\ Sound(s) /\ Bound(r.x, s.x) /\ s.x.mdctx = r.x.mdctx
               /\ s.ok => /\ r.ok /\ s.x.md = r.x.md
                          /\ s.x.pad = Given(params, "pad", r.x.pad)
                          /\ s.x.salt = r.x.salt
                          /\ s.x.context = r.x.context
                          /\ s.x.instance = r.x.instance
<1> DEFINE s == Then(r, params, "pad")
           value == params["pad"]
<1>0. r.ok /\ "pad" \in DOMAIN params => s = SetPad(r.x, params["pad"])
  BY ParamByName DEF Then
<1>1. CASE ~ (r.ok /\ "pad" \in DOMAIN params)
  <2>1. s = r
    BY <1>1 DEF Then
  <2>2. QED
    BY <1>1, <2>1 DEF Bound, Given
<1>2. CASE r.ok /\ "pad" \in DOMAIN params /\ value \notin {"pkcs1", "pss"}
  <2>1. s.x = r.x /\ s.ok = FALSE
    BY <1>0, <1>2 DEF SetPad, Malformed, Silent, Refused
  <2>2. QED
    BY <2>1 DEF Bound, Sound
<1>3. CASE r.ok /\ "pad" \in DOMAIN params /\ ~ (value \notin {"pkcs1", "pss"})
  <2> DEFINE y == [r.x EXCEPT !.pad = value]
  <2>0. value \in {"pkcs1", "pss"} /\ value # None
    BY <1>3, NoneAssumption
  <2>1. s.x = y /\ s.ok = TRUE
    BY <1>0, <1>3, <2>0 DEF SetPad, Malformed, Accepted
  <2>2. value \in {"pkcs1", "pss"}
    BY <1>3, ParamSetsAssumption
  <2>3. /\ y \in CtxType /\ y.pad = value /\ Bound(r.x, y)
        /\ y.md = r.x.md /\ y.digest = r.x.digest /\ y.mdctx = r.x.mdctx
        /\ y.salt = r.x.salt /\ y.context = r.x.context /\ y.instance = r.x.instance
    BY <2>2 DEF CtxType, Bound, Sound
  <2> HIDE DEF y
  <2>4. Consistent(y)
    BY <2>3, OtherParameter DEF Sound
  <2>5. QED
    BY <1>3, <2>1, <2>3, <2>4 DEF Sound, Given, Bound
<1>4. QED
  BY <1>1, <1>2, <1>3

\* The salt length
LEMMA ThenSalt ==
    ASSUME NEW r, Sound(r), NEW params \in ParamSets
    PROVE  LET s == Then(r, params, "salt")
           IN  /\ Sound(s) /\ Bound(r.x, s.x) /\ s.x.mdctx = r.x.mdctx
               /\ s.ok => /\ r.ok /\ s.x.md = r.x.md
                          /\ s.x.pad = r.x.pad
                          /\ s.x.salt = Given(params, "salt", r.x.salt)
                          /\ s.x.context = r.x.context
                          /\ s.x.instance = r.x.instance
<1> DEFINE s == Then(r, params, "salt")
           value == params["salt"]
<1>0. r.ok /\ "salt" \in DOMAIN params => s = SetSalt(r.x, params["salt"])
  BY ParamByName DEF Then
<1>1. CASE ~ (r.ok /\ "salt" \in DOMAIN params)
  <2>1. s = r
    BY <1>1 DEF Then
  <2>2. QED
    BY <1>1, <2>1 DEF Bound, Given
<1>2. CASE r.ok /\ "salt" \in DOMAIN params /\ value = None
  <2>1. s.x = r.x /\ s.ok = FALSE
    BY <1>0, <1>2 DEF SetSalt, Malformed, Silent, Refused
  <2>2. QED
    BY <2>1 DEF Bound, Sound
<1>3. CASE r.ok /\ "salt" \in DOMAIN params /\ ~ (value = None)
  <2> DEFINE y == [r.x EXCEPT !.salt = value]
  <2>1. s.x = y /\ s.ok = TRUE
    BY <1>0, <1>3 DEF SetSalt, Malformed, Accepted
  <2>2. value \in Int
    BY <1>3, ParamSetsAssumption
  <2>3. /\ y \in CtxType /\ y.salt = value /\ Bound(r.x, y)
        /\ y.md = r.x.md /\ y.digest = r.x.digest /\ y.mdctx = r.x.mdctx
        /\ y.pad = r.x.pad /\ y.context = r.x.context /\ y.instance = r.x.instance
    BY <2>2 DEF CtxType, Bound, Sound
  <2> HIDE DEF y
  <2>4. Consistent(y)
    BY <2>3, OtherParameter DEF Sound
  <2>5. QED
    BY <1>3, <2>1, <2>3, <2>4 DEF Sound, Given, Bound
<1>4. QED
  BY <1>1, <1>2, <1>3

\* The context string
LEMMA ThenContext ==
    ASSUME NEW r, Sound(r), NEW params \in ParamSets
    PROVE  LET s == Then(r, params, "context")
           IN  /\ Sound(s) /\ Bound(r.x, s.x) /\ s.x.mdctx = r.x.mdctx
               /\ s.ok => /\ r.ok /\ s.x.md = r.x.md
                          /\ s.x.pad = r.x.pad
                          /\ s.x.salt = r.x.salt
                          /\ s.x.context = Given(params, "context", r.x.context)
                          /\ s.x.instance = r.x.instance
<1> DEFINE s == Then(r, params, "context")
           value == params["context"]
<1>0. r.ok /\ "context" \in DOMAIN params => s = SetContext(r.x, params["context"])
  BY ParamByName DEF Then
<1>1. CASE ~ (r.ok /\ "context" \in DOMAIN params)
  <2>1. s = r
    BY <1>1 DEF Then
  <2>2. QED
    BY <1>1, <2>1 DEF Bound, Given
<1>2. CASE /\ r.ok /\ "context" \in DOMAIN params
           /\ (value = None \/ Len(value) > MaxContext)
  <2>1. s.x = r.x /\ s.ok = FALSE
    BY <1>0, <1>2 DEF SetContext, Malformed, Silent, Refused
  <2>2. QED
    BY <2>1 DEF Bound, Sound
<1>3. CASE /\ r.ok /\ "context" \in DOMAIN params
           /\ ~ (value = None \/ Len(value) > MaxContext)
  <2> DEFINE y == [r.x EXCEPT !.context = value]
  <2>1. s.x = y /\ s.ok = TRUE
    BY <1>0, <1>3 DEF SetContext, Malformed, Accepted
  <2>2. value \in Messages
    BY <1>3, ParamSetsAssumption
  <2>3. /\ y \in CtxType /\ y.context = value /\ Bound(r.x, y)
        /\ y.md = r.x.md /\ y.digest = r.x.digest /\ y.mdctx = r.x.mdctx
        /\ y.pad = r.x.pad /\ y.salt = r.x.salt /\ y.instance = r.x.instance
    BY <2>2 DEF CtxType, Bound, Sound
  <2> HIDE DEF y
  <2>4. Consistent(y)
    BY <2>3, OtherParameter DEF Sound
  <2>5. QED
    BY <1>3, <2>1, <2>3, <2>4 DEF Sound, Given, Bound
<1>4. QED
  BY <1>1, <1>2, <1>3

\* The instance
LEMMA ThenInstance ==
    ASSUME NEW r, Sound(r), NEW params \in ParamSets
    PROVE  LET s == Then(r, params, "instance")
           IN  /\ Sound(s) /\ Bound(r.x, s.x) /\ s.x.mdctx = r.x.mdctx
               /\ s.ok => /\ r.ok /\ s.x.md = r.x.md
                          /\ s.x.pad = r.x.pad
                          /\ s.x.salt = r.x.salt
                          /\ s.x.context = r.x.context
                          /\ s.x.instance = Given(params, "instance", r.x.instance)
<1> DEFINE s == Then(r, params, "instance")
           value == params["instance"]
<1>0. r.ok /\ "instance" \in DOMAIN params => s = SetInstance(r.x, params["instance"])
  BY ParamByName DEF Then
<1>1. CASE ~ (r.ok /\ "instance" \in DOMAIN params)
  <2>1. s = r
    BY <1>1 DEF Then
  <2>2. QED
    BY <1>1, <2>1 DEF Bound, Given
<1>2. CASE r.ok /\ "instance" \in DOMAIN params /\ value = None
  <2>1. s.x = r.x /\ s.ok = FALSE
    BY <1>0, <1>2 DEF SetInstance, Malformed, Silent, Refused
  <2>2. QED
    BY <2>1 DEF Bound, Sound
<1>3. CASE r.ok /\ "instance" \in DOMAIN params /\ ~ (value = None)
  <2> DEFINE y == [r.x EXCEPT !.instance = value]
  <2>1. s.x = y /\ s.ok = TRUE
    BY <1>0, <1>3 DEF SetInstance, Malformed, Accepted
  <2>2. value \in Instances
    BY <1>3, ParamSetsAssumption
  <2>3. /\ y \in CtxType /\ y.instance = value /\ Bound(r.x, y)
        /\ y.md = r.x.md /\ y.digest = r.x.digest /\ y.mdctx = r.x.mdctx
        /\ y.pad = r.x.pad /\ y.salt = r.x.salt /\ y.context = r.x.context
    BY <2>2 DEF CtxType, Bound, Sound
  <2> HIDE DEF y
  <2>4. Consistent(y)
    BY <2>3, OtherParameter DEF Sound
  <2>5. QED
    BY <1>3, <2>1, <2>3, <2>4 DEF Sound, Given, Bound
<1>4. QED
  BY <1>1, <1>2, <1>3

\* The MGF1 digest is compared, and changes nothing.
LEMMA ThenMgf1 ==
    ASSUME NEW r, Sound(r), NEW params
    PROVE  LET s == Then(r, params, "mgf1")
           IN  s.x = r.x /\ s.ok \in BOOLEAN /\ (s.ok => r.ok)
<1> DEFINE s == Then(r, params, "mgf1")
           value == params["mgf1"]
<1>1. CASE ~ (r.ok /\ "mgf1" \in DOMAIN params)
  BY <1>1 DEF Then, Sound
<1>2. CASE r.ok /\ "mgf1" \in DOMAIN params
  <2>1. s = SetMgf1(r.x, value)
    BY <1>2, ParamByName DEF Then
  <2>2. \A x : /\ SetMgf1(x, value).x = x
              /\ SetMgf1(x, value).ok \in BOOLEAN
    BY DEF SetMgf1, Accepted, Refused, Silent
  <2>3. QED
    BY <1>2, <2>1, <2>2
<1>3. QED
  BY <1>1, <1>2

\* What an array of parameters makes of a context that takes it
TakesParams(x, y, params) ==
    /\ DigestGiven(y.md, params, x)
    /\ y.pad = Given(params, "pad", x.pad) /\ y.salt = Given(params, "salt", x.salt)
    /\ y.context = Given(params, "context", x.context)
    /\ y.instance = Given(params, "instance", x.instance)

\* awskms_sig_set_ctx_params: an array that is accepted is taken as it is; one
\* that is not leaves a context that is sound all the same.
LEMMA ParamsTaken ==
    ASSUME NEW x \in CtxType, Consistent(x), x.key # None, NEW params \in ParamSets
    PROVE  LET s == SetCtxParams(x, params)
           IN  /\ Sound(s) /\ Bound(x, s.x) /\ s.x.mdctx = x.mdctx
               /\ s.ok => TakesParams(x, s.x, params)
<1> DEFINE r0 == Accepted(x)
           r1 == Then(r0, params, "digest")
           r2 == Then(r1, params, "pad")
           r3 == Then(r2, params, "salt")
           r4 == Then(r3, params, "context")
           r5 == Then(r4, params, "instance")
           s  == Then(r5, params, "mgf1")
<1>1. SetCtxParams(x, params) = s
  BY DEF SetCtxParams
<1>2. r0.x = x /\ r0.ok = TRUE /\ Sound(r0)
  BY DEF Accepted, Sound
<1> HIDE DEF r0
<1>3. /\ Sound(r1) /\ Bound(x, r1.x) /\ r1.x.mdctx = x.mdctx
      /\ r1.ok => /\ DigestGiven(r1.x.md, params, x)
                  /\ r1.x.pad = x.pad /\ r1.x.salt = x.salt
                  /\ r1.x.context = x.context /\ r1.x.instance = x.instance
  BY <1>2, ThenDigest
<1> HIDE DEF r1
<1>4. /\ Sound(r2) /\ Bound(x, r2.x) /\ r2.x.mdctx = x.mdctx
      /\ r2.ok => /\ DigestGiven(r2.x.md, params, x)
                  /\ r2.x.pad = Given(params, "pad", x.pad) /\ r2.x.salt = x.salt
                  /\ r2.x.context = x.context /\ r2.x.instance = x.instance
  BY <1>3, ThenPad DEF Bound
<1> HIDE DEF r2
<1>5. /\ Sound(r3) /\ Bound(x, r3.x) /\ r3.x.mdctx = x.mdctx
      /\ r3.ok => /\ DigestGiven(r3.x.md, params, x)
                  /\ r3.x.pad = Given(params, "pad", x.pad)
                  /\ r3.x.salt = Given(params, "salt", x.salt)
                  /\ r3.x.context = x.context /\ r3.x.instance = x.instance
  BY <1>4, ThenSalt DEF Bound
<1> HIDE DEF r3
<1>6. /\ Sound(r4) /\ Bound(x, r4.x) /\ r4.x.mdctx = x.mdctx
      /\ r4.ok => /\ DigestGiven(r4.x.md, params, x)
                  /\ r4.x.pad = Given(params, "pad", x.pad)
                  /\ r4.x.salt = Given(params, "salt", x.salt)
                  /\ r4.x.context = Given(params, "context", x.context)
                  /\ r4.x.instance = x.instance
  BY <1>5, ThenContext DEF Bound
<1> HIDE DEF r4
<1>7. /\ Sound(r5) /\ Bound(x, r5.x) /\ r5.x.mdctx = x.mdctx
      /\ r5.ok => TakesParams(x, r5.x, params)
  BY <1>6, ThenInstance DEF Bound, TakesParams
<1> HIDE DEF r5
<1>8. s.x = r5.x /\ s.ok \in BOOLEAN /\ (s.ok => r5.ok)
  BY <1>7, ThenMgf1
<1> HIDE DEF s
<1>9. QED
  BY <1>1, <1>7, <1>8 DEF Sound

-----------------------------------------------------------------------------
(***************************************************************************)
(* Initialisations                                                         *)
(***************************************************************************)
\* The key an initialisation is for: its own, or that of the one before
KeyFor(x, k) == IF k = None THEN x.key ELSE k

\* What an initialisation may begin with: a context with a key, or a fresh one
\* and a key that the operation takes
Initialisable(x, k) ==
    /\ x \in CtxType /\ Consistent(x)
    /\ \/ k = None /\ x.key # None
       \/ /\ k \in Keys /\ x.key = None /\ x.md = None /\ x.mdctx = None
          /\ x.op \in {"sign", "verify"} => ~ OneShot(k)

\* bind_key either leaves the context as it was, or with a key and the view of
\* it that the operation requires.
LEMMA BindSound ==
    ASSUME NEW x, NEW k, Initialisable(x, k), NEW b \in BindKey(x, k)
    PROVE  /\ b.x \in CtxType /\ Consistent(b.x) /\ b.ok \in BOOLEAN
           /\ b.x.op = x.op /\ b.x.fips = x.fips /\ b.x.mdctx = x.mdctx
           /\ IF b.ok THEN b.x.key = KeyFor(x, k) /\ b.x.key # None ELSE b.x.key = x.key
           /\ b.x.md = x.md /\ b.x.pad = x.pad /\ b.x.salt = x.salt
           /\ b.x.context = x.context /\ b.x.instance = x.instance
<1>1. CASE k = None
  <2>1. x \in CtxType /\ Consistent(x) /\ x.key # None
    BY <1>1, NoneAssumption DEF Initialisable
  <2>2. b = Accepted(x)
    BY <1>1, <2>1 DEF BindKey
  <2>3. b.x = x /\ b.ok = TRUE
    BY <2>2 DEF Accepted
  <2>4. QED
    BY <1>1, <2>1, <2>3 DEF KeyFor
<1>2. CASE k \in Keys
  <2> DEFINE own == [of |-> k, fips |-> TRUE]
             y == [x EXCEPT !.key = k, !.fipsPub = own]
             z == [x EXCEPT !.key = k, !.fipsPub = None]
  <2>1. k # None
    BY <1>2, NoneAssumption
  <2>2. /\ x \in CtxType /\ Consistent(x) /\ x.key = None /\ x.md = None /\ x.mdctx = None
        /\ x.op \in {"sign", "verify"} => ~ OneShot(k)
    BY <2>1 DEF Initialisable
  <2>3. /\ y \in CtxType /\ y.key = k /\ y.fipsPub = own /\ y.op = x.op
        /\ y.fips = x.fips /\ y.mdctx = x.mdctx /\ y.md = x.md /\ y.digest = x.digest
        /\ y.pad = x.pad /\ y.salt = x.salt
        /\ y.context = x.context /\ y.instance = x.instance
    BY <1>2, <2>2 DEF CtxType
  <2>4. /\ z \in CtxType /\ z.key = k /\ z.op = x.op
        /\ z.fips = x.fips /\ z.mdctx = x.mdctx /\ z.md = x.md /\ z.digest = x.digest
        /\ z.pad = x.pad /\ z.salt = x.salt
        /\ z.context = x.context /\ z.instance = x.instance
    BY <1>2, <2>2 DEF CtxType
  <2>5. \/ x.fips /\ ~ KeyFips[k] /\ (b = Accepted(y) \/ b = Refused(x))
        \/ ~ (x.fips /\ ~ KeyFips[k]) /\ b = Accepted(z)
    BY <2>1 DEF BindKey
  <2> HIDE DEF y, z
  <2>6. CASE b = Accepted(y)
    <3>1. Consistent(y)
      BY <2>2, <2>3 DEF Consistent
    <3>2. b.x = y /\ b.ok = TRUE
      BY <2>6 DEF Accepted
    <3>3. QED
      BY <2>1, <2>3, <3>1, <3>2 DEF KeyFor
  <2>7. CASE b = Refused(x)
    <3>1. b.x = x /\ b.ok = FALSE
      BY <2>7 DEF Refused
    <3>2. QED
      BY <2>2, <3>1
  <2>8. CASE b = Accepted(z) /\ ~ (x.fips /\ ~ KeyFips[k])
    <3>1. Consistent(z)
      BY <2>2, <2>4, <2>8 DEF Consistent
    <3>2. b.x = z /\ b.ok = TRUE
      BY <2>8 DEF Accepted
    <3>3. QED
      BY <2>1, <2>4, <3>1, <3>2 DEF KeyFor
  <2>9. QED
    BY <2>5, <2>6, <2>7, <2>8
<1>3. QED
  BY <1>1, <1>2 DEF Initialisable

\* awskms_sig_sign_init and what the others begin with
LEMMA PrehashInitSound ==
    ASSUME NEW x, NEW k, Initialisable(x, k), NEW params \in ParamSets,
           NEW p \in PrehashInit(x, k, params)
    PROVE  /\ p.x \in CtxType /\ Consistent(p.x) /\ p.ok \in BOOLEAN
           /\ p.x.op = x.op /\ p.x.fips = x.fips /\ p.x.mdctx = x.mdctx
           /\ p.x.key = KeyFor(x, k) \/ (~ p.ok /\ p.x.key = x.key)
           /\ p.ok => p.x.key # None /\ TakesParams(x, p.x, params)
<1>1. PICK b \in BindKey(x, k) : p = IF b.ok THEN SetCtxParams(b.x, params) ELSE b
  BY DEF PrehashInit
<1>2. /\ b.x \in CtxType /\ Consistent(b.x) /\ b.ok \in BOOLEAN
      /\ b.x.op = x.op /\ b.x.fips = x.fips /\ b.x.mdctx = x.mdctx
      /\ IF b.ok THEN b.x.key = KeyFor(x, k) /\ b.x.key # None ELSE b.x.key = x.key
      /\ b.x.md = x.md /\ b.x.pad = x.pad /\ b.x.salt = x.salt
      /\ b.x.context = x.context /\ b.x.instance = x.instance
  BY BindSound
<1>3. CASE ~ b.ok
  BY <1>1, <1>2, <1>3
<1>4. CASE b.ok
  <2>1. p = SetCtxParams(b.x, params) /\ b.x.key # None
    BY <1>1, <1>2, <1>4
  <2>2. /\ Sound(p) /\ Bound(b.x, p.x) /\ p.x.mdctx = b.x.mdctx
        /\ p.ok => TakesParams(b.x, p.x, params)
    BY <1>2, <2>1, ParamsTaken
  <2>3. p.ok => TakesParams(x, p.x, params)
    BY <1>2, <2>2 DEF TakesParams, DigestGiven
  <2>4. QED
    BY <1>2, <1>4, <2>1, <2>2, <2>3 DEF Sound, Bound
<1>5. QED
  BY <1>2, <1>3, <1>4

\* The digest that an initialisation asks for, by its name or a parameter
DigestAsked(md, params, mdname, x) ==
    IF mdname = "" THEN DigestGiven(md, params, x) ELSE Named(md, mdname)

\* What every initialisation leaves: a sound context, which is as asked for, and
\* whose stream has its digest and no data yet, if the initialisation has
\* succeeded
Initialised(x, k, params, mdname, r) ==
    /\ r.x \in CtxType /\ Consistent(r.x) /\ r.ok \in BOOLEAN
    /\ r.x.op = x.op /\ r.x.fips = x.fips
    /\ r.x.key = KeyFor(x, k) \/ (~ r.ok /\ r.x.key = x.key)
    /\ r.x.mdctx # None =>
          r.x.mdctx = x.mdctx \/ (r.x.mdctx.data = <<>> /\ ~ r.x.mdctx.final)
    /\ r.ok => /\ r.x.key # None /\ DigestAsked(r.x.md, params, mdname, x)
               /\ r.x.pad = Given(params, "pad", x.pad)
               /\ r.x.salt = Given(params, "salt", x.salt)
               /\ r.x.context = Given(params, "context", x.context)
               /\ r.x.instance = Given(params, "instance", x.instance)
               /\ r.x.mdctx # None =>
                     r.x.mdctx.data = <<>> /\ r.x.mdctx.md = r.x.md

\* awskms_sig_digest_sign_init opens a stream of the digest it was given or has.
LEMMA StreamInitSound ==
    ASSUME NEW x, NEW k, Initialisable(x, k), NEW params \in ParamSets,
           NEW mdname \in MdNames, ~ OneShot(KeyFor(x, k)),
           x.op \in {"dsign", "dverify"},
           NEW r \in StreamInit(x, k, mdname, params)
    PROVE  Initialised(x, k, params, mdname, r)
<1>1. PICK p \in PrehashInit(x, k, params) :
        r = IF p.ok THEN StreamDigest(p.x, mdname) ELSE p
  BY DEF StreamInit
<1>2. /\ p.x \in CtxType /\ Consistent(p.x) /\ p.ok \in BOOLEAN
      /\ p.x.op = x.op /\ p.x.fips = x.fips /\ p.x.mdctx = x.mdctx
      /\ p.x.key = KeyFor(x, k) \/ (~ p.ok /\ p.x.key = x.key)
      /\ p.ok => p.x.key # None /\ TakesParams(x, p.x, params)
  BY PrehashInitSound
<1>3. CASE ~ p.ok
  BY <1>1, <1>2, <1>3 DEF Initialised
<1>4. CASE p.ok
  <2> DEFINE named == IF mdname = "" THEN Accepted(p.x) ELSE SetDigest(p.x, mdname)
             stream == [md |-> named.x.md, data |-> <<>>, final |-> FALSE]
             y == [named.x EXCEPT !.mdctx = stream]
  <2>1. /\ Sound(named) /\ Bound(p.x, named.x) /\ named.x.mdctx = p.x.mdctx
        /\ named.ok => /\ DigestAsked(named.x.md, params, mdname, x)
                       /\ named.x.pad = p.x.pad /\ named.x.salt = p.x.salt
                       /\ named.x.context = p.x.context
                       /\ named.x.instance = p.x.instance
    <3>1. CASE mdname = ""
      <4>1. named.x = p.x /\ named.ok = TRUE
        BY <3>1 DEF Accepted
      <4>2. QED
        BY <1>2, <1>4, <3>1, <4>1 DEF Sound, Bound, DigestAsked, TakesParams
    <3>2. CASE mdname # ""
      <4>1. named = SetDigest(p.x, mdname) /\ mdname \in DigestNames
        BY <3>2, MdNamesAssumption
      <4>2. mdname # None
        BY <4>1, NoneAssumption
      <4> HIDE DEF named
      <4>3. QED
        BY <1>2, <1>4, <3>2, <4>1, <4>2, SetDigestSound DEF DigestAsked
    <3>3. QED
      BY <3>1, <3>2
  <2>2. r = IF ~ named.ok THEN named ELSE IF named.x.md = None THEN Refused(named.x)
            ELSE Accepted(y)
    BY <1>1, <1>4 DEF StreamDigest
  <2> HIDE DEF named
  <2>3. CASE ~ named.ok
    BY <1>2, <1>4, <2>1, <2>2, <2>3 DEF Initialised, Sound, Bound
  <2>4. CASE named.ok /\ named.x.md = None
    <3>1. r.x = named.x /\ r.ok = FALSE
      BY <2>2, <2>4 DEF Refused
    <3>2. QED
      BY <1>2, <1>4, <2>1, <3>1 DEF Initialised, Sound, Bound
  <2>5. CASE named.ok /\ named.x.md # None
    <3>1. r.x = y /\ r.ok = TRUE
      BY <2>2, <2>5 DEF Accepted
    <3>2. stream \in Streams /\ stream.md = named.x.md /\ stream.data = <<>>
          /\ stream.final = FALSE
      BY <2>1, <2>5, MessagesAreSequences DEF Streams, Sound, CtxType
    <3> HIDE DEF stream
    <3>3. /\ y \in CtxType /\ y.mdctx = stream /\ y.op = named.x.op
          /\ y.key = named.x.key /\ y.fips = named.x.fips /\ y.fipsPub = named.x.fipsPub
          /\ y.md = named.x.md /\ y.digest = named.x.digest
          /\ y.pad = named.x.pad /\ y.salt = named.x.salt
          /\ y.context = named.x.context /\ y.instance = named.x.instance
      BY <2>1, <3>2 DEF Sound, CtxType
    <3> HIDE DEF y
    <3>4. ~ OneShot(y.key) /\ y.op \in {"dsign", "dverify"}
      BY <1>2, <1>4, <2>1, <3>3 DEF Bound
    <3>5. Consistent(y)
      BY <2>1, <2>5, <3>2, <3>3, <3>4 DEF Consistent, Sound, RequiresFips
    <3>6. /\ y.op = x.op /\ y.fips = x.fips /\ y.key = KeyFor(x, k) /\ y.key # None
      BY <1>2, <1>4, <2>1, <3>3 DEF Sound, Bound
    <3>7. y.mdctx.data = <<>> /\ ~ y.mdctx.final /\ y.mdctx.md = y.md
      BY <3>2, <3>3
    <3>8. /\ DigestAsked(y.md, params, mdname, x)
          /\ y.pad = Given(params, "pad", x.pad) /\ y.salt = Given(params, "salt", x.salt)
          /\ y.context = Given(params, "context", x.context)
          /\ y.instance = Given(params, "instance", x.instance)
      BY <1>2, <1>4, <2>1, <2>5, <3>3 DEF TakesParams
    <3>9. QED
      BY ONLY <3>1, <3>3, <3>5, <3>6, <3>7, <3>8 DEF Initialised
  <2>6. QED
    BY <2>1, <2>3, <2>4, <2>5
<1>5. QED
  BY <1>2, <1>3, <1>4

\* awskms_sig_oneshot_init takes no digest, and drops the code of one that a
\* parameter has set.
LEMMA OneShotInitSound ==
    ASSUME NEW x, NEW k, Initialisable(x, k), NEW params \in ParamSets,
           NEW mdname, OneShot(KeyFor(x, k)),
           NEW r \in OneShotInit(x, k, mdname, params)
    PROVE  Initialised(x, k, params, mdname, r)
<1>1. PICK p \in PrehashInit(x, k, params) :
        r = IF p.ok THEN OneShotDigest(p.x, mdname) ELSE p
  BY DEF OneShotInit
<1>2. /\ p.x \in CtxType /\ Consistent(p.x) /\ p.ok \in BOOLEAN
      /\ p.x.op = x.op /\ p.x.fips = x.fips /\ p.x.mdctx = x.mdctx
      /\ p.x.key = KeyFor(x, k) \/ (~ p.ok /\ p.x.key = x.key)
      /\ p.ok => p.x.key # None /\ TakesParams(x, p.x, params)
  BY PrehashInitSound
<1>3. CASE ~ p.ok
  BY <1>1, <1>2, <1>3 DEF Initialised
<1>4. CASE p.ok
  <2> DEFINE y == [p.x EXCEPT !.digest = "NONE"]
  <2>1. /\ y \in CtxType /\ y.mdctx = p.x.mdctx /\ y.op = p.x.op
        /\ y.key = p.x.key /\ y.fips = p.x.fips /\ y.fipsPub = p.x.fipsPub
        /\ y.md = p.x.md /\ y.pad = p.x.pad /\ y.salt = p.x.salt
        /\ y.context = p.x.context /\ y.instance = p.x.instance
    BY <1>2 DEF CtxType
  <2>2. /\ r.x = IF mdname # "" THEN p.x ELSE y
        /\ r.ok \in BOOLEAN /\ (r.ok => mdname = "")
    BY <1>1, <1>4 DEF OneShotDigest, Accepted, Refused
  <2> HIDE DEF y
  <2>3. p.x.mdctx = None
    BY <1>2, <1>4 DEF Consistent
  <2>4. Consistent(y)
    BY <1>2, <1>4, <2>1, <2>3 DEF Consistent, RequiresFips
  <2>5. CASE mdname # ""
    BY <1>2, <1>4, <2>2, <2>5 DEF Initialised
  <2>6. CASE mdname = ""
    BY <1>2, <1>4, <2>1, <2>2, <2>3, <2>4, <2>6
    DEF Initialised, TakesParams, DigestAsked
  <2>7. QED
    BY <2>5, <2>6
<1>5. QED
  BY <1>2, <1>3, <1>4

\* The initialisation that the dispatch table of the key's family names
LEMMA InitSound ==
    ASSUME NEW x, NEW k, Initialisable(x, k), NEW params \in ParamSets,
           NEW mdname \in MdNames, x.op \in {"sign", "verify"} => mdname = "",
           NEW r \in InitResults(x, k, x.op, mdname, params)
    PROVE  Initialised(x, k, params, mdname, r)
<1>1. CASE x.op \in {"sign", "verify"}
  <2>1. r \in PrehashInit(x, k, params)
    BY <1>1 DEF InitResults
  <2>2. x.mdctx = None
    BY <1>1 DEF Initialisable, Consistent
  <2>3. /\ r.x \in CtxType /\ Consistent(r.x) /\ r.ok \in BOOLEAN
        /\ r.x.op = x.op /\ r.x.fips = x.fips /\ r.x.mdctx = x.mdctx
        /\ r.x.key = KeyFor(x, k) \/ (~ r.ok /\ r.x.key = x.key)
        /\ r.ok => r.x.key # None /\ TakesParams(x, r.x, params)
    BY <2>1, PrehashInitSound
  <2>4. QED
    BY <1>1, <2>2, <2>3 DEF Initialised, DigestAsked, TakesParams
<1>2. CASE x.op \in {"dsign", "dverify"} /\ OneShot(KeyFor(x, k))
  <2>1. r \in OneShotInit(x, k, mdname, params)
    BY <1>2 DEF InitResults, KeyFor
  <2>2. QED
    BY <1>2, <2>1, OneShotInitSound
<1>3. CASE x.op \in {"dsign", "dverify"} /\ ~ OneShot(KeyFor(x, k))
  <2>1. r \in StreamInit(x, k, mdname, params)
    BY <1>3 DEF InitResults, KeyFor
  <2>2. QED
    BY <1>3, <2>1, StreamInitSound
<1>4. QED
  BY <1>1, <1>2, <1>3 DEF Initialisable, CtxType

-----------------------------------------------------------------------------
(***************************************************************************)
(* What was asked for, and references                                      *)
(***************************************************************************)
\* What was asked of a context before there is one
LEMMA NothingAskedTyped == NothingAsked \in AskedType
<1> DEFINE empty == <<>>
           minus == -1
<1>1. empty \in Messages /\ minus \in Int
  BY MessagesAreSequences
<1>2. NothingAsked = [settled |-> TRUE, fips |-> FALSE, digest |-> None,
                      opened |-> None, pad |-> "pkcs1", salt |-> minus,
                      context |-> empty, instance |-> None, data |-> empty]
  BY DEF NothingAsked
<1> HIDE DEF empty, minus
<1>3. QED
  BY <1>1, <1>2 DEF AskedType

\* A context and the record of what was asked change together: when a call has
\* succeeded they agree again, and when it has not, nothing is claimed.  An
\* initialisation opens the stream with the digest of the context; a setter
\* leaves the stream as it is.
LEMMA AskedTogether ==
    ASSUME NEW a \in AskedType, NEW params \in ParamSets,
           NEW mdname \in DigestNames \cup {""}, NEW ok \in BOOLEAN,
           NEW x, NEW y \in CtxType, y.fips = x.fips, a.fips = x.fips,
           a.settled => /\ Named(x.md, a.digest) /\ x.pad = a.pad /\ x.salt = a.salt
                        /\ x.context = a.context /\ x.instance = a.instance,
           ok => /\ DigestAsked(y.md, params, mdname, x)
                 /\ y.pad = Given(params, "pad", x.pad)
                 /\ y.salt = Given(params, "salt", x.salt)
                 /\ y.context = Given(params, "context", x.context)
                 /\ y.instance = Given(params, "instance", x.instance),
           a.settled /\ ok /\ y.mdctx # None => y.mdctx.data = a.data,
           NEW v,
           \/ /\ v = WithParams(a, params, mdname)
              /\ a.settled /\ ok /\ y.mdctx # None => y.mdctx.md.name = a.opened
           \/ /\ v = Opened(WithParams(a, params, mdname))
              /\ ok /\ y.mdctx # None => y.mdctx.md = y.md
    PROVE  Settled(v, ok) \in AskedType /\ AsAsked(y, Settled(v, ok))
<1> DEFINE w == WithParams(a, params, mdname)
           b == Settled(v, ok)
           given == Given(params, "digest", a.digest)
           digest == IF mdname # "" THEN mdname ELSE IF given = "" THEN None ELSE given
<1>00. w = [settled |-> a.settled, fips |-> a.fips, digest |-> digest,
           opened |-> a.opened, pad |-> Given(params, "pad", a.pad),
           salt |-> Given(params, "salt", a.salt),
           context |-> Given(params, "context", a.context),
           instance |-> Given(params, "instance", a.instance), data |-> a.data]
  <2>1. w = [a EXCEPT !.digest = digest, !.pad = Given(params, "pad", a.pad),
                      !.salt = Given(params, "salt", a.salt),
                      !.context = Given(params, "context", a.context),
                      !.instance = Given(params, "instance", a.instance)]
    BY Zenon DEF WithParams
  <2> HIDE DEF w, digest
  <2>2. QED
    BY <2>1 DEF AskedType
<1> HIDE DEF w, digest
<1>0. /\ w.settled = a.settled /\ w.fips = a.fips /\ w.data = a.data
      /\ w.digest = digest /\ w.opened = a.opened
      /\ w.pad = Given(params, "pad", a.pad) /\ w.salt = Given(params, "salt", a.salt)
      /\ w.context = Given(params, "context", a.context)
      /\ w.instance = Given(params, "instance", a.instance)
      /\ w = [settled |-> a.settled, fips |-> a.fips, digest |-> digest,
              opened |-> a.opened, pad |-> w.pad, salt |-> w.salt,
              context |-> w.context, instance |-> w.instance, data |-> a.data]
  BY <1>00
<1>1. /\ v.settled = a.settled /\ v.fips = a.fips /\ v.data = a.data
      /\ v.digest = digest /\ v.opened \in {a.opened, digest}
      /\ v.pad = Given(params, "pad", a.pad) /\ v.salt = Given(params, "salt", a.salt)
      /\ v.context = Given(params, "context", a.context)
      /\ v.instance = Given(params, "instance", a.instance)
      /\ v = [settled |-> a.settled, fips |-> a.fips, digest |-> digest,
              opened |-> v.opened, pad |-> v.pad, salt |-> v.salt,
              context |-> v.context, instance |-> v.instance, data |-> a.data]
  <2>1. CASE v = w
    BY <1>0, <2>1
  <2>2. CASE v = Opened(w)
    BY <1>0, <2>2 DEF Opened
  <2>3. QED
    BY <2>1, <2>2 DEF w
<1>2. digest \in DigestNames \cup {None}
  BY ParamSetsAssumption DEF Given, AskedType, digest
<1>3. ok /\ a.settled /\ Named(y.md, digest) /\ y.mdctx # None =>
         y.mdctx.md.name = v.opened
  <2>1. CASE v = w /\ (a.settled /\ ok /\ y.mdctx # None =>
                          y.mdctx.md.name = a.opened)
    BY <1>0, <2>1
  <2>2. CASE v = Opened(w) /\ (ok /\ y.mdctx # None => y.mdctx.md = y.md)
    <3>1. v.opened = digest
      BY <1>0, <2>2 DEF Opened
    <3>2. y.mdctx # None => y.mdctx.md \in Mds
      BY DEF CtxType, Streams
    <3>3. ok /\ y.mdctx # None => y.md # None
      BY <2>2, <3>2, NoneAssumption
    <3>4. QED
      BY <2>2, <3>1, <3>3 DEF Named
  <2>3. QED
    BY <2>1, <2>2 DEF w
<1>4. CASE a.settled /\ ok
  <2>1. b = v
    BY <1>1, <1>4 DEF Settled
  <2>2. v.pad = y.pad /\ v.salt = y.salt /\ v.context = y.context /\ v.instance = y.instance
    BY <1>1, <1>4
  <2>3. Named(y.md, v.digest)
    <3>1. CASE mdname # ""
      BY <1>1, <1>4, <3>1 DEF DigestAsked, digest
    <3>2. CASE mdname = "" /\ "digest" \in DOMAIN params
      BY <1>1, <1>4, <3>2 DEF DigestAsked, DigestGiven, Given, digest
    <3>3. CASE mdname = "" /\ "digest" \notin DOMAIN params
      <4>1. a.digest # ""
        BY NoneAssumption DEF AskedType, DigestNames
      <4>2. y.md = x.md /\ digest = a.digest
        BY <1>4, <3>3, <4>1 DEF DigestAsked, DigestGiven, Given, digest
      <4>3. QED
        BY <1>1, <1>4, <4>2
    <3>4. QED
      BY <3>1, <3>2, <3>3
  <2>4. v \in AskedType
    <3>1. /\ v.pad \in {"pkcs1", "pss"} /\ v.salt \in Int /\ v.context \in Messages
          /\ v.instance \in Instances \cup {None}
      BY <2>2 DEF CtxType
    <3>2. /\ a.settled \in BOOLEAN /\ a.fips \in BOOLEAN /\ a.data \in Messages
          /\ a.opened \in DigestNames \cup {None}
      BY DEF AskedType
    <3>3. QED
      BY ONLY <1>1, <1>2, <3>1, <3>2 DEF AskedType
  <2>5. AsAsked(y, v)
    BY <1>1, <1>3, <1>4, <2>2, <2>3 DEF AsAsked
  <2>6. QED
    BY <2>1, <2>4, <2>5
<1>5. CASE ~ (a.settled /\ ok)
  <2> DEFINE n == [NothingAsked EXCEPT !.settled = FALSE, !.fips = v.fips]
  <2>1. b = n
    BY <1>1, <1>5 DEF Settled
  <2>2. n \in AskedType /\ n.settled = FALSE /\ n.fips = v.fips
    BY <1>1, NothingAskedTyped DEF AskedType
  <2>3. n \in AskedType /\ AsAsked(y, n)
    BY <1>1, <2>2 DEF AsAsked
  <2> HIDE DEF n
  <2>4. QED
    BY <2>1, <2>3
<1>6. QED
  BY <1>4, <1>5

\* The key that a context refers to
KeyOf(x) == IF x = None THEN None ELSE x.key

\* A context that goes from one key to another takes its reference along.
LEMMA ReferencesFollow ==
    ASSUME TypeOK, RefsExact, NEW c \in Ctxs, NEW y \in CtxType \cup {None},
           ctx' = [ctx EXCEPT ![c] = y], Rebound(KeyOf(ctx[c]), KeyOf(y))
    PROVE  RefsExact' /\ refs' \in [Keys -> Nat]
<1> DEFINE Users(k) == {d \in Ctxs : ctx[d] # None /\ ctx[d].key = k}
           from == KeyOf(ctx[c])
           to   == KeyOf(y)
<1>1. ASSUME NEW k \in Keys
      PROVE  refs'[k] = 1 + Cardinality(Users(k)') /\ refs'[k] \in Nat
  <2> DEFINE U == Users(k)
             V == Users(k)'
  <2>1. /\ refs[k] = 1 + Cardinality(U)
        /\ refs'[k] = refs[k] + (IF k = to THEN 1 ELSE 0) - (IF k = from THEN 1 ELSE 0)
    BY DEF RefsExact, Rebound
  <2>2. /\ c \in U <=> k = from
        /\ c \in V <=> k = to
        /\ \A d \in Ctxs : d # c => (d \in U <=> d \in V)
    BY NoneAssumption DEF TypeOK, KeyOf
  <2>3. U \subseteq Ctxs /\ V \subseteq Ctxs /\ IsFiniteSet(U)
    BY CtxsAssumption, FS_Subset
  <2> HIDE DEF Users, from, to, U, V
  <2>4. Cardinality(U) \in Nat
    BY <2>3, FS_CardinalityType
  <2>5. CASE k = from /\ k # to
    <3>1. V = U \ {c} /\ c \in U
      BY <2>2, <2>3, <2>5
    <3>2. Cardinality(V) = Cardinality(U) - 1
      BY <2>3, <3>1, FS_RemoveElement
    <3>3. IsFiniteSet(V)
      BY <2>3, <3>1, FS_Subset
    <3>4. Cardinality(V) \in Nat
      BY <3>3, FS_CardinalityType
    <3>5. QED
      BY <2>1, <2>4, <2>5, <3>2, <3>4 DEF U, V
  <2>6. CASE k # from /\ k = to
    <3>1. V = U \cup {c} /\ c \notin U
      BY <2>2, <2>3, <2>6
    <3>2. Cardinality(V) = Cardinality(U) + 1
      BY <2>3, <3>1, FS_AddElement
    <3>3. QED
      BY <2>1, <2>4, <2>6, <3>2 DEF U, V
  <2>7. CASE (k = from) <=> (k = to)
    <3>1. V = U
      BY <2>2, <2>3, <2>7
    <3>2. QED
      BY <2>1, <2>4, <2>7, <3>1 DEF U, V
  <2>8. QED
    BY <2>5, <2>6, <2>7
<1>2. refs' = [k \in Keys |-> refs'[k]]
  BY DEF Rebound
<1>3. QED
  BY <1>1, <1>2 DEF RefsExact

\* A step of one context that leaves it sound preserves the invariant.
LEMMA OneContext ==
    ASSUME SignatureInv, NEW c \in Ctxs, NEW y \in CtxType \cup {None}, NEW a \in AskedType,
           ctx' = [ctx EXCEPT ![c] = y], asked' = [asked EXCEPT ![c] = a],
           Rebound(KeyOf(ctx[c]), KeyOf(y)),
           y # None => /\ Consistent(y) /\ AsAsked(y, a)
                       /\ y.key = None => y.op \in {"dsign", "dverify"}
    PROVE  SignatureInv'
<1>1. RefsExact' /\ refs' \in [Keys -> Nat]
  BY ReferencesFollow DEF SignatureInv
<1>2. TypeOK'
  BY <1>1 DEF SignatureInv, TypeOK
<1>3. ContextsSound'
  BY DEF SignatureInv, ContextsSound, TypeOK
<1>4. QED
  BY <1>1, <1>2, <1>3 DEF SignatureInv

\* So does one that leaves it with the key it had.
LEMMA OneContextSameKey ==
    ASSUME SignatureInv, NEW c \in Ctxs, NEW y \in CtxType \cup {None}, NEW a \in AskedType,
           ctx' = [ctx EXCEPT ![c] = y], asked' = [asked EXCEPT ![c] = a],
           UNCHANGED refs, KeyOf(ctx[c]) = KeyOf(y),
           y # None => /\ Consistent(y) /\ AsAsked(y, a)
                       /\ y.key = None => y.op \in {"dsign", "dverify"}
    PROVE  SignatureInv'
<1>1. Rebound(KeyOf(ctx[c]), KeyOf(y))
  BY DEF SignatureInv, TypeOK, Rebound
<1>2. QED
  BY <1>1, OneContext

-----------------------------------------------------------------------------
(***************************************************************************)
(* Every step preserves the invariant                                      *)
(***************************************************************************)
LEMMA InitSignature ==
    ASSUME Init
    PROVE  SignatureInv
<1>1. TypeOK /\ ContextsSound
  BY NothingAskedTyped DEF Init, TypeOK, ContextsSound
<1>2. ASSUME NEW k \in Keys
      PROVE  refs[k] = 1 + Cardinality({c \in Ctxs : ctx[c] # None /\ ctx[c].key = k})
  <2>1. {c \in Ctxs : ctx[c] # None /\ ctx[c].key = k} = {}
    BY DEF Init
  <2>2. QED
    BY <2>1, FS_EmptySet DEF Init
<1>3. QED
  BY <1>1, <1>2 DEF SignatureInv, RefsExact

\* A fresh context keeps the reference that bind_key took only if it is kept.
LEMMA BeginStep ==
    ASSUME SignatureInv, NEW c \in Ctxs, NEW k \in Keys,
           NEW op \in {"sign", "verify", "dsign", "dverify"}, NEW fips \in BOOLEAN,
           NEW mdname \in MdNames, NEW params \in ParamSets,
           Begin(c, k, op, fips, mdname, params)
    PROVE  SignatureInv'
<1> DEFINE x == [FreshCtx(fips) EXCEPT !.op = op]
           a == [NothingAsked EXCEPT !.fips = fips]
<1>1. /\ x \in CtxType /\ x.op = op /\ x.key = None /\ x.fips = fips /\ x.md = None
      /\ x.mdctx = None /\ x.digest = "NONE" /\ x.pad = "pkcs1"
      /\ x.context = <<>> /\ x.instance = None
  <2> DEFINE empty == <<>>
             minus == -1
  <2>1. empty \in Messages /\ minus \in Int
    BY MessagesAreSequences, NothingAskedTyped DEF AskedType, NothingAsked
  <2>2. x = [op |-> op, key |-> None, fips |-> fips, fipsPub |-> None,
             md |-> None, digest |-> "NONE", mdctx |-> None,
             pad |-> "pkcs1", salt |-> minus, context |-> empty, instance |-> None]
    BY DEF FreshCtx
  <2> HIDE DEF minus, empty, x
  <2>3. x \in CtxType
    BY <2>1, <2>2 DEF CtxType
  <2>4. QED
    BY <2>2, <2>3 DEF empty
<1>2. x.salt = NothingAsked.salt
  BY DEF FreshCtx, NothingAsked
<1>3. /\ a \in AskedType /\ a.fips = fips /\ a.digest = None /\ a.pad = "pkcs1"
      /\ a.salt = NothingAsked.salt /\ a.context = <<>> /\ a.instance = None
      /\ a.data = <<>>
  <2>1. /\ NothingAsked.digest = None /\ NothingAsked.pad = "pkcs1"
        /\ NothingAsked.context = <<>> /\ NothingAsked.instance = None
        /\ NothingAsked.data = <<>>
    BY DEF NothingAsked
  <2>2. QED
    BY <2>1, NothingAskedTyped DEF AskedType
<1>4. /\ ctx[c] = None
      /\ op \in {"sign", "verify"} => mdname = "" /\ ~ OneShot(k)
  BY DEF Begin
<1>5. PICK r \in InitResults(x, k, op, mdname, params) :
        LET kept == r.ok \/ (op \in {"dsign", "dverify"} /\ mdname # "")
            y    == IF kept THEN r.x ELSE None
        IN  /\ ctx' = [ctx EXCEPT ![c] = y]
            /\ Rebound(None, IF kept THEN y.key ELSE None)
            /\ asked' = [asked EXCEPT ![c] =
                  IF ~ kept THEN NothingAsked
                  ELSE Settled(Opened(WithParams(a, params, mdname)), r.ok)]
  BY DEF Begin
<1> HIDE DEF x, a
<1>6. Initialisable(x, k)
  BY <1>1, <1>4 DEF Initialisable, Consistent, DigestOf
<1>7. Initialised(x, k, params, mdname, r)
  BY <1>1, <1>4, <1>5, <1>6, InitSound
<1> DEFINE w == Opened(WithParams(a, params, mdname))
           b == Settled(w, r.ok)
           kept == r.ok \/ (op \in {"dsign", "dverify"} /\ mdname # "")
<1>8. b \in AskedType /\ AsAsked(r.x, b)
  <2>1. /\ r.x \in CtxType /\ r.ok \in BOOLEAN /\ r.x.fips = x.fips /\ a.fips = x.fips
        /\ a \in AskedType /\ mdname \in DigestNames \cup {""}
    BY <1>1, <1>3, <1>7, MdNamesAssumption DEF Initialised
  <2>2. a.settled => /\ Named(x.md, a.digest) /\ x.pad = a.pad /\ x.salt = a.salt
                     /\ x.context = a.context /\ x.instance = a.instance
    BY <1>1, <1>2, <1>3 DEF Named
  <2>3. r.ok => /\ DigestAsked(r.x.md, params, mdname, x)
                /\ r.x.pad = Given(params, "pad", x.pad)
                /\ r.x.salt = Given(params, "salt", x.salt)
                /\ r.x.context = Given(params, "context", x.context)
                /\ r.x.instance = Given(params, "instance", x.instance)
                /\ r.x.mdctx # None =>
                      r.x.mdctx.data = <<>> /\ r.x.mdctx.md = r.x.md
    BY <1>7 DEF Initialised
  <2>4. a.settled /\ r.ok /\ r.x.mdctx # None => r.x.mdctx.data = a.data
    BY <1>3, <2>3
  <2> HIDE DEF b, w
  <2>5. w = Opened(WithParams(a, params, mdname))
    BY DEF w
  <2>6. Settled(w, r.ok) \in AskedType /\ AsAsked(r.x, Settled(w, r.ok))
    BY <2>1, <2>2, <2>3, <2>4, <2>5, AskedTogether
  <2>7. QED
    BY <2>6 DEF b
<1> HIDE DEF b
<1>9. CASE kept
  <2>1. /\ ctx' = [ctx EXCEPT ![c] = r.x] /\ Rebound(None, r.x.key)
        /\ asked' = [asked EXCEPT ![c] = b]
    BY <1>5, <1>9 DEF b
  <2>2. r.x \in CtxType /\ r.x # None /\ Consistent(r.x)
    BY <1>7, NoneAssumption DEF Initialised
  <2>3. r.x.key = None => r.x.op \in {"dsign", "dverify"}
    BY <1>1, <1>7, <1>9 DEF Initialised
  <2>4. Rebound(KeyOf(ctx[c]), KeyOf(r.x))
    BY <1>4, <2>1, <2>2 DEF KeyOf
  <2>5. QED
    BY <1>8, <2>1, <2>2, <2>3, <2>4, OneContext
<1>10. CASE ~ kept
  <2>1. /\ ctx' = [ctx EXCEPT ![c] = None] /\ Rebound(None, None)
        /\ asked' = [asked EXCEPT ![c] = NothingAsked]
    BY <1>5, <1>10
  <2>2. QED
    BY <1>4, <2>1, NothingAskedTyped, OneContext DEF KeyOf
<1>11. QED
  BY <1>9, <1>10

\* Initialising again keeps the key and starts with no data.
LEMMA AgainStep ==
    ASSUME SignatureInv, NEW c \in Ctxs, NEW mdname \in MdNames,
           NEW params \in ParamSets, Again(c, mdname, params)
    PROVE  /\ SignatureInv'
           /\ ctx'[c].mdctx # None =>
                 ctx'[c].mdctx = ctx[c].mdctx \/ ~ ctx'[c].mdctx.final
<1> DEFINE x == ctx[c]
           a == [asked[c] EXCEPT !.data = <<>>]
<1>1. /\ x # None /\ x \in CtxType /\ Consistent(x) /\ x.key # None
      /\ x.op \in {"dsign", "dverify"} /\ AsAsked(x, asked[c]) /\ asked[c] \in AskedType
  BY DEF Again, Stream, SignatureInv, TypeOK, ContextsSound
<1>2. PICK r \in InitResults(x, None, x.op, mdname, params) :
        /\ ctx' = [ctx EXCEPT ![c] = r.x]
        /\ asked' = [asked EXCEPT ![c] =
              Settled(Opened(WithParams(a, params, mdname)), r.ok)]
        /\ UNCHANGED refs
  BY DEF Again, SignatureInv, TypeOK
<1>3. /\ a \in AskedType /\ a.settled = asked[c].settled /\ a.fips = asked[c].fips
      /\ a.digest = asked[c].digest /\ a.pad = asked[c].pad /\ a.salt = asked[c].salt
      /\ a.context = asked[c].context /\ a.instance = asked[c].instance
      /\ a.opened = asked[c].opened
      /\ a.data = <<>>
  BY <1>1, MessagesAreSequences DEF AskedType
<1> HIDE DEF x, a
<1>4. Initialisable(x, None)
  BY <1>1 DEF Initialisable
<1>5. Initialised(x, None, params, mdname, r)
  BY <1>1, <1>2, <1>4, InitSound
<1> DEFINE w == Opened(WithParams(a, params, mdname))
           b == Settled(w, r.ok)
<1>6. b \in AskedType /\ AsAsked(r.x, b)
  <2>1. /\ r.x \in CtxType /\ r.ok \in BOOLEAN /\ r.x.fips = x.fips /\ a.fips = x.fips
        /\ a \in AskedType /\ mdname \in DigestNames \cup {""}
    BY <1>1, <1>3, <1>5, MdNamesAssumption DEF Initialised, AsAsked
  <2>2. a.settled => /\ Named(x.md, a.digest) /\ x.pad = a.pad /\ x.salt = a.salt
                     /\ x.context = a.context /\ x.instance = a.instance
    BY <1>1, <1>3 DEF AsAsked
  <2>3. r.ok => /\ DigestAsked(r.x.md, params, mdname, x)
                /\ r.x.pad = Given(params, "pad", x.pad)
                /\ r.x.salt = Given(params, "salt", x.salt)
                /\ r.x.context = Given(params, "context", x.context)
                /\ r.x.instance = Given(params, "instance", x.instance)
                /\ r.x.mdctx # None =>
                      r.x.mdctx.data = <<>> /\ r.x.mdctx.md = r.x.md
    BY <1>5 DEF Initialised
  <2>4. a.settled /\ r.ok /\ r.x.mdctx # None => r.x.mdctx.data = a.data
    BY <1>3, <2>3
  <2> HIDE DEF b, w
  <2>5. w = Opened(WithParams(a, params, mdname))
    BY DEF w
  <2>6. Settled(w, r.ok) \in AskedType /\ AsAsked(r.x, Settled(w, r.ok))
    BY <2>1, <2>2, <2>3, <2>4, <2>5, AskedTogether
  <2>7. QED
    BY <2>6 DEF b
<1> HIDE DEF b
<1>7. /\ r.x \in CtxType /\ r.x # None /\ Consistent(r.x) /\ r.x.key = x.key
      /\ r.x.mdctx # None => r.x.mdctx = x.mdctx \/ ~ r.x.mdctx.final
  BY <1>5, NoneAssumption DEF Initialised, KeyFor
<1>8. SignatureInv'
  <2>1. KeyOf(ctx[c]) = KeyOf(r.x)
    BY <1>1, <1>7 DEF KeyOf, x
  <2>2. ctx' = [ctx EXCEPT ![c] = r.x] /\ asked' = [asked EXCEPT ![c] = b]
    BY <1>2 DEF b
  <2>3. QED
    BY <1>1, <1>2, <1>6, <1>7, <2>1, <2>2, OneContextSameKey
<1>9. QED
  BY <1>2, <1>7, <1>8 DEF x, SignatureInv, TypeOK

\* A typed setter is an array of parameters.
LEMMA SetParamsStep ==
    ASSUME SignatureInv, NEW c \in Ctxs, NEW params \in ParamSets, SetParams(c, params)
    PROVE  SignatureInv' /\ ctx'[c].mdctx = ctx[c].mdctx
<1> DEFINE x == ctx[c]
           a == asked[c]
           r == SetCtxParams(x, params)
           w == WithParams(a, params, "")
           b == Settled(w, r.ok)
<1>1. /\ x # None /\ x \in CtxType /\ Consistent(x) /\ x.key # None
      /\ AsAsked(x, a) /\ a \in AskedType
  BY DEF SetParams, SignatureInv, TypeOK, ContextsSound
<1>2. /\ ctx' = [ctx EXCEPT ![c] = r.x] /\ UNCHANGED refs
      /\ asked' = [asked EXCEPT ![c] = b]
  BY DEF SetParams, SignatureInv, TypeOK
<1> HIDE DEF x, a, r
<1>3. /\ Sound(r) /\ Bound(x, r.x) /\ r.x.mdctx = x.mdctx
      /\ r.ok => TakesParams(x, r.x, params)
  BY <1>1, ParamsTaken DEF r
<1>4. b \in AskedType /\ AsAsked(r.x, b)
  <2>1. /\ r.x \in CtxType /\ r.ok \in BOOLEAN /\ r.x.fips = x.fips /\ a.fips = x.fips
    BY <1>1, <1>3 DEF Sound, Bound, AsAsked
  <2>2. a.settled => /\ Named(x.md, a.digest) /\ x.pad = a.pad /\ x.salt = a.salt
                     /\ x.context = a.context /\ x.instance = a.instance
                     /\ x.mdctx # None =>
                           x.mdctx.data = a.data /\ x.mdctx.md.name = a.opened
    BY <1>1 DEF AsAsked
  <2>3. r.ok => /\ DigestAsked(r.x.md, params, "", x)
                /\ r.x.pad = Given(params, "pad", x.pad)
                /\ r.x.salt = Given(params, "salt", x.salt)
                /\ r.x.context = Given(params, "context", x.context)
                /\ r.x.instance = Given(params, "instance", x.instance)
    BY <1>3 DEF TakesParams, DigestAsked
  <2>4. a.settled /\ r.ok /\ r.x.mdctx # None =>
           r.x.mdctx.data = a.data /\ r.x.mdctx.md.name = a.opened
    BY <1>3, <2>2
  <2> HIDE DEF b, w
  <2>5. w = WithParams(a, params, "")
    BY DEF w
  <2>6. Settled(w, r.ok) \in AskedType /\ AsAsked(r.x, Settled(w, r.ok))
    BY <1>1, <2>1, <2>2, <2>3, <2>4, <2>5, AskedTogether
  <2>7. QED
    BY <2>6 DEF b
<1> HIDE DEF b
<1>5. /\ r.x \in CtxType /\ r.x # None /\ Consistent(r.x) /\ r.x.key = x.key
      /\ r.x.key # None
  BY <1>3, NoneAssumption DEF Sound, Bound
<1>6. SignatureInv'
  <2>1. KeyOf(ctx[c]) = KeyOf(r.x)
    BY <1>1, <1>5 DEF KeyOf, x
  <2>2. QED
    BY <1>2, <1>4, <1>5, <2>1, OneContextSameKey
<1>7. QED
  BY <1>2, <1>3, <1>6 DEF x, SignatureInv, TypeOK

\* A stream goes on with its digest.
LEMMA StreamGoesOn ==
    ASSUME NEW x \in CtxType, Consistent(x), x.mdctx # None,
           NEW m \in Streams, m.md = x.mdctx.md,
           NEW y, y = [x EXCEPT !.mdctx = m]
    PROVE  /\ y \in CtxType /\ y # None /\ Consistent(y) /\ y.mdctx = m /\ y.key = x.key
           /\ y.op = x.op /\ y.fips = x.fips /\ y.md = x.md /\ y.pad = x.pad
           /\ y.salt = x.salt /\ y.context = x.context /\ y.instance = x.instance
<1>1. /\ y \in CtxType /\ y.mdctx = m /\ y.key = x.key /\ y.op = x.op /\ y.fips = x.fips
      /\ y.fipsPub = x.fipsPub /\ y.md = x.md /\ y.digest = x.digest /\ y.pad = x.pad
      /\ y.salt = x.salt /\ y.context = x.context /\ y.instance = x.instance
  BY DEF CtxType
<1>2. Consistent(y)
  BY <1>1 DEF Consistent, RequiresFips
<1>3. QED
  BY <1>1, <1>2, NoneAssumption

\* The application's data are remembered for a context that keeps none itself.
LEMMA DataGiven ==
    ASSUME SignatureInv, NEW c \in Ctxs, NEW data \in Messages,
           ctx[c] # None, ctx[c].mdctx = None, Gives(c, data), UNCHANGED <<ctx, refs>>
    PROVE  SignatureInv'
<1> DEFINE a == [asked[c] EXCEPT !.data = IF asked[c].settled THEN data ELSE @]
<1>1. /\ ctx[c] \in CtxType /\ asked[c] \in AskedType /\ Consistent(ctx[c])
      /\ AsAsked(ctx[c], asked[c])
      /\ ctx[c].key = None => ctx[c].op \in {"dsign", "dverify"}
  BY DEF SignatureInv, TypeOK, ContextsSound
<1>2. /\ asked' = [asked EXCEPT ![c] = a] /\ ctx' = [ctx EXCEPT ![c] = ctx[c]]
      /\ UNCHANGED refs
  BY DEF Gives, SignatureInv, TypeOK
<1>3. /\ a \in AskedType /\ a.settled = asked[c].settled /\ a.fips = asked[c].fips
      /\ a.digest = asked[c].digest /\ a.pad = asked[c].pad /\ a.salt = asked[c].salt
      /\ a.context = asked[c].context /\ a.instance = asked[c].instance
      /\ a.opened = asked[c].opened
  BY <1>1 DEF AskedType
<1> HIDE DEF a
<1>4. AsAsked(ctx[c], a)
  BY <1>1, <1>3 DEF AsAsked
<1>5. QED
  BY <1>1, <1>2, <1>3, <1>4, OneContextSameKey

\* A chunk goes to the digest and to what was asked for.
LEMMA UpdateStep ==
    ASSUME SignatureInv, NEW c \in Ctxs, NEW chunk \in Chunks, Update(c, chunk)
    PROVE  SignatureInv' /\ ctx'[c].mdctx.final = ctx[c].mdctx.final
<1> DEFINE x == ctx[c]
           m == [x.mdctx EXCEPT !.data = Append(@, chunk)]
           y == [x EXCEPT !.mdctx = m]
           data == Append(asked[c].data, chunk)
           a == [asked[c] EXCEPT !.data = IF asked[c].settled THEN data ELSE @]
<1>1. /\ x # None /\ x.mdctx # None /\ Len(x.mdctx.data) < MaxChunks
      /\ x \in CtxType /\ asked[c] \in AskedType /\ Consistent(x) /\ AsAsked(x, asked[c])
      /\ x.mdctx \in Streams
  BY DEF Update, Stream, SignatureInv, TypeOK, ContextsSound, CtxType
<1>2. /\ ctx' = [ctx EXCEPT ![c] = y] /\ asked' = [asked EXCEPT ![c] = a]
      /\ UNCHANGED refs
  BY DEF Update, Gives, SignatureInv, TypeOK
<1>3. /\ m \in Streams /\ m.md = x.mdctx.md /\ m.data = Append(x.mdctx.data, chunk)
      /\ m.final = x.mdctx.final
  BY <1>1, MessagesAreSequences DEF Streams
<1>4. asked[c].settled => asked[c].data = x.mdctx.data /\ data \in Messages
  BY <1>1, <1>3, MessagesAreSequences DEF AsAsked, Streams
<1>5. /\ a \in AskedType /\ a.settled = asked[c].settled /\ a.fips = asked[c].fips
      /\ a.digest = asked[c].digest /\ a.pad = asked[c].pad /\ a.salt = asked[c].salt
      /\ a.context = asked[c].context /\ a.instance = asked[c].instance
      /\ a.opened = asked[c].opened
      /\ asked[c].settled => a.data = data
  <2> HIDE DEF data
  <2>1. QED
    BY <1>1, <1>4 DEF AskedType
<1> HIDE DEF x, m, a
<1>6. /\ y \in CtxType /\ y # None /\ Consistent(y) /\ y.mdctx = m /\ y.key = x.key
      /\ y.op = x.op /\ y.fips = x.fips /\ y.md = x.md /\ y.pad = x.pad
      /\ y.salt = x.salt /\ y.context = x.context /\ y.instance = x.instance
  BY <1>1, <1>3, StreamGoesOn
<1> HIDE DEF y
<1>7. AsAsked(y, a)
  BY <1>1, <1>3, <1>4, <1>5, <1>6 DEF AsAsked
<1>8. SignatureInv'
  <2>1. KeyOf(ctx[c]) = KeyOf(y) /\ y.key # None
    BY <1>1, <1>6 DEF KeyOf, Consistent, x
  <2>2. QED
    BY <1>2, <1>5, <1>6, <1>7, <2>1, OneContextSameKey
<1>9. QED
  BY <1>2, <1>3, <1>6, <1>8 DEF x, SignatureInv, TypeOK

\* A stream is finished with the data it has.
LEMMA StreamFinished ==
    ASSUME SignatureInv, NEW c \in Ctxs, ctx[c] # None, ctx[c].mdctx # None,
           ctx' = [ctx EXCEPT ![c].mdctx.final = TRUE], UNCHANGED <<refs, asked>>
    PROVE  SignatureInv'
<1> DEFINE x == ctx[c]
           a == asked[c]
           m == [x.mdctx EXCEPT !.final = TRUE]
           y == [x EXCEPT !.mdctx = m]
<1>1. /\ x # None /\ x.mdctx # None /\ x \in CtxType /\ a \in AskedType
      /\ Consistent(x) /\ AsAsked(x, a) /\ x.mdctx \in Streams
  BY DEF SignatureInv, TypeOK, ContextsSound, CtxType
<1>2. /\ ctx' = [ctx EXCEPT ![c] = y] /\ asked' = [asked EXCEPT ![c] = a]
      /\ UNCHANGED refs
  BY DEF SignatureInv, TypeOK
<1>3. m \in Streams /\ m.md = x.mdctx.md /\ m.data = x.mdctx.data
  BY <1>1 DEF Streams
<1> HIDE DEF x, m, a
<1>4. /\ y \in CtxType /\ y # None /\ Consistent(y) /\ y.mdctx = m /\ y.key = x.key
      /\ y.op = x.op /\ y.fips = x.fips /\ y.md = x.md /\ y.pad = x.pad
      /\ y.salt = x.salt /\ y.context = x.context /\ y.instance = x.instance
  BY <1>1, <1>3, StreamGoesOn
<1> HIDE DEF y
<1>5. AsAsked(y, a)
  BY <1>1, <1>3, <1>4 DEF AsAsked
<1>6. KeyOf(ctx[c]) = KeyOf(y) /\ y.key # None
  BY <1>1, <1>4 DEF KeyOf, Consistent, x
<1>7. PICK given \in AskedType : given = a
  BY <1>1
<1>8. PICK next \in CtxType \cup {None} : next = y
  BY <1>4
<1>9. /\ ctx' = [ctx EXCEPT ![c] = next] /\ asked' = [asked EXCEPT ![c] = given]
      /\ KeyOf(ctx[c]) = KeyOf(next) /\ next.key # None
      /\ Consistent(next) /\ AsAsked(next, given)
  BY <1>2, <1>4, <1>5, <1>6, <1>7, <1>8
<1>10. QED
  BY ONLY SignatureInv, <1>2, <1>9, OneContextSameKey

\* The three variables of a context are as they were.
LEMMA NothingChanges ==
    ASSUME SignatureInv, UNCHANGED <<ctx, refs, asked>>
    PROVE  SignatureInv'
BY DEF SignatureInv, TypeOK, ContextsSound, RefsExact

\* awskms_sig_digest_sign_final leaves the stream as it is, or finishes it.
LEMMA FinalStep ==
    ASSUME SignatureInv, NEW c \in Ctxs, NEW size, Final(c, size)
    PROVE  SignatureInv'
<1>1. ctx[c] # None /\ ctx[c].mdctx # None /\ UNCHANGED <<refs, asked>>
  BY DEF Final, Stream
<1>2. UNCHANGED ctx \/ ctx' = [ctx EXCEPT ![c].mdctx.final = TRUE]
  BY DEF Final
<1>3. QED
  BY <1>1, <1>2, StreamFinished, NothingChanges

\* Operations without a stream, signing or verifying what they are given
LEMMA GivenStep ==
    ASSUME SignatureInv, NEW c \in Ctxs,
           \/ \E size \in Sizes, tbs \in Digests : Sign(c, tbs, size)
           \/ \E tbs \in Digests : Verify(c, tbs)
           \/ \E size \in Sizes, msg \in Messages : OneShotSign(c, msg, size)
           \/ \E msg \in Messages : OneShotVerify(c, msg)
    PROVE  SignatureInv'
<1>1. ctx[c] # None /\ Consistent(ctx[c])
  BY DEF Sign, Verify, OneShotSign, OneShotVerify, Stream, SignatureInv,
         ContextsSound
<1>2. ctx[c].mdctx = None
  BY <1>1 DEF Sign, Verify, OneShotSign, OneShotVerify, Consistent
<1>3. PICK data \in Messages : Gives(c, data) /\ UNCHANGED <<ctx, refs>>
  BY DigestsAssumption DEF Sign, Verify, OneShotSign, OneShotVerify
<1>4. QED
  BY <1>1, <1>2, <1>3, DataGiven

\* awskms_sig_dupctx takes a reference for the copy, and none if it fails.
LEMMA DupCtxStep ==
    ASSUME SignatureInv, NEW c \in Ctxs, NEW d \in Ctxs, DupCtx(c, d)
    PROVE  SignatureInv'
<1>1. CASE UNCHANGED <<ctx, refs, asked>>
  BY <1>1, NothingChanges
<1>2. CASE /\ ctx' = [ctx EXCEPT ![d] = Copy(ctx[c])]
           /\ Rebound(None, ctx'[d].key)
           /\ asked' = [asked EXCEPT ![d] = asked[c]]
  <2>1. /\ ctx[c] # None /\ ctx[d] = None /\ ctx[c] \in CtxType /\ asked[c] \in AskedType
        /\ Consistent(ctx[c]) /\ AsAsked(ctx[c], asked[c])
        /\ ctx[c].key = None => ctx[c].op \in {"dsign", "dverify"}
    BY DEF DupCtx, SignatureInv, TypeOK, ContextsSound
  <2>2. ctx' = [ctx EXCEPT ![d] = ctx[c]] /\ ctx'[d] = ctx[c]
    BY <1>2 DEF Copy, SignatureInv, TypeOK
  <2>3. Rebound(KeyOf(ctx[d]), KeyOf(ctx[c]))
    BY <1>2, <2>1, <2>2 DEF KeyOf
  <2>4. QED
    BY <1>2, <2>1, <2>2, <2>3, OneContext
<1>3. QED
  BY <1>1, <1>2 DEF DupCtx

\* awskms_sig_freectx gives the reference of the context back.
LEMMA FreeCtxStep ==
    ASSUME SignatureInv, NEW c \in Ctxs, FreeCtx(c)
    PROVE  SignatureInv'
<1>1. /\ ctx[c] # None /\ ctx' = [ctx EXCEPT ![c] = None]
      /\ Rebound(ctx[c].key, None) /\ asked' = [asked EXCEPT ![c] = NothingAsked]
  BY DEF FreeCtx
<1>2. Rebound(KeyOf(ctx[c]), KeyOf(None))
  BY <1>1 DEF KeyOf
<1>3. QED
  BY <1>1, <1>2, NothingAskedTyped, OneContext

\* Every step keeps the invariant.
LEMMA StepSignature ==
    ASSUME SignatureInv, [Next]_vars
    PROVE  SignatureInv'
<1>1. ASSUME NEW c \in Ctxs, NEW k \in Keys,
             NEW op \in {"sign", "verify", "dsign", "dverify"}, NEW fips \in BOOLEAN,
             NEW mdname \in MdNames, NEW params \in ParamSets,
             Begin(c, k, op, fips, mdname, params)
      PROVE  SignatureInv'
  BY <1>1, BeginStep
<1>2. ASSUME NEW c \in Ctxs, NEW mdname \in MdNames, NEW params \in ParamSets,
             Again(c, mdname, params)
      PROVE  SignatureInv'
  BY <1>2, AgainStep
<1>3. ASSUME NEW c \in Ctxs, NEW params \in ParamSets, SetParams(c, params)
      PROVE  SignatureInv'
  BY <1>3, SetParamsStep
<1>4. ASSUME NEW c \in Ctxs, NEW chunk \in Chunks, Update(c, chunk)
      PROVE  SignatureInv'
  BY <1>4, UpdateStep
<1>5. ASSUME NEW c \in Ctxs, NEW size \in Sizes, Final(c, size)
      PROVE  SignatureInv'
  BY <1>5, FinalStep
<1>6. ASSUME NEW c \in Ctxs,
             \/ \E size \in Sizes, tbs \in Digests : Sign(c, tbs, size)
             \/ \E tbs \in Digests : Verify(c, tbs)
             \/ \E size \in Sizes, msg \in Messages : OneShotSign(c, msg, size)
             \/ \E msg \in Messages : OneShotVerify(c, msg)
      PROVE  SignatureInv'
  BY <1>6, GivenStep
<1>7. ASSUME NEW c \in Ctxs, VerifyFinal(c)
      PROVE  SignatureInv'
  BY <1>7, StreamFinished DEF VerifyFinal, Stream
<1>8. ASSUME NEW c \in Ctxs, NEW d \in Ctxs, DupCtx(c, d)
      PROVE  SignatureInv'
  BY <1>8, DupCtxStep
<1>9. ASSUME NEW c \in Ctxs, FreeCtx(c)
      PROVE  SignatureInv'
  BY <1>9, FreeCtxStep
<1>10. CASE UNCHANGED vars \/ \E c \in Ctxs : Probe(c)
  BY <1>10, NothingChanges DEF vars, Probe
<1>11. QED
  BY <1>1, <1>2, <1>3, <1>4, <1>5, <1>6, <1>7, <1>8, <1>9, <1>10 DEF Next

-----------------------------------------------------------------------------
(***************************************************************************)
(* What is sent and what is verified                                       *)
(***************************************************************************)
\* The part of SignedAsAsked that is about the last request
RequestAsAsked ==
    LET q == exchange.request
        a == asked[exchange.ctx]
        family == Family[ctx[exchange.ctx].key]
    IN  q # None /\ a.settled =>
          /\ q.payload.data = a.data
          /\ q.type = "DIGEST" =>
                q.algorithm[2] = a.digest /\ family \in {"RSA", "EC"}
          /\ exchange.call = "final" => q.payload.md.name = a.opened
          /\ family = "RSA" => (q.algorithm[1] = "RSASSA_PSS") = (a.pad = "pss")
          /\ family = "RSA" /\ a.pad = "pss" =>
                a.salt \in {-1, -2, DigestSize[a.digest]}
          /\ IF family = "ML_DSA" THEN q.payload.context = a.context
             ELSE a.context = <<>>
          /\ a.instance # None => a.instance = "Ed25519" /\ family = "ED25519"

ExchangeInv ==
    /\ RequestAsAsked /\ AcceptedByKms /\ FipsThroughout
    /\ BilledSignatureDelivered /\ VerifiedAsAsked

\* awskms_signing_algorithm names the digest it was given, of a family that
\* signs digests, and the padding of RSA.
LEMMA AlgorithmNamesDigest ==
    ASSUME NEW k \in Keys, ~ OneShot(k), NEW digest, NEW pss \in BOOLEAN,
           digest \in {"NONE", "OTHER", "sha256", "sha384"},
           SigningAlgorithm(k, digest, pss) # None
    PROVE  /\ digest \in {"sha256", "sha384"}
           /\ SigningAlgorithm(k, digest, pss)[2] = digest
           /\ Family[k] \in {"RSA", "EC"}
           /\ Family[k] = "RSA" =>
                (SigningAlgorithm(k, digest, pss)[1] = "RSASSA_PSS") = pss
<1>1. Family[k] = "RSA" \/ Family[k] = "EC"
  BY FamilyAssumption DEF OneShot
<1>2. CASE Family[k] = "RSA"
  <2>1. SigningAlgorithm(k, digest, pss) =
          IF digest \in {"NONE", "OTHER"} THEN None
          ELSE <<IF pss THEN "RSASSA_PSS" ELSE "RSASSA_PKCS1_V1_5", digest>>
    BY <1>2 DEF SigningAlgorithm
  <2>2. digest \notin {"NONE", "OTHER"}
    BY <2>1
  <2>3. QED
    BY <1>2, <2>1, <2>2
<1>3. CASE Family[k] = "EC"
  <2>1. SigningAlgorithm(k, digest, pss) =
          IF digest = "sha256" THEN <<"ECDSA", digest>> ELSE None
    BY <1>3 DEF SigningAlgorithm
  <2>2. digest = "sha256"
    BY <2>1
  <2>3. QED
    BY <1>3, <2>1, <2>2
<1>4. QED
  BY <1>1, <1>2, <1>3

\* A signature that is paid for fits, and a request says what it was made of.
LEMMA KmsSignSends ==
    ASSUME NEW x, NEW algorithm, NEW type, NEW payload, NEW size \in Sizes,
           BufferFits(size), NEW s \in KmsSign(x, algorithm, type, payload, size)
    PROVE  /\ s.answered => s.ok
           /\ s.request # None =>
                /\ s.request.fips = RequiresFips(x) /\ s.request.algorithm = algorithm
                /\ s.request.type = type /\ s.request.payload = payload
<1> DEFINE request == [fips |-> RequiresFips(x), algorithm |-> algorithm,
                       type |-> type, payload |-> payload, size |-> size]
           Result(ok, sent, answered) ==
               [ok |-> ok, raised |-> IF ok THEN 0 ELSE 1,
                request |-> IF sent THEN request ELSE None, answered |-> answered]
<1>1. \/ s = Result(FALSE, FALSE, FALSE) \/ s = Result(FALSE, TRUE, FALSE)
      \/ \E len \in 1..Required : s = Result(len <= size, TRUE, TRUE)
  BY DEF KmsSign
<1>2. /\ request.fips = RequiresFips(x) /\ request.algorithm = algorithm
      /\ request.type = type /\ request.payload = payload
  OBVIOUS
<1> HIDE DEF request
<1>3. s.request = None \/ s.request = request
  BY <1>1
<1>4. s.answered => s.ok
  <2>1. \A len \in 1..Required : len <= size
    BY DEF BufferFits, Required, Sizes
  <2>2. CASE s = Result(FALSE, FALSE, FALSE) \/ s = Result(FALSE, TRUE, FALSE)
    <3>1. s.answered = FALSE
      BY <2>2
    <3>2. QED
      BY <3>1
  <2>3. ASSUME NEW len \in 1..Required, s = Result(len <= size, TRUE, TRUE)
        PROVE  s.ok
    <3>1. (len <= size) = TRUE
      BY <2>1
    <3>2. QED
      BY <2>3, <3>1
  <2>4. QED
    BY <1>1, <2>2, <2>3
<1>5. QED
  BY <1>2, <1>3, <1>4

\* What a signing call sends, if it sends anything
LEMMA SignDigestSends ==
    ASSUME NEW x, NEW tbs, NEW size \in Sizes, NEW s \in SignDigest(x, tbs, size)
    PROVE  /\ s.answered => s.ok
           /\ s.request # None =>
                /\ s.request.fips = RequiresFips(x) /\ s.request.algorithm = AlgorithmOf(x)
                /\ s.request.type = "DIGEST" /\ s.request.payload = tbs
                /\ DigestSignable(x, tbs)
<1>1. CASE s \in NotSent(0) \/ s \in NotSent(1)
  BY <1>1 DEF NotSent
<1>2. CASE /\ SizeKnown(x) /\ BufferFits(size) /\ DigestSignable(x, tbs)
           /\ s \in KmsSign(x, AlgorithmOf(x), "DIGEST", tbs, size)
  BY <1>2, KmsSignSends
<1>3. QED
  BY <1>1, <1>2 DEF SignDigest

\* The same for a message that is signed in one shot
LEMMA SignMessageSends ==
    ASSUME NEW x, NEW msg, NEW size \in Sizes, NEW s \in SignMessage(x, msg, size),
           x.key \in Keys, OneShot(x.key)
    PROVE  /\ s.answered => s.ok
           /\ s.request # None =>
                /\ s.request.fips = RequiresFips(x) /\ OneShotSignable(x, msg)
                /\ \/ /\ Family[x.key] = "ED25519" /\ s.request.type = "RAW"
                      /\ s.request.payload = [md |-> None, data |-> msg]
                   \/ /\ Family[x.key] = "ML_DSA" /\ s.request.type = "EXTERNAL_MU"
                      /\ s.request.payload = Mu(x, msg)
<1>1. CASE s \in NotSent(1)
  BY <1>1 DEF NotSent
<1>2. CASE /\ BufferFits(size) /\ OneShotSignable(x, msg) /\ Family[x.key] = "ED25519"
           /\ s \in KmsSign(x, SigningAlgorithm(x.key, "NONE", FALSE), "RAW",
                            [md |-> None, data |-> msg], size)
  <2> DEFINE payload == [md |-> None, data |-> msg]
             algorithm == SigningAlgorithm(x.key, "NONE", FALSE)
  <2> HIDE DEF payload, algorithm
  <2>1. s \in KmsSign(x, algorithm, "RAW", payload, size) /\ BufferFits(size)
    BY <1>2 DEF payload, algorithm
  <2>2. /\ s.answered => s.ok
        /\ s.request # None =>
              /\ s.request.fips = RequiresFips(x)
              /\ s.request.type = "RAW" /\ s.request.payload = payload
    BY <2>1, KmsSignSends
  <2>3. QED
    BY <1>2, <2>2 DEF payload
<1>3. CASE /\ BufferFits(size) /\ OneShotSignable(x, msg) /\ Family[x.key] # "ED25519"
           /\ s \in KmsSign(x, SigningAlgorithm(x.key, "NONE", FALSE), "EXTERNAL_MU",
                            Mu(x, msg), size)
  <2>1. Family[x.key] = "ML_DSA"
    BY <1>3 DEF OneShot
  <2> DEFINE payload == Mu(x, msg)
             algorithm == SigningAlgorithm(x.key, "NONE", FALSE)
  <2> HIDE DEF payload, algorithm
  <2>2. s \in KmsSign(x, algorithm, "EXTERNAL_MU", payload, size) /\ BufferFits(size)
    BY <1>3 DEF payload, algorithm
  <2>3. /\ s.answered => s.ok
        /\ s.request # None =>
              /\ s.request.fips = RequiresFips(x)
              /\ s.request.type = "EXTERNAL_MU" /\ s.request.payload = payload
    BY <2>2, KmsSignSends
  <2>4. QED
    BY <1>3, <2>1, <2>3 DEF payload
<1>4. QED
  BY <1>1, <1>2, <1>3 DEF SignMessage

\* The view of the public key that a context uses is its own key's, and FIPS
\* where the operation or the key is.
LEMMA PubkeyOfOwnKey ==
    ASSUME NEW x \in CtxType, Consistent(x), x.key # None
    PROVE  /\ OperationPubkey(x) # None => OperationPubkey(x).of = x.key
           /\ RequiresFips(x) => OperationPubkey(x).fips
<1>1. CASE x.fips /\ ~ KeyFips[x.key]
  BY <1>1 DEF OperationPubkey, Consistent
<1>2. CASE ~ (x.fips /\ ~ KeyFips[x.key])
  BY <1>2 DEF OperationPubkey, RequiresFips
<1>3. QED
  BY <1>1, <1>2

\* What an exchange that has sent and verified nothing says
Quiet(e) == e.request = None /\ e.check = None /\ ~ e.answered

\* Of such an exchange there is nothing to be said, ...
LEMMA QuietExchange ==
    ASSUME Quiet(exchange)
    PROVE  ExchangeInv
BY DEF Quiet, ExchangeInv, RequestAsAsked, AcceptedByKms, FipsThroughout,
       BilledSignatureDelivered, VerifiedAsAsked

\* The outcome of a signing call as it is seen
LEMMA SignedIs ==
    ASSUME NEW call, NEW c, NEW size, NEW s, Signed(call, c, size, s)
    PROVE  /\ exchange'.call = call /\ exchange'.ctx = c /\ exchange'.ok = s.ok
           /\ exchange'.request = s.request /\ exchange'.answered = s.answered
           /\ exchange'.check = None /\ exchange'.size = size
BY DEF Signed, Returned, NoExchange

\* sign_digest: a digest that is sent is the one that was asked for, of the length
\* that its algorithm wants.
LEMMA DigestExchange ==
    ASSUME NEW c \in Ctxs, NEW x \in CtxType, Consistent(x), x.key # None,
           ~ OneShot(x.key), NEW call, NEW tbs, NEW size \in Sizes,
           NEW s \in SignDigest(x, tbs, size), Signed(call, c, size, s),
           ctx'[c].key = x.key, AsAsked(x, asked'[c]),
           asked'[c].settled => tbs.data = asked'[c].data,
           call = "final" => tbs.md.fips = RequiresFips(x),
           call = "final" /\ asked'[c].settled => tbs.md.name = asked'[c].opened
    PROVE  ExchangeInv'
<1> DEFINE a == asked'[c]
           q == exchange'.request
<1>1. /\ exchange'.call = call /\ exchange'.ctx = c /\ exchange'.ok = s.ok
      /\ q = s.request /\ exchange'.answered = s.answered /\ exchange'.check = None
  BY SignedIs
<1>2. /\ s.answered => s.ok
      /\ q # None => /\ q.fips = RequiresFips(x) /\ q.algorithm = AlgorithmOf(x)
                     /\ q.type = "DIGEST" /\ q.payload = tbs
                     /\ DigestSignable(x, tbs)
  BY <1>1, SignDigestSends
<1>3. x.key \in Keys /\ Pss(x) \in BOOLEAN
      /\ x.digest \in {"NONE", "OTHER", "sha256", "sha384"}
  BY DEF CtxType, Pss
<1>4. q # None => /\ x.digest \in {"sha256", "sha384"} /\ q.algorithm[2] = x.digest
                  /\ Family[x.key] \in {"RSA", "EC"}
                  /\ Family[x.key] = "RSA" =>
                        (q.algorithm[1] = "RSASSA_PSS") = Pss(x)
                  /\ DigestLength(x.digest) = DigestSize[x.digest]
                  /\ ParamsSupported(x) /\ LengthOf(tbs) = DigestLength(x.digest)
                  /\ Pss(x) => SaltSatisfiable(x)
  BY <1>2, <1>3, AlgorithmNamesDigest
     DEF DigestSignable, AlgorithmOf, DigestLength
<1>5. RequestAsAsked'
  <2> SUFFICES ASSUME q # None, a.settled
               PROVE  /\ q.payload.data = a.data
                      /\ q.algorithm[2] = a.digest /\ Family[x.key] \in {"RSA", "EC"}
                      /\ call = "final" => q.payload.md.name = a.opened
                      /\ Family[x.key] = "RSA" =>
                            (q.algorithm[1] = "RSASSA_PSS") = (a.pad = "pss")
                      /\ Family[x.key] = "RSA" /\ a.pad = "pss" =>
                            a.salt \in {-1, -2, DigestSize[a.digest]}
                      /\ a.context = <<>> /\ a.instance = None
    BY <1>1 DEF RequestAsAsked
  <2>1. x.digest = DigestOf(x.md) /\ Named(x.md, a.digest)
    BY DEF Consistent, AsAsked
  <2>2. a.digest = x.digest
    BY <1>4, <2>1 DEF DigestOf, Named
  <2>3. x.pad = a.pad /\ x.salt = a.salt /\ x.context = a.context
        /\ x.instance = a.instance
    BY DEF AsAsked
  <2>4. a.context = <<>> /\ a.instance = None
    BY <1>4, <2>3 DEF ParamsSupported
  <2>5. Family[x.key] = "RSA" => Pss(x) = (a.pad = "pss")
    BY <2>3 DEF Pss
  <2>6. Family[x.key] = "RSA" /\ a.pad = "pss" =>
           a.salt \in {-1, -2, DigestSize[a.digest]}
    BY <1>4, <2>2, <2>3, <2>5 DEF SaltSatisfiable
  <2>7. Family[x.key] = "RSA" => (q.algorithm[1] = "RSASSA_PSS") = (a.pad = "pss")
    BY <1>4, <2>5
  <2>8. QED
    BY <1>2, <1>4, <2>2, <2>4, <2>6, <2>7
<1>6. AcceptedByKms'
  BY <1>1, <1>2, <1>4 DEF AcceptedByKms
<1>7. FipsThroughout'
  BY <1>1, <1>2 DEF FipsThroughout, RequiresFips, AsAsked
<1>8. BilledSignatureDelivered'
  BY <1>1, <1>2 DEF BilledSignatureDelivered
<1>9. VerifiedAsAsked'
  BY <1>1 DEF VerifiedAsAsked
<1>10. QED
  BY <1>5, <1>6, <1>7, <1>8, <1>9 DEF ExchangeInv

\* awskms_sig_oneshot_sign: the message, or mu of it under the own view of the
\* key
LEMMA MessageExchange ==
    ASSUME NEW c \in Ctxs, NEW x \in CtxType, Consistent(x), x.key # None,
           OneShot(x.key), NEW msg, NEW size \in Sizes,
           NEW s \in SignMessage(x, msg, size), Signed("oneshot", c, size, s),
           ctx'[c].key = x.key, AsAsked(x, asked'[c]),
           asked'[c].settled => msg = asked'[c].data
    PROVE  ExchangeInv'
<1> DEFINE a == asked'[c]
           q == exchange'.request
           raw == [md |-> None, data |-> msg]
<1>1. /\ exchange'.call = "oneshot" /\ exchange'.ctx = c /\ exchange'.ok = s.ok
      /\ q = s.request /\ exchange'.answered = s.answered /\ exchange'.check = None
  BY SignedIs
<1>2. x.key \in Keys
  BY DEF CtxType
<1>3. /\ s.answered => s.ok
      /\ q # None =>
            /\ q.fips = RequiresFips(x) /\ OneShotSignable(x, msg)
            /\ \/ Family[x.key] = "ED25519" /\ q.type = "RAW" /\ q.payload = raw
               \/ /\ Family[x.key] = "ML_DSA" /\ q.type = "EXTERNAL_MU"
                  /\ q.payload = Mu(x, msg)
  BY <1>1, <1>2, SignMessageSends
<1>4. raw.data = msg /\ Mu(x, msg).data = msg /\ Mu(x, msg).context = x.context
      /\ Mu(x, msg).tr = OperationPubkey(x)
  BY DEF Mu
<1> HIDE DEF raw
<1>5. RequestAsAsked'
  <2> SUFFICES ASSUME q # None, a.settled
               PROVE  /\ q.payload.data = a.data
                      /\ q.type # "DIGEST" /\ Family[x.key] # "RSA"
                      /\ IF Family[x.key] = "ML_DSA" THEN q.payload.context = a.context
                         ELSE a.context = <<>>
                      /\ a.instance # None =>
                            a.instance = "Ed25519" /\ Family[x.key] = "ED25519"
    BY <1>1 DEF RequestAsAsked
  <2>1. x.context = a.context /\ x.instance = a.instance
    BY DEF AsAsked
  <2>2. ParamsSupported(x)
    BY <1>3 DEF OneShotSignable
  <2>3. CASE Family[x.key] = "ED25519" /\ q.type = "RAW" /\ q.payload = raw
    BY <1>4, <2>1, <2>2, <2>3 DEF ParamsSupported
  <2>4. CASE /\ Family[x.key] = "ML_DSA" /\ q.type = "EXTERNAL_MU"
             /\ q.payload = Mu(x, msg)
    BY <1>4, <2>1, <2>2, <2>4 DEF ParamsSupported
  <2>5. QED
    BY <1>3, <2>3, <2>4
<1>6. AcceptedByKms'
  BY <1>1, <1>3, <1>4 DEF AcceptedByKms, OneShotSignable, RawSizeOk
<1>7. FipsThroughout'
  <2>1. RequiresFips(x) => OperationPubkey(x).fips
    BY PubkeyOfOwnKey
  <2>2. QED
    BY <1>1, <1>3, <1>4, <2>1 DEF FipsThroughout, RequiresFips, AsAsked
<1>8. BilledSignatureDelivered'
  BY <1>1, <1>3 DEF BilledSignatureDelivered
<1>9. VerifiedAsAsked'
  BY <1>1 DEF VerifiedAsAsked
<1>10. QED
  BY <1>5, <1>6, <1>7, <1>8, <1>9 DEF ExchangeInv

\* Verification is local, with the own view of the key and what was asked for.
LEMMA VerifyExchange ==
    ASSUME NEW c \in Ctxs, ctx[c] \in CtxType, Consistent(ctx[c]), NEW tbs,
           Verified("verify", c, tbs), ctx'[c].key = ctx[c].key,
           ctx'[c].op = ctx[c].op, AsAsked(ctx[c], asked'[c]),
           asked'[c].settled => tbs.data = asked'[c].data,
           asked'[c].settled /\ ctx[c].op = "dverify" /\ ~ OneShot(ctx[c].key) =>
              tbs.md.name = asked'[c].opened
    PROVE  ExchangeInv' /\ exchange'.call = "verify" /\ exchange'.ctx = c
<1> DEFINE x == ctx[c]
           a == asked'[c]
           v == exchange'.check
           known == OperationPubkey(x) # None
<1>1. /\ exchange'.request = None /\ exchange'.answered = FALSE
      /\ exchange'.call = "verify" /\ exchange'.ctx = c
      /\ v = IF known THEN Check(x, tbs) ELSE None
  BY DEF Verified, Returned, NoExchange
<1>2. /\ Check(x, tbs).pub = OperationPubkey(x) /\ Check(x, tbs).fips = RequiresFips(x)
      /\ Check(x, tbs).md = x.md /\ Check(x, tbs).pad = x.pad
      /\ Check(x, tbs).context = x.context /\ Check(x, tbs).tbs = tbs
  BY DEF Check
<1>3. known => x.key # None
  BY DEF OperationPubkey
<1>4. v # None => /\ v.pub.of = x.key /\ (RequiresFips(x) => v.pub.fips)
                  /\ v.fips = RequiresFips(x) /\ v.md = x.md /\ v.pad = x.pad
                  /\ v.context = x.context /\ v.tbs = tbs
  BY <1>1, <1>2, <1>3, PubkeyOfOwnKey
<1> HIDE DEF x, v
<1>5. RequestAsAsked' /\ AcceptedByKms' /\ BilledSignatureDelivered'
  BY <1>1 DEF RequestAsAsked, AcceptedByKms, BilledSignatureDelivered
<1>6. FipsThroughout'
  <2>1. x.md # None => x.md.fips = RequiresFips(x)
    BY DEF Consistent, x
  <2>2. QED
    BY <1>1, <1>4, <2>1 DEF FipsThroughout, RequiresFips, AsAsked, x, v
<1>7. VerifiedAsAsked'
  <2> SUFFICES ASSUME v # None, a.settled
               PROVE  /\ v.pub.of = x.key /\ v.tbs.data = a.data
                      /\ IF a.digest = None THEN v.md = None ELSE v.md.name = a.digest
                      /\ x.op = "dverify" /\ ~ OneShot(x.key) =>
                            v.tbs.md.name = a.opened
                      /\ v.pad = a.pad /\ v.context = a.context
    BY <1>1 DEF VerifiedAsAsked, x, v
  <2>1. x.pad = a.pad /\ x.context = a.context /\ Named(x.md, a.digest)
    BY DEF AsAsked, x
  <2>2. x.op = "dverify" /\ ~ OneShot(x.key) => v.tbs.md.name = a.opened
    BY <1>4 DEF x
  <2>3. QED
    BY <1>4, <2>1, <2>2 DEF Named, x
<1>8. QED
  BY <1>1, <1>5, <1>6, <1>7 DEF ExchangeInv

\* A call that neither signs nor verifies leaves nothing to be said of it.
LEMMA QuietAfter ==
    ASSUME Quiet(exchange')
    PROVE  ExchangeInv'
BY DEF Quiet, ExchangeInv, RequestAsAsked, AcceptedByKms, FipsThroughout,
       BilledSignatureDelivered, VerifiedAsAsked

\* Initialisations, setters and probes send and verify nothing.
LEMMA QuietCalls ==
    /\ Quiet(NoExchange)
    /\ \A call, c, ok, raised : Quiet(Returned(call, c, ok, raised))
BY DEF Quiet, NoExchange, Returned

\* The data of a call that gives it
LEMMA DataRecorded ==
    ASSUME TypeOK, NEW c \in Ctxs, NEW data, Gives(c, data)
    PROVE  /\ asked'[c].settled = asked[c].settled
           /\ asked'[c].settled => asked'[c].data = data
BY DEF TypeOK, AskedType, Gives

\* awskms_sig_sign
LEMMA SignExchange ==
    ASSUME SignatureInv, SignatureInv', NEW c \in Ctxs, NEW tbs, NEW size \in Sizes,
           Sign(c, tbs, size)
    PROVE  ExchangeInv'
<1> DEFINE x == ctx[c]
<1>1. /\ x \in CtxType /\ x # None /\ Consistent(x) /\ x.key # None
      /\ ~ OneShot(x.key) /\ ctx'[c] = x
  BY DEF Sign, SignatureInv, TypeOK, ContextsSound, Consistent
<1>2. AsAsked(x, asked'[c])
  <2>1. ContextsSound'
    BY DEF SignatureInv
  <2>2. QED
    BY <1>1, <2>1 DEF ContextsSound
<1>3. asked'[c].settled => tbs.data = asked'[c].data
  BY DataRecorded DEF Sign, SignatureInv
<1>4. PICK s \in SignDigest(x, tbs, size) : Signed("sign", c, size, s)
  BY DEF Sign
<1> HIDE DEF x
<1>5. QED
  BY <1>1, <1>2, <1>3, <1>4, DigestExchange

\* awskms_sig_digest_sign_final signs what has been given since the digest was
\* opened, with the digest fetched for the operation.
LEMMA FinalExchange ==
    ASSUME SignatureInv, NEW c \in Ctxs, NEW size \in Sizes, Final(c, size)
    PROVE  ExchangeInv'
<1> DEFINE x == ctx[c]
           tbs == [md |-> x.mdctx.md, data |-> x.mdctx.data]
<1>1. /\ x \in CtxType /\ x # None /\ x.mdctx # None /\ Consistent(x) /\ x.key # None
      /\ ~ OneShot(x.key) /\ x.mdctx.md.fips = RequiresFips(x)
      /\ AsAsked(x, asked[c]) /\ asked' = asked
  BY DEF Final, Stream, SignatureInv, TypeOK, ContextsSound, Consistent
<1>2. CASE \E errors : \E s \in NotSent(errors) : Signed("final", c, size, s)
  <2>1. Quiet(exchange')
    BY <1>2, SignedIs DEF NotSent, Quiet
  <2>2. QED
    BY <2>1, QuietAfter
<1>3. CASE /\ ctx' = [ctx EXCEPT ![c].mdctx.final = TRUE]
           /\ \E s \in SignDigest(x, tbs, size) : Signed("final", c, size, s)
  <2>1. ctx'[c].key = x.key
    BY <1>3 DEF SignatureInv, TypeOK, CtxType
  <2>2. tbs.md = x.mdctx.md /\ tbs.data = x.mdctx.data
    OBVIOUS
  <2>3. asked'[c].settled =>
           tbs.data = asked'[c].data /\ tbs.md.name = asked'[c].opened
    BY <1>1, <2>2 DEF AsAsked
  <2>4. PICK s \in SignDigest(x, tbs, size) : Signed("final", c, size, s)
    BY <1>3
  <2> HIDE DEF tbs, x
  <2>5. QED
    BY <1>1, <2>1, <2>2, <2>3, <2>4, DigestExchange
<1>4. QED
  BY <1>2, <1>3 DEF Final

\* awskms_sig_oneshot_sign
LEMMA OneShotExchange ==
    ASSUME SignatureInv, SignatureInv', NEW c \in Ctxs, NEW msg, NEW size \in Sizes,
           OneShotSign(c, msg, size)
    PROVE  ExchangeInv'
<1> DEFINE x == ctx[c]
<1>1. /\ x \in CtxType /\ x # None /\ Consistent(x) /\ x.key # None
      /\ OneShot(x.key) /\ ctx'[c] = x
  BY DEF OneShotSign, Stream, SignatureInv, TypeOK, ContextsSound
<1>2. AsAsked(x, asked'[c])
  <2>1. ContextsSound'
    BY DEF SignatureInv
  <2>2. QED
    BY <1>1, <2>1 DEF ContextsSound
<1>3. asked'[c].settled => msg = asked'[c].data
  BY DataRecorded DEF OneShotSign, SignatureInv
<1>4. PICK s \in SignMessage(x, msg, size) : Signed("oneshot", c, size, s)
  BY DEF OneShotSign
<1> HIDE DEF x
<1>5. QED
  BY <1>1, <1>2, <1>3, <1>4, MessageExchange

\* awskms_sig_verify and awskms_sig_oneshot_verify, of what they are given
LEMMA GivenVerifyExchange ==
    ASSUME SignatureInv, SignatureInv', NEW c \in Ctxs, NEW tbs, ctx[c] # None,
           Verified("verify", c, tbs), Gives(c, tbs.data), UNCHANGED ctx,
           ctx[c].op = "verify" \/ OneShot(ctx[c].key)
    PROVE  ExchangeInv' /\ exchange'.call = "verify" /\ exchange'.ctx = c
<1>1. ctx[c] \in CtxType /\ Consistent(ctx[c])
  BY DEF SignatureInv, TypeOK, ContextsSound
<1>2. AsAsked(ctx[c], asked'[c])
  <2>1. ContextsSound'
    BY DEF SignatureInv
  <2>2. QED
    BY <2>1 DEF ContextsSound
<1>3. asked'[c].settled => tbs.data = asked'[c].data
  BY DataRecorded DEF SignatureInv
<1>4. QED
  BY <1>1, <1>2, <1>3, VerifyExchange

\* awskms_sig_digest_verify_final, of the data of the stream
LEMMA VerifyFinalExchange ==
    ASSUME SignatureInv, NEW c \in Ctxs, VerifyFinal(c)
    PROVE  ExchangeInv' /\ exchange'.call = "verify" /\ exchange'.ctx = c
<1> DEFINE x == ctx[c]
           tbs == [md |-> x.mdctx.md, data |-> x.mdctx.data]
<1>1. /\ x \in CtxType /\ x # None /\ x.mdctx # None /\ Consistent(x)
      /\ AsAsked(x, asked[c]) /\ asked' = asked
  BY DEF VerifyFinal, Stream, SignatureInv, TypeOK, ContextsSound
<1>2. ctx'[c].key = x.key /\ ctx'[c].op = x.op
  BY DEF VerifyFinal, SignatureInv, TypeOK, CtxType
<1>3. tbs.data = x.mdctx.data /\ tbs.md = x.mdctx.md
  OBVIOUS
<1>4. asked'[c].settled => tbs.data = asked'[c].data /\ tbs.md.name = asked'[c].opened
  BY <1>1, <1>3 DEF AsAsked
<1>5. Verified("verify", c, tbs)
  BY DEF VerifyFinal
<1> HIDE DEF tbs
<1>6. QED
  BY <1>1, <1>2, <1>4, <1>5, VerifyExchange

\* Every call leaves an exchange that is as it was asked for.
LEMMA StepExchange ==
    ASSUME SignatureInv, SignatureInv', ExchangeInv, [Next]_vars
    PROVE  ExchangeInv'
<1>1. ASSUME NEW call, NEW c, NEW ok, NEW raised,
             exchange' = Returned(call, c, ok, raised)
      PROVE  ExchangeInv'
  BY <1>1, QuietCalls, QuietAfter
<1>2. ASSUME NEW c \in Ctxs, NEW k \in Keys,
              NEW op \in {"sign", "verify", "dsign", "dverify"}, NEW fips \in BOOLEAN,
              NEW mdname \in MdNames, NEW params \in ParamSets,
              Begin(c, k, op, fips, mdname, params)
       PROVE  ExchangeInv'
  <2>1. \E r \in InitResults([FreshCtx(fips) EXCEPT !.op = op], k, op, mdname, params) :
           exchange' = Returned("init", c, r.ok, r.raised)
    BY <1>2 DEF Begin
  <2>2. QED
    BY <1>1, <2>1
<1>3. ASSUME NEW c \in Ctxs, NEW mdname \in MdNames, NEW params \in ParamSets,
              Again(c, mdname, params)
       PROVE  ExchangeInv'
  <2>1. \E r \in InitResults(ctx[c], None, ctx[c].op, mdname, params) :
           exchange' = Returned("init", c, r.ok, r.raised)
    BY <1>3 DEF Again
  <2>2. QED
    BY <1>1, <2>1
<1>4. ASSUME NEW c \in Ctxs, NEW params \in ParamSets, SetParams(c, params)
       PROVE  ExchangeInv'
  BY <1>1, <1>4 DEF SetParams
<1>5. ASSUME NEW c \in Ctxs, Probe(c)
       PROVE  ExchangeInv'
  BY <1>1, <1>5 DEF Probe
<1>6. CASE \/ \E c \in Ctxs, chunk \in Chunks : Update(c, chunk)
           \/ \E c, d \in Ctxs : DupCtx(c, d)
           \/ \E c \in Ctxs : FreeCtx(c)
  <2>1. exchange' = NoExchange
    BY <1>6 DEF Update, DupCtx, FreeCtx
  <2>2. QED
    BY <2>1, QuietCalls, QuietAfter
<1>7. ASSUME NEW c \in Ctxs, NEW size \in Sizes, NEW tbs \in Digests,
             Sign(c, tbs, size)
      PROVE  ExchangeInv'
  BY <1>7, SignExchange
<1>8. ASSUME NEW c \in Ctxs, NEW size \in Sizes, Final(c, size)
      PROVE  ExchangeInv'
  BY <1>8, FinalExchange
<1>9. ASSUME NEW c \in Ctxs, NEW size \in Sizes, NEW msg \in Messages,
             OneShotSign(c, msg, size)
      PROVE  ExchangeInv'
  BY <1>9, OneShotExchange
<1>10. ASSUME NEW c \in Ctxs, NEW tbs \in Digests, Verify(c, tbs)
      PROVE  ExchangeInv'
  BY <1>10, GivenVerifyExchange DEF Verify
<1>11. ASSUME NEW c \in Ctxs, VerifyFinal(c)
      PROVE  ExchangeInv'
  BY <1>11, VerifyFinalExchange
<1>12. ASSUME NEW c \in Ctxs, NEW msg \in Messages, OneShotVerify(c, msg)
      PROVE  ExchangeInv'
  <2> DEFINE tbs == [md |-> None, data |-> msg]
  <2>1. /\ ctx[c] # None /\ Verified("verify", c, tbs) /\ Gives(c, tbs.data)
        /\ UNCHANGED ctx /\ OneShot(ctx[c].key)
    BY <1>12 DEF OneShotVerify, Stream
  <2> HIDE DEF tbs
  <2>2. QED
    BY <2>1, GivenVerifyExchange
<1>13. CASE UNCHANGED vars
  <2>1. RequestAsAsked'
    BY <1>13 DEF vars, ExchangeInv, RequestAsAsked
  <2>2. AcceptedByKms'
    BY <1>13 DEF vars, ExchangeInv, AcceptedByKms
  <2>3. FipsThroughout'
    BY <1>13 DEF vars, ExchangeInv, FipsThroughout
  <2>4. VerifiedAsAsked'
    BY <1>13 DEF vars, ExchangeInv, VerifiedAsAsked
  <2>5. BilledSignatureDelivered'
    BY <1>13 DEF vars, ExchangeInv, BilledSignatureDelivered
  <2>6. QED
    BY <2>1, <2>2, <2>3, <2>4, <2>5 DEF ExchangeInv
<1>14. QED
  BY <1>2, <1>3, <1>4, <1>5, <1>6, <1>7, <1>8, <1>9, <1>10, <1>11, <1>12, <1>13
  DEF Next

-----------------------------------------------------------------------------
(***************************************************************************)
(* What holds in every reachable state                                     *)
(***************************************************************************)
\* Whatever the order of initialisations, parameters, data, copies and calls,
\* and whichever of them fail, every context has what its operation requires
\* and is as the application last asked (set_digest, bind_key, the inits and
\* dupctx), and the last exchange was made of that (sign_digest, the oneshots,
\* the verifications).
THEOREM SignatureInvariant == Spec => [](SignatureInv /\ ExchangeInv)
<1>1. Init => SignatureInv /\ ExchangeInv
  <2>1. Init => Quiet(exchange)
    BY QuietCalls DEF Init
  <2>2. QED
    BY <2>1, InitSignature, QuietExchange
<1>2. SignatureInv /\ ExchangeInv /\ [Next]_vars => (SignatureInv /\ ExchangeInv)'
  <2> SUFFICES ASSUME SignatureInv, ExchangeInv, [Next]_vars
               PROVE  SignatureInv' /\ ExchangeInv'
    OBVIOUS
  <2>1. SignatureInv'
    BY StepSignature
  <2>2. QED
    BY <2>1, StepExchange
<1>3. QED
  BY <1>1, <1>2, PTL DEF Spec

\* The state of every context, of the references and of what was asked has the
\* types of AWSKMS_SIG_CTX.
THEOREM SignatureTypeCorrect == Spec => []TypeOK
<1>1. SignatureInv => TypeOK
  BY DEF SignatureInv
<1>2. QED
  BY <1>1, SignatureInvariant, PTL

\* bind_key, dupctx and freectx neither leak a key nor free it under a context.
THEOREM AlwaysSignatureRefsExact == Spec => []RefsExact
<1>1. SignatureInv => RefsExact
  BY DEF SignatureInv
<1>2. QED
  BY <1>1, SignatureInvariant, PTL

\* A request carries the data, padding, salt length, context string and instance
\* that were last asked for and names the digest that was; the hash of a stream
\* was made with the digest asked for when it was last initialised
\* (awskms_sig_digest_sign_init, set_digest); and the digest code of a stream
\* is that of the digest of its context.
THEOREM AlwaysSignedAsAsked == Spec => []SignedAsAsked
<1>1. SignatureInv /\ ExchangeInv => SignedAsAsked
  <2> SUFFICES ASSUME SignatureInv, ExchangeInv
               PROVE  SignedAsAsked
    OBVIOUS
  <2>1. \A x \in Ctxs : ctx[x] # None /\ ctx[x].mdctx # None =>
           ctx[x].digest = DigestOf(ctx[x].md)
    BY DEF SignatureInv, ContextsSound, Consistent
  <2>2. RequestAsAsked
    BY DEF ExchangeInv
  <2>3. QED
    BY <2>1, <2>2 DEF RequestAsAsked, SignedAsAsked
<1>2. QED
  BY <1>1, SignatureInvariant, PTL

\* No request is for a digest of a length other than its algorithm's, or for a
\* raw message out of KMS's limits (sign_digest, awskms_sig_oneshot_sign).
THEOREM AlwaysAcceptedByKms == Spec => []AcceptedByKms
<1>1. ExchangeInv => AcceptedByKms
  BY DEF ExchangeInv
<1>2. QED
  BY <1>1, SignatureInvariant, PTL

\* Where the operation or the key requires FIPS, so are the endpoint, the
\* digest and the view of the public key (operation_requires_fips).
THEOREM AlwaysFipsThroughout == Spec => []FipsThroughout
<1>1. ExchangeInv => FipsThroughout
  BY DEF ExchangeInv
<1>2. QED
  BY <1>1, SignatureInvariant, PTL

\* A signature KMS has charged for reaches the caller (output_buffer_fits).
THEOREM AlwaysBilledSignatureDelivered == Spec => []BilledSignatureDelivered
<1>1. ExchangeInv => BilledSignatureDelivered
  BY DEF ExchangeInv
<1>2. QED
  BY <1>1, SignatureInvariant, PTL

\* Verification uses the context's own key, digest, padding, context string and
\* data, the hash of a stream being made with the digest asked for when it was
\* last initialised (awskms_sig_verify and its siblings).
THEOREM AlwaysVerifiedAsAsked == Spec => []VerifiedAsAsked
<1>1. ExchangeInv => VerifiedAsAsked
  BY DEF ExchangeInv
<1>2. QED
  BY <1>1, SignatureInvariant, PTL

\* A digest that was open is finished by a call for c alone.
Consumes(c) ==
    /\ ctx[c] # None /\ ctx[c].mdctx # None /\ ~ ctx[c].mdctx.final
    /\ ctx'[c] # None /\ ctx'[c].mdctx # None /\ ctx'[c].mdctx.final

\* Calls that set up, ask or release finish no digest.
LEMMA OthersConsumeNothing ==
    ASSUME SignatureInv, NEW c \in Ctxs, NEW d \in Ctxs,
           \/ \E k \in Keys, op \in {"sign", "verify", "dsign", "dverify"},
                 fips \in BOOLEAN, mdname \in MdNames, params \in ParamSets :
                   Begin(d, k, op, fips, mdname, params)
           \/ \E mdname \in MdNames, params \in ParamSets : Again(d, mdname, params)
           \/ \E params \in ParamSets : SetParams(d, params)
           \/ \E chunk \in Chunks : Update(d, chunk)
           \/ \E e \in Ctxs : DupCtx(e, d)
           \/ FreeCtx(d)
    PROVE  ~ Consumes(c)
<1>1. ASSUME NEW y, ctx' = [ctx EXCEPT ![d] = y], c # d
      PROVE  ~ Consumes(c)
  BY <1>1 DEF Consumes, SignatureInv, TypeOK
<1>2. ASSUME NEW k \in Keys, NEW op \in {"sign", "verify", "dsign", "dverify"},
             NEW fips \in BOOLEAN, NEW mdname \in MdNames, NEW params \in ParamSets,
             Begin(d, k, op, fips, mdname, params)
      PROVE  ~ Consumes(c)
  <2>1. ctx[d] = None /\ \E y : ctx' = [ctx EXCEPT ![d] = y]
    BY <1>2 DEF Begin
  <2>2. QED
    BY <1>1, <2>1 DEF Consumes
<1>3. ASSUME NEW mdname \in MdNames, NEW params \in ParamSets, Again(d, mdname, params)
      PROVE  ~ Consumes(c)
  <2>1. \E y : ctx' = [ctx EXCEPT ![d] = y]
    BY <1>3 DEF Again
  <2>2. QED
    BY <1>1, <1>3, <2>1, AgainStep DEF Consumes
<1>4. ASSUME NEW params \in ParamSets, SetParams(d, params)
      PROVE  ~ Consumes(c)
  <2>1. \E y : ctx' = [ctx EXCEPT ![d] = y]
    BY <1>4 DEF SetParams
  <2>2. QED
    BY <1>1, <1>4, <2>1, SetParamsStep DEF Consumes
<1>5. ASSUME NEW chunk \in Chunks, Update(d, chunk)
      PROVE  ~ Consumes(c)
  <2>1. \E y : ctx' = [ctx EXCEPT ![d] = y]
    BY <1>5 DEF Update
  <2>2. QED
    BY <1>1, <1>5, <2>1, UpdateStep DEF Consumes
<1>6. ASSUME NEW e \in Ctxs, DupCtx(e, d)
      PROVE  ~ Consumes(c)
  <2>1. ctx[d] = None /\ (UNCHANGED ctx \/ \E y : ctx' = [ctx EXCEPT ![d] = y])
    BY <1>6 DEF DupCtx
  <2>2. QED
    BY <1>1, <2>1 DEF Consumes
<1>7. ASSUME FreeCtx(d)
      PROVE  ~ Consumes(c)
  BY <1>1, <1>7 DEF FreeCtx, Consumes, SignatureInv, TypeOK
<1>8. QED
  BY <1>2, <1>3, <1>4, <1>5, <1>6, <1>7

\* A size probe and a buffer that is too small leave a stream open: only a call
\* that goes on to sign or to verify finishes it (awskms_sig_digest_sign_final,
\* awskms_sig_digest_verify_final).
THEOREM AlwaysOnlySigningConsumes == Spec => OnlySigningConsumes
<1> DEFINE Said(c) == /\ exchange'.ctx = c
                      /\ exchange'.call = "verify" \/
                         (exchange'.call = "final" /\ exchange'.size >= Required)
<1>1. SignatureInv /\ [Next]_vars => [\A c \in Ctxs : Consumes(c) => Said(c)]_vars
  <2> SUFFICES ASSUME SignatureInv, Next, NEW c \in Ctxs, Consumes(c)
               PROVE  Said(c)
    OBVIOUS
  <2>1. ASSUME NEW d \in Ctxs, NEW size \in Sizes, Final(d, size)
        PROVE  Said(c)
    <3>1. ctx' # ctx
      BY DEF Consumes
    <3>2. /\ ctx' = [ctx EXCEPT ![d].mdctx.final = TRUE] /\ BufferFits(size)
          /\ \E s : Signed("final", d, size, s)
      BY <2>1, <3>1 DEF Final
    <3>3. c = d
      BY <3>2 DEF Consumes, SignatureInv, TypeOK
    <3>4. QED
      BY <3>2, <3>3, SignedIs DEF BufferFits
  <2>2. ASSUME NEW d \in Ctxs, VerifyFinal(d)
        PROVE  Said(c)
    <3>1. c = d
      BY <2>2 DEF VerifyFinal, Consumes, SignatureInv, TypeOK
    <3>2. QED
      BY <2>2, <3>1, VerifyFinalExchange
  <2>3. CASE \/ \E d \in Ctxs, size \in Sizes, tbs \in Digests : Sign(d, tbs, size)
             \/ \E d \in Ctxs, size \in Sizes, msg \in Messages :
                   OneShotSign(d, msg, size)
             \/ \E d \in Ctxs : Probe(d)
             \/ \E d \in Ctxs, tbs \in Digests : Verify(d, tbs)
             \/ \E d \in Ctxs, msg \in Messages : OneShotVerify(d, msg)
    <3>1. UNCHANGED ctx
      BY <2>3 DEF Sign, OneShotSign, Probe, Verify, OneShotVerify
    <3>2. QED
      BY <3>1 DEF Consumes
  <2>4. QED
    BY <2>1, <2>2, <2>3, OthersConsumeNothing DEF Next
<1>2. [\A c \in Ctxs : Consumes(c) => Said(c)]_vars =>
      [\A c \in Ctxs :
          /\ ctx[c] # None /\ ctx[c].mdctx # None /\ ~ ctx[c].mdctx.final
          /\ ctx'[c] # None /\ ctx'[c].mdctx # None /\ ctx'[c].mdctx.final
          => /\ exchange'.ctx = c
             /\ exchange'.call = "verify" \/
                (exchange'.call = "final" /\ exchange'.size >= Required)]_vars
  BY DEF Consumes
<1>3. QED
  BY <1>1, <1>2, SignatureInvariant, PTL DEF Spec, OnlySigningConsumes

=============================================================================
