-------------------------- MODULE Operators_proofs --------------------------
(***************************************************************************)
(* Proofs about what operators set up and rotate: the caches of CertCache, *)
(* for any set of handshakes and calls that overlap and any number of      *)
(* replacements of the files; MeshRotation, for any nodes, requests and    *)
(* failures; and the onboarding commands of NodeSetup, for any number of   *)
(* commands, nodes, crashes and lost answers.                              *)
(***************************************************************************)
EXTENDS CertCache, MeshRotation, NodeSetup, TLAPS

USE ZenonT(60)

-----------------------------------------------------------------------------
(* The certificate and token caches. *)

Versions == 0 .. MaxVersion

Shakes == [pc : {"idle", "crt", "key", "store", "failed"}, crt : Versions, key : Versions]

(* The certificate cache: what a handshake is about to store is one pair. *)
CacheInv ==
  /\ crt \in Versions /\ key \in Versions
  /\ cache \in [crt : Versions, key : Versions, crtTime : Versions, keyTime : Versions]
  /\ hs \in [Handshakes -> Shakes]
  /\ \A h \in Handshakes : hs[h].pc = "store" => hs[h].crt = hs[h].key
  /\ PairServedWhole
  /\ NoFallbackAfterGood

CallRecords ==
  [pc : {"idle", "stat", "load", "store"}, time : Versions, hash : Versions]

(* The token provider: the call that holds the mutex is the only one under  *)
(* way, no hash is newer than the file, and a hash is at least as new as    *)
(* the time it is, or will be, stored under.                                *)
TokenInv ==
  /\ tok \in Versions /\ hash \in Versions /\ hashTime \in Versions
  /\ call \in [Calls -> CallRecords]
  /\ boot \in {"new", "loaded", "ready"}
  /\ \A c \in Calls : call[c].pc # "idle" => tokLock = c /\ boot = "ready"
  /\ hash <= tok /\ hashTime <= tok
  /\ boot = "new" => hash = 0
  /\ boot = "ready" /\ ~raced => hashTime <= hash
  /\ \A c \in Calls :
       /\ call[c].time <= tok /\ call[c].hash <= tok
       /\ call[c].pc = "store" => hash <= call[c].hash /\ call[c].time <= call[c].hash

-----------------------------------------------------------------------------
(* Both hold in the initial state. *)
LEMMA CacheInitInv ==
  ASSUME MaxVersion \in Nat, Nobody \notin Calls, CertCacheInit
  PROVE  CacheInv /\ TokenInv
<1> USE DEF CertCacheInit, Versions, NoCert, IdleShake, IdleCall, Shakes, CallRecords
<1>1. CacheInv
  BY SMTT(30) DEF CacheInv, PairServedWhole, NoFallbackAfterGood, Ephemeral
<1>2. TokenInv
  BY SMTT(30) DEF TokenInv
<1> QED BY <1>1, <1>2

(* A handshake serves and caches whole pairs only. *)
LEMMA HandshakeStep ==
  ASSUME MaxVersion \in Nat, Nobody \notin Calls, CacheInv, NEW h \in Handshakes, handshake(h)
  PROVE  CacheInv'
<1> USE DEF CacheInv, Versions, Shakes, files, PairServedWhole, NoFallbackAfterGood, Ephemeral
<1>1. CASE getServerCertificate(h)
  BY <1>1, SMTT(30) DEF getServerCertificate, Serve, Shake, IdleShake
<1>2. CASE loadCert(h)
  BY <1>2, SMTT(30) DEF loadCert
<1>3. CASE loadKey(h)
  BY <1>3 DEF loadKey, Matches
<1>4. CASE storeCert(h)
  BY <1>4, SMTT(30) DEF storeCert, Serve, IdleShake
<1>5. CASE loadFailed(h)
  <2>1. CASE cache # NoCert
    BY <1>5, <2>1, SMTT(30) DEF loadFailed, LastKnownGood, Serve, IdleShake
  <2>2. CASE cache = NoCert
    <3>1. served' = [crt |-> Ephemeral, key |-> Ephemeral, cached |-> FALSE]
      BY <1>5, <2>2 DEF loadFailed, LastKnownGood, Serve
    <3>2. hs' = [hs EXCEPT ![h] = IdleShake] /\ UNCHANGED <<crt, key, cache>>
      BY <1>5, <2>2 DEF loadFailed, LastKnownGood, Serve
    <3> QED BY <3>1, <3>2, SMTT(30) DEF IdleShake
  <2> QED BY <2>1, <2>2
<1> QED BY <1>1, <1>2, <1>3, <1>4, <1>5 DEF handshake

(* A call of the provider keeps its invariant, and the hash does not fall. *)
LEMMA CallStep ==
  ASSUME MaxVersion \in Nat, Nobody \notin Calls, TokenInv, NEW c \in Calls,
         lockToken(c) \/ statToken(c) \/ loadToken(c) \/ storeToken(c)
  PROVE  TokenInv' /\ HashGoesOn
<1> USE DEF TokenInv, Versions, CallRecords, files, IdleCall, HashGoesOn
<1>1. CASE lockToken(c)
  BY <1>1, SMTT(30) DEF lockToken, MayEnter
<1>2. CASE statToken(c)
  <2>1. CASE Leave(c)
    BY <1>2, <2>1, SMTT(30) DEF statToken, Leave
  <2>2. CASE ~Leave(c)
    <3>1. /\ call' = [call EXCEPT ![c] = [pc |-> "load", time |-> tok, hash |-> 0]]
          /\ UNCHANGED <<tok, hash, hashTime, tokLock, boot, raced>>
      BY <1>2, <2>2 DEF statToken
    <3>2. call[c].pc = "stat" /\ tokLock = c /\ boot = "ready"
      BY <1>2 DEF statToken
    <3> QED BY <3>1, <3>2, SMTT(30)
  <2> QED BY <2>1, <2>2
<1>3. CASE loadToken(c)
  BY <1>3, SMTT(30) DEF loadToken, Leave, TimeWhenUnread
<1>4. CASE storeToken(c)
  BY <1>4, SMTT(30) DEF storeToken, Leave
<1> QED BY <1>1, <1>2, <1>3, <1>4

(* The provider's start keeps its invariant, and the hash does not fall. *)
LEMMA StartStep ==
  ASSUME MaxVersion \in Nat, Nobody \notin Calls, TokenInv, newTokenHashProvider
  PROVE  TokenInv' /\ HashGoesOn
<1> USE DEF newTokenHashProvider, TokenInv, Versions, CallRecords, files, HashGoesOn
<1>1. CASE boot = "new"
  BY <1>1, SMTT(30)
<1>2. CASE boot = "loaded"
  <2>1. raced' \/ hash = tok
    BY <1>2
  <2>2. \A c \in Calls : call[c].pc = "idle"
    BY <1>2
  <2> QED BY <1>2, <2>1, <2>2, SMTT(30)
<1> QED BY <1>1, <1>2

(* Replacing a file keeps both invariants. *)
LEMMA ReplaceStep ==
  ASSUME MaxVersion \in Nat, Nobody \notin Calls, CacheInv, TokenInv, replaceKey \/ replaceCert \/ replaceToken
  PROVE  CacheInv' /\ TokenInv' /\ HashGoesOn
<1>1. CacheInv'
  BY SMTT(30) DEF replaceKey, replaceCert, replaceToken, certs, tokens, CacheInv, Versions,
         PairServedWhole, NoFallbackAfterGood
<1>2. TokenInv' /\ HashGoesOn
  BY SMTT(30) DEF replaceKey, replaceCert, replaceToken, certs, tokens, TokenInv, Versions, CallRecords,
         HashGoesOn
<1> QED BY <1>1, <1>2

(* Every step keeps both invariants, and the hash does not fall. *)
LEMMA CacheNextStep ==
  ASSUME MaxVersion \in Nat, Nobody \notin Calls, CacheInv, TokenInv, [CertCacheNext]_cvars
  PROVE  CacheInv' /\ TokenInv' /\ HashGoesOn
<1>1. CASE \E h \in Handshakes : handshake(h)
  <2> PICK h \in Handshakes : handshake(h) BY <1>1
  <2>1. UNCHANGED <<tok, tokens>>
    BY DEF handshake, getServerCertificate, loadCert, loadKey, storeCert, loadFailed, files
  <2>2. TokenInv' /\ HashGoesOn
    BY <2>1, SMTT(30) DEF TokenInv, tokens, HashGoesOn, Versions
  <2> QED BY <2>2, HandshakeStep
<1>2. CASE \E c \in Calls : lockToken(c) \/ statToken(c) \/ loadToken(c) \/ storeToken(c)
  <2> PICK c \in Calls : lockToken(c) \/ statToken(c) \/ loadToken(c) \/ storeToken(c) BY <1>2
  <2>1. UNCHANGED <<crt, key, certs>>
    BY DEF lockToken, statToken, loadToken, storeToken, files
  <2>2. CacheInv'
    BY <2>1 DEF CacheInv, certs, PairServedWhole, NoFallbackAfterGood
  <2> QED BY <2>2, CallStep
<1>3. CASE newTokenHashProvider
  <2>1. CacheInv'
    BY <1>3 DEF newTokenHashProvider, CacheInv, files, certs, PairServedWhole, NoFallbackAfterGood
  <2> QED BY <2>1, <1>3, StartStep
<1>4. CASE replaceKey \/ replaceCert \/ replaceToken
  BY <1>4, ReplaceStep
<1>5. CASE UNCHANGED cvars
  BY <1>5, SMTT(30) DEF cvars, CacheInv, TokenInv, HashGoesOn, PairServedWhole, NoFallbackAfterGood, Versions
<1> QED BY <1>1, <1>2, <1>3, <1>4, <1>5 DEF CertCacheNext

-----------------------------------------------------------------------------
(* Both invariants hold throughout. *)
LEMMA CacheInvariance ==
  ASSUME MaxVersion \in Nat, Nobody \notin Calls
  PROVE  CertCacheSpec => [](CacheInv /\ TokenInv)
<1>1. CertCacheInit => CacheInv /\ TokenInv
  BY CacheInitInv
<1>2. CacheInv /\ TokenInv /\ [CertCacheNext]_cvars => (CacheInv /\ TokenInv)'
  BY CacheNextStep
<1> QED BY <1>1, <1>2, PTL DEF CertCacheSpec

(* The shape of what the two invariants leave open. *)
Shapes ==
  /\ served \in [crt : 0..Ephemeral, key : 0..Ephemeral, cached : BOOLEAN]
  /\ tokLock \in Calls \cup {Nobody}
  /\ raced \in BOOLEAN

(* Every step keeps it. *)
LEMMA ShapesStep ==
  ASSUME MaxVersion \in Nat, CacheInv, Shapes, [CertCacheNext]_cvars
  PROVE  Shapes'
<1>1. raced' \in BOOLEAN
  BY DEF Shapes, CertCacheNext, cvars, tokens, handshake, getServerCertificate, loadCert, loadKey,
         storeCert, loadFailed, newTokenHashProvider, lockToken, statToken, loadToken, storeToken,
         replaceKey, replaceCert, replaceToken
<1>2. tokLock' \in Calls \cup {Nobody}
  BY DEF Shapes, CertCacheNext, cvars, tokens, handshake, getServerCertificate, loadCert, loadKey,
         storeCert, loadFailed, newTokenHashProvider, lockToken, statToken, loadToken, storeToken,
         Leave, replaceKey, replaceCert, replaceToken
<1>3. served' \in [crt : 0..Ephemeral, key : 0..Ephemeral, cached : BOOLEAN]
  <2>0. ASSUME NEW h \in Handshakes, NEW c \in 0..Ephemeral, NEW k \in 0..Ephemeral, Serve(h, c, k)
        PROVE  served' \in [crt : 0..Ephemeral, key : 0..Ephemeral, cached : BOOLEAN]
    <3>1. (cache # NoCert) \in BOOLEAN
      OBVIOUS
    <3>2. served' = [crt |-> c, key |-> k, cached |-> (cache # NoCert)]
      BY <2>0 DEF Serve
    <3> QED BY <3>1, <3>2
  <2>1. /\ cache.crt \in 0..Ephemeral /\ cache.key \in 0..Ephemeral
        /\ Ephemeral \in 0..Ephemeral
        /\ \A h \in Handshakes : hs[h].crt \in 0..Ephemeral /\ hs[h].key \in 0..Ephemeral
    BY SMTT(30) DEF CacheInv, Versions, Shakes, Ephemeral
  <2>2. ASSUME NEW h \in Handshakes, handshake(h)
        PROVE  \/ UNCHANGED served
               \/ Serve(h, cache.crt, cache.key)
               \/ Serve(h, hs[h].crt, hs[h].key)
               \/ Serve(h, Ephemeral, Ephemeral)
    BY <2>2 DEF handshake, getServerCertificate, loadCert, loadKey, storeCert, loadFailed,
                LastKnownGood
  <2>3. (\E h \in Handshakes : handshake(h)) \/ UNCHANGED served
    BY DEF CertCacheNext, cvars, certs, newTokenHashProvider, lockToken, statToken, loadToken,
           storeToken, replaceKey, replaceCert, replaceToken
  <2> QED BY <2>0, <2>1, <2>2, <2>3 DEF Shapes
<1> QED BY <1>1, <1>2, <1>3 DEF Shapes

(* Every variable keeps its shape. *)
LEMMA CacheTyping ==
  ASSUME MaxVersion \in Nat, Nobody \notin Calls
  PROVE  CertCacheSpec => []CertCacheTypeOK
<1>1. CertCacheInit => Shapes
  <2> SUFFICES ASSUME CertCacheInit PROVE Shapes
    OBVIOUS
  <2>1. served = [crt |-> 0, key |-> 0, cached |-> FALSE] /\ 0 \in 0..Ephemeral
    BY SMTT(30) DEF CertCacheInit, Ephemeral
  <2>2. served \in [crt : 0..Ephemeral, key : 0..Ephemeral, cached : BOOLEAN]
    BY <2>1
  <2>3. raced \in BOOLEAN
    BY DEF CertCacheInit
  <2> QED BY <2>2, <2>3 DEF CertCacheInit, Shapes
<1>2. CacheInv /\ Shapes /\ [CertCacheNext]_cvars => Shapes'
  BY ShapesStep
<1>3. CacheInv /\ TokenInv /\ Shapes => CertCacheTypeOK
  BY DEF CacheInv, TokenInv, Shapes, CertCacheTypeOK, Versions, Shakes, CallRecords
<1> QED BY <1>1, <1>2, <1>3, CacheInvariance, PTL DEF CertCacheSpec

(* A handshake never serves or caches the certificate of one pair with the  *)
(* key of another (getServerCertificate).                                   *)
THEOREM CertPairWhole ==
  ASSUME MaxVersion \in Nat, Nobody \notin Calls
  PROVE  CertCacheSpec => []PairServedWhole
<1>1. CacheInv => PairServedWhole
  BY DEF CacheInv
<1> QED BY <1>1, CacheInvariance, PTL

(* Once a certificate is cached no handshake gets the self-signed fallback. *)
THEOREM CertNoFallback ==
  ASSUME MaxVersion \in Nat, Nobody \notin Calls
  PROVE  CertCacheSpec => []NoFallbackAfterGood
<1>1. CacheInv => NoFallbackAfterGood
  BY DEF CacheInv
<1> QED BY <1>1, CacheInvariance, PTL

(* The provider is not stuck with an old token hash (tokenHashProvider).    *)
THEOREM TokenHashFresh ==
  ASSUME MaxVersion \in Nat, Nobody \notin Calls
  PROVE  CertCacheSpec => []HashFresh
<1>1. TokenInv => HashFresh
  BY SMTT(30) DEF TokenInv, HashFresh, Versions
<1> QED BY <1>1, CacheInvariance, PTL

(* The token hash in use never goes back to that of an older file.          *)
THEOREM TokenHashMonotone ==
  ASSUME MaxVersion \in Nat, Nobody \notin Calls
  PROVE  CertCacheSpec => HashNeverGoesBack
<1>1. CacheInv /\ TokenInv /\ [CertCacheNext]_cvars => [HashGoesOn]_cvars
  BY CacheNextStep
<1> QED BY <1>1, CacheInvariance, PTL DEF CertCacheSpec, HashNeverGoesBack

(* Both caches of the gRPC server follow their files, for any handshakes,   *)
(* calls and replacements.                                                  *)
THEOREM CachesSafety ==
  ASSUME MaxVersion \in Nat, Nobody \notin Calls
  PROVE  CertCacheSpec => CachesSafe
  BY CacheTyping, CertPairWhole, CertNoFallback, TokenHashFresh, TokenHashMonotone, PTL DEF CachesSafe

-----------------------------------------------------------------------------
(* The mesh-wide rotation. *)

(* A handler has targets from Plan on, and its caller an answer once it is  *)
(* through, one that says whether every target acknowledged; what a node    *)
(* acknowledged was applied there, and what is applied was acknowledged.    *)
HandlersFit ==
  \A r \in Rotations :
    /\ rpc[r] = "new" => targets[r] = {}
    /\ rpc[r] = "apply" => targets[r] # {}
    /\ answered[r] # None => rpc[r] = "done"
    /\ answered[r] = "ok" => acked[r] = targets[r]
    /\ answered[r] = "aborted" => acked[r] # targets[r]

AppliedFits ==
  /\ \A r \in Rotations : \A n \in acked[r] : applied[n] # None
  /\ \A n \in MeshNodes : applied[n] # None => n \in acked[applied[n]]

RotationInv == RotationTypeOK /\ HandlersFit /\ AppliedFits /\ HistoryComplete

LEMMA RecordsOfRotations ==
  ASSUME RotationTypeOK
  PROVE  \A i \in DOMAIN records : records[i].rotation \in Rotations
<1>1. records \in Seq(Records)
  BY DEF RotationTypeOK
<1>2. \A i \in DOMAIN records : records[i] \in Records
  BY <1>1, SMTT(30)
<1> QED BY <1>2 DEF Records

(* A step that appends nothing, changes no plan that has a record and no    *)
(* handler's being through with its plan, keeps the history.                *)
LEMMA SameHistory ==
  ASSUME RotationTypeOK, HistoryComplete, records' = records,
         \A r \in Rotations :
           /\ (rpc'[r] \in {"stream", "done"} /\ targets'[r] # {}) <=>
                (rpc[r] \in {"stream", "done"} /\ targets[r] # {})
           /\ rpc[r] \in {"stream", "done"} => targets'[r] = targets[r] /\ acked'[r] = acked[r]
  PROVE  HistoryComplete'
<1>1. ASSUME NEW i \in DOMAIN records PROVE RecordOf(records[i].rotation)' = records[i]
  <2>1. records[i].rotation \in Rotations
    BY RecordsOfRotations
  <2>2. records[i] = RecordOf(records[i].rotation) /\ rpc[records[i].rotation] \in {"stream", "done"}
    BY <2>1 DEF HistoryComplete
  <2> QED BY <2>1, <2>2 DEF RecordOf
<1> QED BY <1>1 DEF HistoryComplete

LEMMA PlanStep ==
  ASSUME RotationInv, NEW r \in Rotations, Plan(r)
  PROVE  RotationInv'
<1>1. RotationTypeOK'
  BY SMTT(30) DEF RotationInv, RotationTypeOK, HandlersFit, Plan, Proceed, Answer, MeshInternalTargets
<1>2. HandlersFit'
  <2>1. /\ acked' = acked
        /\ \A q \in Rotations \ {r} :
             rpc'[q] = rpc[q] /\ targets'[q] = targets[q] /\ answered'[q] = answered[q]
    BY DEF RotationInv, RotationTypeOK, Plan, Proceed, Answer
  <2>2. \/ rpc'[r] = "apply" /\ targets'[r] # {} /\ answered'[r] = None
        \/ rpc'[r] = "done" /\ answered'[r] = "refused"
    BY DEF RotationInv, RotationTypeOK, HandlersFit, Plan, Proceed, Answer
  <2> QED BY <2>1, <2>2 DEF RotationInv, HandlersFit, None
<1>3. AppliedFits'
  BY DEF RotationInv, AppliedFits, Plan
<1>4. HistoryComplete'
  BY SameHistory DEF RotationInv, RotationTypeOK, HandlersFit, Plan, Proceed, Answer
<1> QED BY <1>1, <1>2, <1>3, <1>4 DEF RotationInv

LEMMA ApplyStep ==
  ASSUME RotationInv, NEW r \in Rotations, NEW n \in MeshNodes, ApplyRotation(r, n)
  PROVE  RotationInv'
<1>1. RotationTypeOK'
  BY SMTT(30) DEF RotationInv, RotationTypeOK, ApplyRotation, First
<1>2. HandlersFit'
  <2>1. UNCHANGED <<rpc, targets, answered>> /\ \A q \in Rotations \ {r} : acked'[q] = acked[q]
    BY DEF RotationInv, RotationTypeOK, ApplyRotation
  <2>2. answered[r] = None
    BY DEF RotationInv, HandlersFit, ApplyRotation
  <2> QED BY <2>1, <2>2 DEF RotationInv, HandlersFit, None
<1>3. AppliedFits'
  <2>1. CASE UNCHANGED <<acked, applied>>
    BY <2>1 DEF RotationInv, AppliedFits
  <2>2. CASE acked' = [acked EXCEPT ![r] = @ \cup {n}] /\ applied' = [applied EXCEPT ![n] = r]
    <3>0. /\ acked \in [Rotations -> SUBSET MeshNodes]
          /\ applied \in [MeshNodes -> Rotations \cup {None}]
      BY DEF RotationInv, RotationTypeOK
    <3>1. /\ acked'[r] = acked[r] \cup {n} /\ \A q \in Rotations \ {r} : acked'[q] = acked[q]
          /\ applied'[n] = r /\ \A k \in MeshNodes \ {n} : applied'[k] = applied[k]
      BY <2>2, <3>0
    <3>2. r # None
      BY MeshRotationAssumption
    <3>3. \A q \in Rotations : \A k \in acked'[q] : applied'[k] # None
      BY <3>0, <3>1, <3>2 DEF RotationInv, AppliedFits
    <3>4. \A k \in MeshNodes : applied'[k] # None => k \in acked'[applied'[k]]
      BY <3>0, <3>1 DEF RotationInv, AppliedFits
    <3> QED BY <3>3, <3>4 DEF AppliedFits
  <2> QED BY <2>1, <2>2 DEF ApplyRotation
<1>4. HistoryComplete'
  BY SameHistory DEF RotationInv, RotationTypeOK, ApplyRotation
<1> QED BY <1>1, <1>2, <1>3, <1>4 DEF RotationInv

(* The record is the handler's only one: it had none while it applied. *)
LEMMA RecordStep ==
  ASSUME RotationInv, NEW r \in Rotations, AppendRecord(r)
  PROVE  RotationInv'
<1> DEFINE m == Len(records)
<1>1. /\ records \in Seq(Records) /\ RecordOf(r) \in Records /\ RecordOf(r).rotation = r
      /\ records' = Append(records, RecordOf(r))
  BY DEF RotationInv, RotationTypeOK, Records, RecordOf, AppendRecord, Recorded
<1>2. /\ m \in Nat /\ DOMAIN records = 1 .. m /\ DOMAIN records' = 1 .. (m + 1)
      /\ \A i \in 1 .. m : records'[i] = records[i]
      /\ records'[m + 1] = RecordOf(r) /\ records' \in Seq(Records)
  BY <1>1, SMTT(30)
<1>3. \A i \in 1 .. m : records[i].rotation \in Rotations \ {r}
  <2>1. rpc[r] = "apply"
    BY DEF AppendRecord
  <2> QED BY <1>2, <2>1, RecordsOfRotations DEF RotationInv, HistoryComplete
<1>4. RotationTypeOK'
  BY <1>2 DEF RotationInv, RotationTypeOK, AppendRecord, Proceed
<1>5. HandlersFit' /\ AppliedFits'
  BY SMTT(30) DEF RotationInv, RotationTypeOK, HandlersFit, AppliedFits, AppendRecord, Proceed
<1>6. HistoryComplete'
  <2>1. \A i : i \in 1 .. (m + 1) <=> i \in 1 .. m \/ i = m + 1
    BY <1>2, SMTT(30)
  <2>2. UNCHANGED <<targets, acked>> /\ targets[r] # {} /\ rpc'[r] = "stream"
        /\ \A q \in Rotations \ {r} : rpc'[q] = rpc[q]
    BY DEF RotationInv, RotationTypeOK, HandlersFit, AppendRecord, Proceed
  <2>3. ASSUME NEW i \in 1 .. (m + 1) PROVE (records[i] = RecordOf(records[i].rotation))'
    <3>1. CASE i \in 1 .. m
      <4>1. records'[i] = records[i] /\ records[i] = RecordOf(records[i].rotation)
        BY <1>2, <3>1 DEF RotationInv, HistoryComplete
      <4> QED BY <2>2, <4>1 DEF RecordOf
    <3>2. CASE i = m + 1
      BY <1>1, <1>2, <2>2, <3>2 DEF RecordOf
    <3> QED BY <2>1, <3>1, <3>2
  <2>4. \A i \in DOMAIN records' : (records[i] = RecordOf(records[i].rotation))'
    BY <1>2, <2>3
  <2>5. \A i, j \in DOMAIN records' : records'[i].rotation = records'[j].rotation => i = j
    <3> SUFFICES ASSUME NEW i \in 1 .. (m + 1), NEW j \in 1 .. (m + 1),
                        records'[i].rotation = records'[j].rotation
                 PROVE  i = j
      BY <1>2
    <3>1. CASE i \in 1 .. m /\ j \in 1 .. m
      <4>1. records[i].rotation = records[j].rotation
        BY <1>2, <3>1
      <4> QED BY <1>2, <3>1, <4>1 DEF RotationInv, HistoryComplete
    <3>2. CASE (i = m + 1 /\ j \in 1 .. m) \/ (j = m + 1 /\ i \in 1 .. m)
      BY <1>1, <1>2, <1>3, <3>2
    <3> QED BY <2>1, <3>1, <3>2
  <2>6. \A q \in Rotations \ {r} : (\E i \in DOMAIN records' : records'[i].rotation = q) <=>
                                    \E i \in DOMAIN records : records[i].rotation = q
    BY <1>1, <1>2, <2>1
  <2>7. \E i \in DOMAIN records' : records'[i].rotation = r
    BY <1>1, <1>2, <2>1
  <2>8. \A q \in Rotations : (rpc'[q] \in {"stream", "done"} /\ targets'[q] # {}) <=>
                               \E i \in DOMAIN records' : records'[i].rotation = q
    BY <2>2, <2>6, <2>7 DEF RotationInv, HistoryComplete
  <2> QED BY <2>4, <2>5, <2>8 DEF HistoryComplete
<1> QED BY <1>4, <1>5, <1>6 DEF RotationInv

LEMMA StreamStep ==
  ASSUME RotationInv, NEW r \in Rotations, streamRotationResults(r)
  PROVE  RotationInv'
<1>1. RotationTypeOK'
  BY SMTT(30) DEF RotationInv, RotationTypeOK, streamRotationResults, Unsent, Proceed, Answer
<1>2. HandlersFit'
  BY DEF RotationInv, RotationTypeOK, HandlersFit, streamRotationResults, Proceed, Answer, Succeeded
<1>3. AppliedFits'
  BY DEF RotationInv, AppliedFits, streamRotationResults
<1>4. HistoryComplete'
  BY SameHistory DEF RotationInv, RotationTypeOK, streamRotationResults, Proceed, Answer
<1> QED BY <1>1, <1>2, <1>3, <1>4 DEF RotationInv

(* The registry and the failures decide only what later steps do. *)
LEMMA EnvironmentStep ==
  ASSUME RotationInv, NEW n \in MeshNodes, ChangeRegistry(n) \/ SetFailure(n)
  PROVE  RotationInv'
<1>1. UNCHANGED <<rpc, targets, tried, acked, sent, applied, records, answered>>
  BY DEF ChangeRegistry, SetFailure, handlers
<1>2. changes' \in 0 .. MaxRegistry /\ registered' \subseteq MeshNodes /\ failing' \subseteq MeshNodes
  <2>1. changes' \in 0 .. MaxRegistry
    <3>1. changes \in 0 .. MaxRegistry /\ changes < MaxRegistry /\ changes' = changes + 1
      BY DEF RotationInv, RotationTypeOK, ChangeRegistry, SetFailure
    <3> QED BY <3>1, MeshRotationAssumption, SMTT(30)
  <2> QED BY <2>1 DEF RotationInv, RotationTypeOK, ChangeRegistry, SetFailure
<1>3. RotationTypeOK'
  BY <1>1, <1>2 DEF RotationInv, RotationTypeOK
<1>4. HandlersFit' /\ AppliedFits' /\ HistoryComplete'
  BY <1>1 DEF RotationInv, HandlersFit, AppliedFits, HistoryComplete, RecordOf
<1> QED BY <1>3, <1>4 DEF RotationInv

(* What the caller of a mesh-wide rotation is told and what the history     *)
(* records is what was done to the mesh, for any registry, any number of    *)
(* overlapping requests and any failures (RotateAWGParamsMeshWide,          *)
(* Orchestrator.Execute).                                                   *)
THEOREM RotationsAreHonest == RotationSpec => []MeshRotationSafe
<1>1. RotationInit => RotationInv
  <2> SUFFICES ASSUME RotationInit PROVE RotationInv
    OBVIOUS
  <2>1. RotationTypeOK /\ HandlersFit /\ AppliedFits
    <3>1. 0 \in 0 .. MaxRegistry /\ <<>> \in Seq(Records)
      BY MeshRotationAssumption, SMTT(30)
    <3>2. RotationTypeOK
      BY <3>1 DEF RotationInit, RotationTypeOK
    <3>3. HandlersFit /\ AppliedFits
      BY DEF RotationInit, HandlersFit, AppliedFits, None
    <3> QED BY <3>2, <3>3
  <2>2. HistoryComplete
    BY SMTT(30) DEF RotationInit, HistoryComplete
  <2> QED BY <2>1, <2>2 DEF RotationInv
<1>2. RotationInv /\ [RotationNext]_rotvars => RotationInv'
  <2> SUFFICES ASSUME RotationInv, [RotationNext]_rotvars PROVE RotationInv'
    OBVIOUS
  <2>1. CASE UNCHANGED rotvars
    <3>1. UNCHANGED <<registered, changes, rpc, targets, tried, acked, sent, applied, records,
                      answered, failing>>
      BY <2>1 DEF rotvars, handlers
    <3>2. RotationTypeOK' /\ HandlersFit' /\ AppliedFits'
      BY <3>1 DEF RotationInv, RotationTypeOK, HandlersFit, AppliedFits
    <3>3. HistoryComplete'
      BY <3>1 DEF RotationInv, HistoryComplete, RecordOf
    <3> QED BY <3>2, <3>3 DEF RotationInv
  <2>2. CASE RotationNext
    BY <2>2, PlanStep, ApplyStep, RecordStep, StreamStep, EnvironmentStep DEF RotationNext
  <2> QED BY <2>1, <2>2
<1>3. RotationInv => MeshRotationSafe
  BY SMTT(30) DEF RotationInv, HandlersFit, AppliedFits, RotationTypeOK, MeshRotationSafe, OkMeansApplied
<1> QED BY <1>1, <1>2, <1>3, PTL DEF RotationSpec

-----------------------------------------------------------------------------
(* The onboarding commands. *)

Marks == {Absent, HalfWritten}
Contents(f) ==
  IF f \in {"admin.crt", "node.crt"} THEN Certs ELSE IF f = "script" THEN Script ELSE Cmds

(* The steps of a node prepare after the CA, the certificate, the key, the *)
(* token and its hash are in place.                                        *)
AfterHash == {"wg.priv", "link priv", "wg.pub", "link pub", "script"}
AfterToken == {"hash", "rename"} \cup AfterHash
AfterKey == {"token"} \cup AfterToken
AfterCrt == {"node.key"} \cup AfterKey
AfterCA == {"node.crt"} \cup AfterCrt
AdminSteps == {"admin", "admin.crt", "admin.key", "dial"}

StepsOf(c) ==
  IF c = "prepare" THEN {"ca", "ca.crt", "ca.key"} \cup (AfterCA \ {"script"})
  ELSE IF c = "mikrotik"
       THEN {"ca", "ca.crt", "ca.key", "node.crt", "node.key", "token", "hash", "rename", "script"}
  ELSE IF c = "init" THEN {"pair", "reread"} \cup AdminSteps
  ELSE IF c = "remove" THEN AdminSteps
  ELSE {"agent", "hash", "rename", "token"}

(* Each file holds what its name says, and a command is at one of its steps. *)
FilesTyped ==
  /\ DOMAIN nodeFile = Path
  /\ \A f \in ConfigFiles : nodeFile[In(Absent, f)] \in Contents(f) \cup Marks
  /\ \A n \in Nodes, f \in NodeFiles : nodeFile[In(n, f)] \in Contents(f) \cup Marks
RestTyped ==
  /\ command \in [Cmds -> SetupCommands \cup {Absent}] /\ node \in [Cmds -> Nodes \cup {Absent}]
  /\ half \in [Cmds -> BOOLEAN] /\ ca \in [Cmds -> Cmds \cup {Absent}]
  /\ cert \in [Cmds -> Certs \cup Marks]
  /\ agent \in [Nodes -> Cmds \cup {Absent}] /\ pinned \in [Nodes -> Certs \cup {Absent}]
  /\ trusted \in Cmds \cup {Absent}
  /\ creators \subseteq Cmds /\ alone \in [Cmds -> BOOLEAN]
  /\ last \in Cmds \cup {Absent} /\ setupFaults \in 0 .. MaxSetupFaults
  /\ DOMAIN pc = Cmds
SetupTyped == FilesTyped /\ RestTyped
Fits ==
  \A o \in Cmds :
    \/ pc[o] = "idle"
    \/ /\ command[o] \in SetupCommands /\ node[o] \in Nodes
       /\ pc[o] \in StepsOf(command[o]) \cup {"ok", "error", "killed"}

(* A command that is alone is the only one that runs. *)
AloneInv == \A o, q \in Cmds : alone[o] /\ Running(o) /\ Running(q) => q = o

CAHeld(o) == WholeCA /\ ca[o] = Conf("ca.crt")

(* What a command wrote is still there, whole or not. *)
Progress(o) ==
  /\ pc[o] = "admin.crt" => ca[o] \in Cmds
  /\ pc[o] = "ca.key" => Conf("ca.crt") # Absent
  /\ command[o] \in Preparing =>
       /\ pc[o] \in AfterCA => ca[o] \in Cmds /\ Conf("ca.crt") # Absent
       /\ pc[o] \in AfterCrt => Of(o, "node.crt") # Absent
       /\ pc[o] \in AfterKey => Of(o, "node.key") # Absent

(* What a command that is alone wrote or read so far is as it left it. *)
PrepareStage(o) ==
  /\ pc[o] = "ca.key" => Conf("ca.crt") = o
  /\ pc[o] \in AfterCA => CAHeld(o)
  /\ pc[o] \in AfterCrt => Of(o, "node.crt") = [id |-> o, ca |-> Conf("ca.crt")]
  /\ pc[o] \in AfterKey => Of(o, "node.key") = o
  /\ pc[o] \in AfterToken => Of(o, "token") = o
  /\ pc[o] = "rename" => Of(o, "mesh.token.tmp") = o
  /\ pc[o] \in AfterHash => Of(o, "mesh.token") = o
InitStage(o) ==
  pc[o] \in {"reread"} \cup AdminSteps =>
    cert[o] \in Certs /\ cert[o] = Of(o, "node.crt") /\ cert[o].id = Of(o, "node.key")
RotateStage(o) ==
  /\ pc[o] \in {"hash", "rename", "token"} => agent[node[o]] = o
  /\ pc[o] = "rename" => Of(o, "mesh.token.tmp") = o
  /\ pc[o] = "token" => Of(o, "mesh.token") = o
Stage(o) ==
  alone[o] =>
    /\ command[o] \in Preparing => PrepareStage(o)
    /\ command[o] = "init" => InitStage(o)
    /\ command[o] = "rotate" => RotateStage(o)

(* Who writes the CA, and, when one command did, that the CA is there for  *)
(* everyone who loaded it.                                                 *)
CAInv ==
  /\ \A o \in Cmds : pc[o] \in {"ca.crt", "ca.key"} => o \in creators /\ ca[o] = o
  /\ \A o \in creators : pc[o] \notin {"idle", "ca"}
  /\ Conf("ca.crt") \in creators \cup Marks /\ Conf("ca.key") \in creators \cup Marks
  /\ OneCreator =>
       /\ \A o \in creators : pc[o] = "ca.crt" => Conf("ca.key") = Absent
       /\ \A o \in creators : pc[o] = "ca.key" => Conf("ca.crt") = o /\ Conf("ca.key") \in Marks
       /\ \A o \in Cmds : command[o] \in Preparing /\ pc[o] \in AfterCA \cup {"ok"} => CAHeld(o)

SetupInv ==
  /\ SetupTyped /\ Fits /\ AloneInv /\ CAInv /\ WGPairMatches /\ SuccessIsUsable
  /\ \A o \in Cmds : Progress(o) /\ Stage(o)

(* Two paths are the same when directory and name are. *)
LEMMA SamePath == \A d, e, f, g : In(d, f) = In(e, g) <=> d = e /\ f = g
  BY SMTT(30) DEF In

LEMMA Paths ==
  /\ \A f \in ConfigFiles : In(Absent, f) \in Path
  /\ \A n \in Nodes, f \in NodeFiles : In(n, f) \in Path
  BY SMTT(30) DEF Path

(* A command's own step: it moves to another place and changes no other    *)
(* command's.                                                              *)
Advance(o, to) ==
  /\ Running(o)
  /\ pc'[o] = to /\ (\A q \in Cmds : q # o => pc'[q] = pc[q]) /\ DOMAIN pc' = Cmds
  /\ last' = IF to \in Ended THEN o ELSE last
  /\ UNCHANGED <<alone, command, node>>

(* What one step leaves of a path, and of all others. *)
Puts(p, content) ==
  /\ nodeFile'[p] = content
  /\ \A q \in Path : q # p => nodeFile'[q] = nodeFile[q]
  /\ DOMAIN nodeFile' = Path

(* A write truncates, writes or fails. *)
LEMMA WriteShape ==
  ASSUME SetupTyped, NEW o \in Cmds, NEW here, here \notin Ended, NEW p \in Path,
         NEW content, NEW to, WriteFile(o, here, p, content, to)
  PROVE  /\ pc[o] = here
         /\ \/ Advance(o, here) /\ Puts(p, HalfWritten)
            \/ Advance(o, to) /\ Puts(p, content)
            \/ Advance(o, "error") /\ Puts(p, nodeFile[p])
         /\ half' \in [Cmds -> BOOLEAN] /\ setupFaults' \in 0 .. MaxSetupFaults
         /\ UNCHANGED <<ca, cert, agent, pinned, trusted, creators>>
<1> DEFINE N == 0 .. MaxSetupFaults
<1>0. /\ DOMAIN nodeFile = Path /\ DOMAIN pc = Cmds
      /\ half \in [Cmds -> BOOLEAN] /\ setupFaults \in N
  BY DEF SetupTyped, FilesTyped, RestTyped
<1>f. setupFaults < MaxSetupFaults => setupFaults + 1 \in N
  BY <1>0, SetupAssumption, SMTT(30)
<1> HIDE DEF N
<1>1. pc[o] = here /\ Running(o)
  BY DEF WriteFile, At, Running
<1>2. UNCHANGED <<command, node, ca, cert, agent, pinned, trusted>>
  BY DEF WriteFile, KeepRest, memory, remote
<1>3. CASE /\ nodeFile' = [nodeFile EXCEPT ![p] = HalfWritten] /\ half' = [half EXCEPT ![o] = TRUE]
           /\ UNCHANGED <<pc, history, setupFaults>>
  <2>2. Advance(o, here)
    BY <1>0, <1>1, <1>2, <1>3 DEF Advance, history
  <2>3. Puts(p, HalfWritten)
    BY <1>0, <1>3 DEF Puts
  <2> QED BY <2>2, <2>3, <1>0, <1>1, <1>2, <1>3 DEF history, N
<1>4. CASE /\ half' = [half EXCEPT ![o] = FALSE]
           /\ nodeFile' = [nodeFile EXCEPT ![p] = content] /\ Go(o, to) /\ UNCHANGED setupFaults
  <2>1. Advance(o, to)
    BY <1>0, <1>1, <1>2, <1>4 DEF Advance, Go
  <2>2. Puts(p, content)
    BY <1>0, <1>4 DEF Puts
  <2> QED BY <2>1, <2>2, <1>0, <1>1, <1>2, <1>4 DEF Go, N
<1>5. CASE /\ half' = [half EXCEPT ![o] = FALSE]
           /\ SetupFault /\ UNCHANGED nodeFile /\ Go(o, "error")
  <2>1. Advance(o, "error")
    BY <1>0, <1>1, <1>2, <1>5 DEF Advance, Go
  <2>2. Puts(p, nodeFile[p])
    BY <1>0, <1>5 DEF Puts
  <2>3. setupFaults' \in N
    BY <1>5, <1>f DEF SetupFault
  <2> QED BY <2>1, <2>2, <2>3, <1>0, <1>1, <1>2, <1>5 DEF Go, N
<1> QED BY <1>3, <1>4, <1>5 DEF WriteFile


(* No step is an end, and the sets of steps are nested. *)
LEMMA StepSets ==
  /\ \A x \in Ended : /\ x \notin AfterCA /\ x \notin AdminSteps
                      /\ x \notin {"reread", "ca.key", "ca.crt", "hash", "rename", "token"}
  /\ AfterHash \subseteq AfterToken /\ AfterToken \subseteq AfterKey
  /\ AfterKey \subseteq AfterCrt /\ AfterCrt \subseteq AfterCA
  BY DEF Ended, AfterCA, AfterCrt, AfterKey, AfterToken, AfterHash, AdminSteps

(* Files the progress of others rests on do not disappear. *)
Kept ==
  /\ Conf("ca.crt") # Absent => Conf("ca.crt")' # Absent
  /\ \A n \in Nodes, f \in {"node.crt", "node.key"} :
       nodeFile[In(n, f)] # Absent => nodeFile'[In(n, f)] # Absent

(* A command's step leaves what is said of the others. *)
LEMMA OthersKeep ==
  ASSUME SetupInv, NEW o \in Cmds, NEW to, Advance(o, to), Kept,
         \A q \in Cmds : q # o => ca'[q] = ca[q],
         NEW q \in Cmds, q # o
  PROVE  Progress(q)' /\ Stage(q)'
<1> USE DEF SetupInv
<1>1. pc'[q] = pc[q] /\ command'[q] = command[q] /\ node'[q] = node[q] /\ alone'[q] = alone[q]
  BY DEF Advance
<1>2. Progress(q)'
  <2>1. pc[q] \in AfterCA => node[q] \in Nodes
    BY StepSets DEF Fits, Ended
  <2>2. /\ pc[q] \in AfterCA /\ Of(q, "node.crt") # Absent => Of(q, "node.crt")' # Absent
        /\ pc[q] \in AfterCA /\ Of(q, "node.key") # Absent => Of(q, "node.key")' # Absent
    BY <2>1, <1>1 DEF Kept, Of, Dir
  <2>3. Progress(q)
    OBVIOUS
  <2> QED BY <2>2, <2>3, <1>1, StepSets DEF Kept, Progress
<1>3. Stage(q)'
  <2>1. alone[q] => pc[q] \in Ended
    BY DEF AloneInv, Advance, Running
  <2>2. ASSUME pc[q] \in Ended PROVE PrepareStage(q)' /\ InitStage(q)' /\ RotateStage(q)'
    BY <2>2, <1>1, StepSets DEF PrepareStage, InitStage, RotateStage
  <2> QED BY <2>1, <2>2, <1>1 DEF Stage
<1> QED BY <1>2, <1>3

(* What has to be shown of a command's step. *)
LEMMA OwnStep ==
  ASSUME SetupInv, NEW o \in Cmds, NEW to, Advance(o, to), Kept,
         to \in StepsOf(command[o]) \cup {"ok", "error", "killed"},
         \A q \in Cmds : q # o => ca'[q] = ca[q],
         SetupTyped', Progress(o)', Stage(o)', CAInv', WGPairMatches',
         to = "ok" /\ alone[o] => Usable(o)'
  PROVE  SetupInv'
<1> USE DEF SetupInv
<1>1. Fits'
  <2>1. pc[o] # "idle"
    BY DEF Advance, Running, Ended
  <2> QED BY <2>1 DEF Fits, Advance
<1>2. AloneInv'
  BY DEF AloneInv, Advance, Running
<1>3. SuccessIsUsable'
  <2> SUFFICES ASSUME NEW q \in Cmds, pc'[q] = "ok", alone'[q], last' = q, \A r \in Cmds : ~Running(r)'
               PROVE  Usable(q)'
    BY DEF SuccessIsUsable, At
  <2>1. q = o
    BY DEF Advance, Running
  <2> QED BY <2>1 DEF Advance
<1>4. \A q \in Cmds : Progress(q)' /\ Stage(q)'
  BY OthersKeep
<1> QED BY <1>1, <1>2, <1>3, <1>4

(* A step that leaves the CA files alone, and no new command between "ca"  *)
(* and the end of the CA, keeps what is said about the CA.                 *)
LEMMA CAFrame ==
  ASSUME SetupInv, NEW o \in Cmds, NEW to, Advance(o, to),
         Conf("ca.crt")' = Conf("ca.crt"), Conf("ca.key")' = Conf("ca.key"),
         creators' = creators, \A q \in Cmds : q # o => ca'[q] = ca[q],
         to \notin {"ca", "ca.crt", "ca.key", "idle"},
         command[o] \in Preparing /\ to \in AfterCA \cup {"ok"} =>
           CAHeld(o)' \/ (ca'[o] = ca[o] /\ pc[o] \in AfterCA)
  PROVE  CAInv'
<1> USE DEF SetupInv
<1>0. creators \subseteq Cmds
  BY DEF SetupTyped, RestTyped
<1>1. WholeCA' <=> WholeCA
  BY DEF WholeCA, Has, Conf
<1>2. \A q \in Cmds : pc'[q] \in {"ca.crt", "ca.key", "idle", "ca"} => pc'[q] = pc[q] /\ ca'[q] = ca[q]
  BY DEF Advance
<1>3. /\ \A q \in Cmds : pc'[q] \in {"ca.crt", "ca.key"} => q \in creators' /\ ca'[q] = q
      /\ \A q \in creators' : pc'[q] \notin {"idle", "ca"}
      /\ Conf("ca.crt")' \in creators' \cup Marks /\ Conf("ca.key")' \in creators' \cup Marks
  BY <1>0, <1>2 DEF CAInv
<1>4. ASSUME OneCreator'
      PROVE  /\ \A q \in creators' : pc'[q] = "ca.crt" => Conf("ca.key")' = Absent
             /\ \A q \in creators' : pc'[q] = "ca.key" => Conf("ca.crt")' = q /\ Conf("ca.key")' \in Marks
             /\ \A q \in Cmds : command'[q] \in Preparing /\ pc'[q] \in AfterCA \cup {"ok"} => CAHeld(q)'
  <2>0. OneCreator
    BY <1>4 DEF OneCreator
  <2>1. /\ \A q \in creators' : pc'[q] = "ca.crt" => Conf("ca.key")' = Absent
        /\ \A q \in creators' : pc'[q] = "ca.key" => Conf("ca.crt")' = q /\ Conf("ca.key")' \in Marks
    BY <2>0, <1>0, <1>2 DEF CAInv
  <2>2. ASSUME NEW q \in Cmds, command'[q] \in Preparing, pc'[q] \in AfterCA \cup {"ok"}
        PROVE  CAHeld(q)'
    <3> SUFFICES ASSUME ~CAHeld(q)' PROVE FALSE
      OBVIOUS
    <3>1. ca'[q] = ca[q] /\ pc[q] \in AfterCA \cup {"ok"} /\ command[q] \in Preparing
      BY <2>2 DEF Advance
    <3>2. CAHeld(q)
      BY <3>1, <2>0 DEF CAInv
    <3> QED BY <3>1, <3>2, <1>1 DEF CAHeld
  <2> QED BY <2>1, <2>2
<1> QED BY <1>3, <1>4 DEF CAInv, Marks


(* The typing of the files is the type invariant's. *)
LEMMA SetupTypes == SetupTyped => SetupTypeOK
<1> SUFFICES ASSUME SetupTyped PROVE \A p \in Path : nodeFile[p] \in Cmds \cup Certs \cup Script \cup {Absent, HalfWritten}
  BY DEF SetupTyped, FilesTyped, RestTyped, SetupTypeOK, Marks
<1> TAKE p \in Path
<1>1. CASE \E f \in ConfigFiles : p = In(Absent, f)
  BY <1>1 DEF SetupTyped, FilesTyped, Contents, Marks
<1>2. CASE \E n \in Nodes, f \in NodeFiles : p = In(n, f)
  BY <1>2 DEF SetupTyped, FilesTyped, Contents, Marks
<1> QED BY <1>1, <1>2, SMTT(30) DEF Path

(* What is generated is neither absent nor half written. *)
LEMMA Whole == \A f, c : c \in Contents(f) => c \notin Marks
  BY SetupAssumption DEF Contents, Marks

(* A path that is written, among the others. *)
Writable(d, f) ==
  \/ d = Absent /\ f \in ConfigFiles
  \/ d \in Nodes /\ f \in NodeFiles /\ f \notin {"wg.priv", "wg.pub"}

LEMMA PutsOthers ==
  ASSUME NEW d, NEW f, Writable(d, f), NEW c, Puts(In(d, f), c)
  PROVE  /\ nodeFile'[In(d, f)] = c
         /\ \A g \in ConfigFiles : d # Absent \/ g # f => nodeFile'[In(Absent, g)] = nodeFile[In(Absent, g)]
         /\ \A n \in Nodes, g \in NodeFiles : d # n \/ g # f => nodeFile'[In(n, g)] = nodeFile[In(n, g)]
<1>1. \A e, g : d # e \/ g # f => In(e, g) # In(d, f)
  BY SamePath, SMTT(30)
<1>2. \A p \in Path : p # In(d, f) => nodeFile'[p] = nodeFile[p]
  BY DEF Puts
<1>3. nodeFile'[In(d, f)] = c
  BY DEF Puts
<1>4. \A g \in ConfigFiles : d # Absent \/ g # f => nodeFile'[In(Absent, g)] = nodeFile[In(Absent, g)]
  BY <1>1, <1>2, Paths, SMTT(30)
<1>5. \A n \in Nodes, g \in NodeFiles : d # n \/ g # f => nodeFile'[In(n, g)] = nodeFile[In(n, g)]
  BY <1>1, <1>2, Paths, SMTT(30)
<1> QED BY <1>3, <1>4, <1>5

(* A write keeps the types, the WireGuard keys and the presence of files. *)
LEMMA PutsKeep ==
  ASSUME SetupInv, NEW d, NEW f, Writable(d, f), NEW c, Puts(In(d, f), c),
         c \in Contents(f) \cup {HalfWritten, nodeFile[In(d, f)]}
  PROVE  FilesTyped' /\ WGPairMatches' /\ Kept
<1> USE DEF SetupInv
<1>1. /\ nodeFile'[In(d, f)] = c
      /\ \A g \in ConfigFiles : d # Absent \/ g # f => nodeFile'[In(Absent, g)] = nodeFile[In(Absent, g)]
      /\ \A n \in Nodes, g \in NodeFiles : d # n \/ g # f => nodeFile'[In(n, g)] = nodeFile[In(n, g)]
  BY PutsOthers
<1>2. FilesTyped
  BY DEF SetupTyped
<1>3. nodeFile[In(d, f)] \in Contents(f) \cup Marks
  BY <1>2 DEF Writable, FilesTyped
<1>4. c \in Contents(f) \cup Marks
  BY <1>3 DEF Marks
<1>5. FilesTyped'
  BY <1>1, <1>2, <1>4 DEF FilesTyped, Puts
<1>6. WGPairMatches'
  <2>1. \A n \in Nodes, g \in {"wg.priv", "wg.pub"} : nodeFile'[In(n, g)] = nodeFile[In(n, g)]
    <3> TAKE n \in Nodes, g \in {"wg.priv", "wg.pub"}
    <3>1. g \in NodeFiles /\ (d # n \/ g # f)
      BY SetupAssumption DEF Writable, NodeFiles
    <3> QED BY <3>1, <1>1
  <2> QED BY <2>1 DEF WGPairMatches
<1>7. Kept
  <2>1. c # Absent \/ c = nodeFile[In(d, f)]
    BY Whole, SetupAssumption DEF Marks
  <2>2. "ca.crt" \in ConfigFiles /\ "node.crt" \in NodeFiles /\ "node.key" \in NodeFiles
    BY DEF ConfigFiles, NodeFiles
  <2> QED BY <2>1, <2>2, <1>1 DEF Kept, Conf
<1> QED BY <1>5, <1>6, <1>7

(* The types of the rest, after a command's step. *)
LEMMA RestKept ==
  ASSUME SetupInv, NEW o \in Cmds, NEW to, Advance(o, to),
         half' \in [Cmds -> BOOLEAN], setupFaults' \in 0 .. MaxSetupFaults,
         ca' \in [Cmds -> Cmds \cup {Absent}], cert' \in [Cmds -> Certs \cup Marks],
         agent' \in [Nodes -> Cmds \cup {Absent}], pinned' \in [Nodes -> Certs \cup {Absent}],
         trusted' = trusted, creators' \subseteq Cmds
  PROVE  RestTyped'
  BY DEF SetupInv, SetupTyped, RestTyped, Advance, Marks


(* Which command is at a step. *)
LEMMA AtStep ==
  ASSUME SetupInv, NEW o \in Cmds
  PROVE  /\ pc[o] \notin Ended => node[o] \in Nodes /\ command[o] \in SetupCommands
         /\ pc[o] \in {"ca", "ca.crt", "ca.key", "node.crt", "node.key"} => command[o] \in Preparing
         /\ pc[o] \in {"token", "hash", "rename"} => command[o] \in Preparing \cup {"rotate"}
         /\ pc[o] \in {"wg.priv", "link priv", "wg.pub", "link pub"} => command[o] = "prepare"
         /\ pc[o] = "script" => command[o] = "mikrotik"
         /\ pc[o] \in {"pair", "reread"} => command[o] = "init"
         /\ pc[o] \in AdminSteps => command[o] \in {"init", "remove"}
         /\ pc[o] = "agent" => command[o] = "rotate"
<1>1. \/ pc[o] = "idle"
      \/ /\ command[o] \in SetupCommands /\ node[o] \in Nodes
         /\ pc[o] \in StepsOf(command[o]) \cup {"ok", "error", "killed"}
  BY DEF SetupInv, Fits
<1>2. /\ StepsOf("prepare") = {"ca", "ca.crt", "ca.key", "node.crt", "node.key", "token", "hash", "rename",
                               "wg.priv", "link priv", "wg.pub", "link pub"}
      /\ StepsOf("mikrotik") = {"ca", "ca.crt", "ca.key", "node.crt", "node.key", "token", "hash", "rename", "script"}
      /\ StepsOf("init") = {"pair", "reread"} \cup AdminSteps
      /\ StepsOf("remove") = AdminSteps
      /\ StepsOf("rotate") = {"agent", "hash", "rename", "token"}
  BY DEF StepsOf, AfterCA, AfterCrt, AfterKey, AfterToken, AfterHash
<1>3. pc[o] \notin Ended => node[o] \in Nodes /\ command[o] \in SetupCommands
  BY <1>1 DEF Ended
<1>4. CASE pc[o] \in Ended
  BY <1>4, StepSets DEF Ended
<1>5. CASE pc[o] \notin Ended
  <2>1. pc[o] \in StepsOf(command[o])
    BY <1>1, <1>5 DEF Ended
  <2>2. CASE command[o] = "prepare"
    BY <2>1, <2>2, <1>2, <1>3 DEF Preparing, AdminSteps
  <2>3. CASE command[o] = "mikrotik"
    BY <2>1, <2>3, <1>2, <1>3 DEF Preparing, AdminSteps
  <2>4. CASE command[o] = "init"
    BY <2>1, <2>4, <1>2, <1>3 DEF Preparing, AdminSteps
  <2>5. CASE command[o] = "remove"
    BY <2>1, <2>5, <1>2, <1>3 DEF Preparing, AdminSteps
  <2>6. CASE command[o] = "rotate"
    BY <2>1, <2>6, <1>2, <1>3 DEF Preparing, AdminSteps
  <2> QED BY <1>3, <1>5, <2>2, <2>3, <2>4, <2>5, <2>6 DEF SetupCommands
<1> QED BY <1>4, <1>5

(* The steps of each command, as sets of strings. *)
LEMMA StepsAre ==
  /\ \A c \in Preparing : {"ca", "ca.crt", "ca.key", "node.crt", "node.key", "token", "hash", "rename"} \subseteq StepsOf(c)
  /\ {"wg.priv", "link priv", "wg.pub", "link pub"} \subseteq StepsOf("prepare")
  /\ "script" \in StepsOf("mikrotik")
  /\ {"pair", "reread"} \subseteq StepsOf("init")
  /\ AdminSteps \subseteq StepsOf("init") /\ AdminSteps \subseteq StepsOf("remove")
  /\ {"agent", "hash", "rename", "token"} \subseteq StepsOf("rotate")
  BY DEF Preparing, StepsOf, AfterCA, AfterCrt, AfterKey, AfterToken, AfterHash

(* The files of a command's node and of the mesh after it wrote one. *)
LEMMA OwnFiles ==
  ASSUME NEW o \in Cmds, node[o] \in Nodes, UNCHANGED node, NEW f \in NodeFiles, f \notin {"wg.priv", "wg.pub"},
         NEW c, Puts(Dir(o, f), c)
  PROVE  /\ Of(o, f)' = c
         /\ \A g \in NodeFiles : g # f => Of(o, g)' = Of(o, g)
         /\ \A g \in ConfigFiles : Conf(g)' = Conf(g)
<1>1. Writable(node[o], f) /\ node[o] # Absent /\ Puts(In(node[o], f), c)
  BY SetupAssumption DEF Writable, Dir
<1>2. /\ nodeFile'[In(node[o], f)] = c
      /\ \A g \in ConfigFiles : node[o] # Absent \/ g # f => nodeFile'[In(Absent, g)] = nodeFile[In(Absent, g)]
      /\ \A n \in Nodes, g \in NodeFiles : node[o] # n \/ g # f => nodeFile'[In(n, g)] = nodeFile[In(n, g)]
  BY <1>1, PutsOthers
<1>3. \A g : Of(o, g)' = nodeFile'[In(node[o], g)] /\ Of(o, g) = nodeFile[In(node[o], g)]
  BY DEF Of, Dir
<1>4. \A g : Conf(g)' = nodeFile'[In(Absent, g)] /\ Conf(g) = nodeFile[In(Absent, g)]
  BY DEF Conf
<1> QED BY <1>1, <1>2, <1>3, <1>4, SMTT(30)

(* A write to a file of the command's node: what is left to show is about  *)
(* the command itself.                                                     *)
LEMMA NodeWrite ==
  ASSUME SetupInv, NEW o \in Cmds, NEW here, here \notin Ended, here \notin {"ca", "ca.crt", "ca.key"},
         NEW f \in NodeFiles, f \notin {"wg.priv", "wg.pub"}, NEW content \in Contents(f), NEW to,
         WriteFile(o, here, Dir(o, f), content, to),
         to \in StepsOf(command[o]) \cup {"ok"}, to \notin {"ca", "ca.crt", "ca.key"},
         command[o] \in Preparing /\ to \in AfterCA \cup {"ok"} => here \in AfterCA,
         \A t, c :
           /\ Advance(o, t) /\ Puts(Dir(o, f), c)
           /\ UNCHANGED <<ca, cert, agent, pinned>>
           /\ t = here \/ (t = to /\ c = content) \/ t = "error"
           => Progress(o)' /\ Stage(o)' /\ (t = "ok" /\ alone[o] => Usable(o)')
  PROVE  SetupInv'
<1>0. pc[o] = here /\ here \in StepsOf(command[o]) /\ node[o] \in Nodes
  <2>1. pc[o] = here
    BY DEF WriteFile, At
  <2> QED BY <2>1, AtStep DEF SetupInv, Fits, Ended
<1>1. Dir(o, f) \in Path /\ Writable(node[o], f) /\ Dir(o, f) = In(node[o], f)
  BY <1>0, Paths DEF Writable, Dir
<1>2. /\ \/ Advance(o, here) /\ Puts(Dir(o, f), HalfWritten)
         \/ Advance(o, to) /\ Puts(Dir(o, f), content)
         \/ Advance(o, "error") /\ Puts(Dir(o, f), nodeFile[Dir(o, f)])
      /\ half' \in [Cmds -> BOOLEAN] /\ setupFaults' \in 0 .. MaxSetupFaults
      /\ UNCHANGED <<ca, cert, agent, pinned, trusted, creators>>
  BY <1>1, WriteShape DEF SetupInv
<1>3. PICK t, c : /\ Advance(o, t) /\ Puts(Dir(o, f), c)
                  /\ c \in Contents(f) \cup {HalfWritten, nodeFile[Dir(o, f)]}
                  /\ t = here \/ (t = to /\ c = content) \/ t = "error"
  BY <1>2
<1>4. FilesTyped' /\ WGPairMatches' /\ Kept
  BY <1>1, <1>3, PutsKeep
<1>5. RestTyped'
  BY <1>2, <1>3, RestKept DEF SetupInv, SetupTyped, RestTyped
<1>6. \A g \in ConfigFiles : Conf(g)' = Conf(g)
  BY <1>0, <1>3, OwnFiles DEF Advance
<1>7. CAInv'
  <2>1. Conf("ca.crt")' = Conf("ca.crt") /\ Conf("ca.key")' = Conf("ca.key")
    BY <1>6 DEF ConfigFiles
  <2>2. t \notin {"ca", "ca.crt", "ca.key", "idle"}
    BY <1>3 DEF Ended, StepsOf, AfterCA, AfterCrt, AfterKey, AfterToken, AfterHash, AdminSteps
  <2>3. command[o] \in Preparing /\ t \in AfterCA \cup {"ok"} => ca'[o] = ca[o] /\ pc[o] \in AfterCA
    <3>1. "error" \notin AfterCA \cup {"ok"} /\ here # "ok"
      BY StepSets DEF Ended
    <3> QED BY <1>0, <1>2, <1>3, <3>1
  <2> QED BY <1>2, <1>3, <2>1, <2>2, <2>3, CAFrame
<1>8. Progress(o)' /\ Stage(o)' /\ (t = "ok" /\ alone[o] => Usable(o)')
  BY <1>2, <1>3
<1> QED BY <1>0, <1>2, <1>3, <1>4, <1>5, <1>7, <1>8, OwnStep DEF SetupTyped


(* Where each step of node prepare stands. *)
LEMMA Standing ==
  /\ \A x \in {"ca", "ca.crt", "ca.key", "ok", "error", "killed"} :
       x \notin AfterCA /\ x \notin AfterCrt /\ x \notin AfterKey /\ x \notin AfterToken /\ x \notin AfterHash
  /\ "node.crt" \in AfterCA /\ "node.crt" \notin AfterCrt /\ "node.crt" \notin AfterKey
  /\ "node.crt" \notin AfterToken /\ "node.crt" \notin AfterHash
  /\ "node.key" \in AfterCA /\ "node.key" \in AfterCrt /\ "node.key" \notin AfterKey
  /\ "node.key" \notin AfterToken /\ "node.key" \notin AfterHash
  /\ "token" \in AfterCA /\ "token" \in AfterCrt /\ "token" \in AfterKey
  /\ "token" \notin AfterToken /\ "token" \notin AfterHash
  /\ \A x \in {"hash", "rename"} :
       x \in AfterCA /\ x \in AfterCrt /\ x \in AfterKey /\ x \in AfterToken /\ x \notin AfterHash
  /\ \A x \in {"wg.priv", "link priv", "wg.pub", "link pub", "script"} :
       x \in AfterCA /\ x \in AfterCrt /\ x \in AfterKey /\ x \in AfterToken /\ x \in AfterHash
  BY DEF AfterCA, AfterCrt, AfterKey, AfterToken, AfterHash

(* SaveCertKey. *)
LEMMA CrtKeeps ==
  ASSUME SetupInv, NEW o \in Cmds,
         WriteFile(o, "node.crt", Dir(o, "node.crt"), [id |-> o, ca |-> ca[o]], "node.key")
  PROVE  SetupInv'
<1> DEFINE content == [id |-> o, ca |-> ca[o]]
<1>0. pc[o] = "node.crt" /\ "node.crt" \notin Ended
  BY DEF WriteFile, At, Ended
<1>1. command[o] \in Preparing /\ node[o] \in Nodes
  BY <1>0, AtStep
<1>2. Progress(o) /\ Stage(o)
  BY DEF SetupInv
<1>3. ca[o] \in Cmds /\ Conf("ca.crt") # Absent
  BY <1>0, <1>1, <1>2, Standing DEF Progress
<1>4. content \in Contents("node.crt") /\ content # Absent
  <2>1. content \in Certs
    BY <1>3, SMTT(30) DEF Certs
  <2> QED BY <2>1, SetupAssumption DEF Contents
<1>5. alone[o] => CAHeld(o)
  BY <1>0, <1>1, <1>2, Standing DEF Stage, PrepareStage
<1>6. ASSUME NEW t, NEW c, Advance(o, t), Puts(Dir(o, "node.crt"), c),
             UNCHANGED <<ca, cert, agent, pinned>>,
             t = "node.crt" \/ (t = "node.key" /\ c = content) \/ t = "error"
      PROVE  Progress(o)' /\ Stage(o)' /\ (t = "ok" /\ alone[o] => Usable(o)')
  <2> HIDE DEF content
  <2>1. /\ Of(o, "node.crt")' = c
        /\ \A g \in ConfigFiles : Conf(g)' = Conf(g)
    BY <1>1, <1>6, OwnFiles DEF Advance, NodeFiles
  <2>2. Conf("ca.crt")' = Conf("ca.crt") /\ Conf("ca.key")' = Conf("ca.key")
    BY <2>1 DEF ConfigFiles
  <2>3. pc'[o] = t /\ command'[o] = command[o] /\ ca'[o] = ca[o] /\ alone'[o] = alone[o]
    BY <1>6 DEF Advance
  <2>4. Progress(o)'
    BY <1>3, <1>4, <1>6, <2>1, <2>2, <2>3, Standing DEF Progress
  <2>5. alone[o] => CAHeld(o)'
    BY <1>5, <2>2, <2>3 DEF CAHeld, WholeCA, Has, Conf
  <2>6. alone[o] /\ t = "node.key" => Of(o, "node.crt")' = [id |-> o, ca |-> Conf("ca.crt")']
    BY <1>5, <1>6, <2>1, <2>2 DEF CAHeld, content
  <2>7. alone[o] => PrepareStage(o)'
    BY <1>6, <2>3, <2>5, <2>6, Standing DEF PrepareStage
  <2>8. Stage(o)'
    BY <1>1, <2>3, <2>7 DEF Stage, Preparing
  <2> QED BY <1>6, <2>4, <2>8
<1>7. /\ "node.crt" \notin {"ca", "ca.crt", "ca.key"} /\ "node.key" \notin {"ca", "ca.crt", "ca.key"}
      /\ "node.key" \in StepsOf(command[o]) /\ "node.crt" \in AfterCA
      /\ "node.crt" \in NodeFiles /\ "node.crt" \notin {"wg.priv", "wg.pub"}
  BY <1>1, StepsAre, Standing DEF NodeFiles
<1> HIDE DEF content
<1> QED BY <1>0, <1>4, <1>6, <1>7, NodeWrite DEF content

LEMMA KeyKeeps ==
  ASSUME SetupInv, NEW o \in Cmds, WriteFile(o, "node.key", Dir(o, "node.key"), o, "token")
  PROVE  SetupInv'
<1>0. pc[o] = "node.key" /\ "node.key" \notin Ended
  BY DEF WriteFile, At, Ended
<1>1. command[o] \in Preparing /\ node[o] \in Nodes
  BY <1>0, AtStep
<1>2. Progress(o) /\ Stage(o)
  BY DEF SetupInv
<1>3. ca[o] \in Cmds /\ Conf("ca.crt") # Absent /\ Of(o, "node.crt") # Absent
  BY <1>0, <1>1, <1>2, Standing DEF Progress
<1>4. o \in Contents("node.key") /\ o # Absent
  BY SetupAssumption DEF Contents
<1>5. alone[o] => CAHeld(o) /\ Of(o, "node.crt") = [id |-> o, ca |-> Conf("ca.crt")]
  BY <1>0, <1>1, <1>2, Standing DEF Stage, PrepareStage
<1>6. ASSUME NEW t, NEW c, Advance(o, t), Puts(Dir(o, "node.key"), c),
             UNCHANGED <<ca, cert, agent, pinned>>,
             t = "node.key" \/ (t = "token" /\ c = o) \/ t = "error"
      PROVE  Progress(o)' /\ Stage(o)' /\ (t = "ok" /\ alone[o] => Usable(o)')
  <2>1. /\ Of(o, "node.key")' = c
        /\ \A g \in NodeFiles : g # "node.key" => Of(o, g)' = Of(o, g)
        /\ \A g \in ConfigFiles : Conf(g)' = Conf(g)
    BY <1>1, <1>6, OwnFiles DEF Advance, NodeFiles
  <2>2. /\ Conf("ca.crt")' = Conf("ca.crt") /\ Conf("ca.key")' = Conf("ca.key")
        /\ Of(o, "node.crt")' = Of(o, "node.crt")
    BY <2>1 DEF ConfigFiles, NodeFiles
  <2>3. pc'[o] = t /\ command'[o] = command[o] /\ ca'[o] = ca[o] /\ alone'[o] = alone[o]
    BY <1>6 DEF Advance
  <2>4. Progress(o)'
    BY <1>3, <1>4, <1>6, <2>1, <2>2, <2>3, Standing DEF Progress
  <2>5. alone[o] => CAHeld(o)'
    BY <1>5, <2>2, <2>3 DEF CAHeld, WholeCA, Has, Conf
  <2>7. alone[o] => PrepareStage(o)'
    BY <1>5, <1>6, <2>1, <2>2, <2>3, <2>5, Standing DEF PrepareStage
  <2>8. Stage(o)'
    BY <1>1, <2>3, <2>7 DEF Stage, Preparing
  <2> QED BY <1>6, <2>4, <2>8
<1>7. /\ "node.key" \notin {"ca", "ca.crt", "ca.key"} /\ "token" \notin {"ca", "ca.crt", "ca.key"}
      /\ "token" \in StepsOf(command[o]) /\ "node.key" \in AfterCA
      /\ "node.key" \in NodeFiles /\ "node.key" \notin {"wg.priv", "wg.pub"}
  BY <1>1, StepsAre, Standing DEF NodeFiles
<1> QED BY <1>0, <1>4, <1>6, <1>7, NodeWrite


(* saveToken, on the way of node prepare or at the end of token rotate. *)
LEMMA TokenKeeps ==
  ASSUME SetupInv, NEW o \in Cmds, saveToken(o)
  PROVE  SetupInv'
<1> DEFINE to == IF command[o] = "rotate" THEN "ok" ELSE "hash"
<1>0. pc[o] = "token" /\ "token" \notin Ended
  BY DEF saveToken, WriteFile, At, Ended
<1>1. command[o] \in Preparing \cup {"rotate"} /\ node[o] \in Nodes
  BY <1>0, AtStep
<1>2. Progress(o) /\ Stage(o)
  BY DEF SetupInv
<1>3. command[o] \in Preparing =>
        ca[o] \in Cmds /\ Conf("ca.crt") # Absent /\ Of(o, "node.crt") # Absent /\ Of(o, "node.key") # Absent
  BY <1>0, <1>2, Standing DEF Progress
<1>4. o \in Contents("token")
  BY DEF Contents
<1>5. /\ alone[o] /\ command[o] \in Preparing =>
           CAHeld(o) /\ Of(o, "node.crt") = [id |-> o, ca |-> Conf("ca.crt")] /\ Of(o, "node.key") = o
      /\ alone[o] /\ command[o] = "rotate" => agent[node[o]] = o /\ Of(o, "mesh.token") = o
  BY <1>0, <1>2, Standing DEF Stage, PrepareStage, RotateStage
<1>6. ASSUME NEW t, NEW c, Advance(o, t), Puts(Dir(o, "token"), c),
             UNCHANGED <<ca, cert, agent, pinned>>,
             t = "token" \/ (t = to /\ c = o) \/ t = "error"
      PROVE  Progress(o)' /\ Stage(o)' /\ (t = "ok" /\ alone[o] => Usable(o)')
  <2>1. /\ Of(o, "token")' = c
        /\ \A g \in NodeFiles : g # "token" => Of(o, g)' = Of(o, g)
        /\ \A g \in ConfigFiles : Conf(g)' = Conf(g)
    BY <1>1, <1>6, OwnFiles DEF Advance, NodeFiles
  <2>2. /\ Conf("ca.crt")' = Conf("ca.crt") /\ Conf("ca.key")' = Conf("ca.key")
        /\ Of(o, "node.crt")' = Of(o, "node.crt") /\ Of(o, "node.key")' = Of(o, "node.key")
        /\ Of(o, "mesh.token")' = Of(o, "mesh.token")
    BY <2>1 DEF ConfigFiles, NodeFiles
  <2>3. /\ pc'[o] = t /\ command'[o] = command[o] /\ ca'[o] = ca[o] /\ alone'[o] = alone[o]
        /\ agent'[node'[o]] = agent[node[o]]
    BY <1>6 DEF Advance
  <2>4. Progress(o)'
    <3>1. pc'[o] # "admin.crt" /\ pc'[o] # "ca.key"
      BY <1>6, <2>3
    <3> QED BY <1>3, <2>2, <2>3, <3>1 DEF Progress
  <2>5. alone[o] /\ command[o] \in Preparing => CAHeld(o)'
    BY <1>5, <2>2, <2>3 DEF CAHeld, WholeCA, Has, Conf
  <2>7. alone[o] /\ command[o] \in Preparing => PrepareStage(o)'
    <3>1. command[o] \in Preparing => t = "token" \/ (t = "hash" /\ c = o) \/ t = "error"
      BY <1>6 DEF Preparing
    <3> QED BY <1>5, <3>1, <2>1, <2>2, <2>3, <2>5, Standing DEF PrepareStage
  <2>8. alone[o] /\ command[o] = "rotate" => RotateStage(o)'
    BY <1>5, <1>6, <2>2, <2>3 DEF RotateStage
  <2>9. Stage(o)'
    BY <1>1, <2>3, <2>7, <2>8 DEF Stage, Preparing
  <2>10. t = "ok" /\ alone[o] => Usable(o)'
    <3>1. t = "ok" => command[o] = "rotate" /\ c = o
      BY <1>6
    <3> QED BY <3>1, <1>5, <2>1, <2>2, <2>3 DEF Usable, Preparing
  <2> QED BY <2>4, <2>9, <2>10
<1>7. /\ "token" \notin {"ca", "ca.crt", "ca.key"} /\ to \notin {"ca", "ca.crt", "ca.key"}
      /\ "token" \in AfterCA /\ "token" \in NodeFiles /\ "token" \notin {"wg.priv", "wg.pub"}
  BY Standing DEF NodeFiles
<1>8. to \in StepsOf(command[o]) \cup {"ok"}
  BY <1>1, StepsAre
<1>9. WriteFile(o, "token", Dir(o, "token"), o, to)
  BY DEF saveToken
<1> HIDE DEF to
<1> QED BY <1>0, <1>4, <1>6, <1>7, <1>8, <1>9, NodeWrite

(* SaveTokenHash, the temporary file. *)
LEMMA HashKeeps ==
  ASSUME SetupInv, NEW o \in Cmds, WriteFile(o, "hash", Dir(o, "mesh.token.tmp"), o, "rename")
  PROVE  SetupInv'
<1>0. pc[o] = "hash" /\ "hash" \notin Ended
  BY DEF WriteFile, At, Ended
<1>1. command[o] \in Preparing \cup {"rotate"} /\ node[o] \in Nodes
  BY <1>0, AtStep
<1>2. Progress(o) /\ Stage(o)
  BY DEF SetupInv
<1>3. command[o] \in Preparing =>
        ca[o] \in Cmds /\ Conf("ca.crt") # Absent /\ Of(o, "node.crt") # Absent /\ Of(o, "node.key") # Absent
  BY <1>0, <1>2, Standing DEF Progress
<1>4. o \in Contents("mesh.token.tmp")
  BY DEF Contents
<1>5. /\ alone[o] /\ command[o] \in Preparing =>
           /\ CAHeld(o) /\ Of(o, "node.crt") = [id |-> o, ca |-> Conf("ca.crt")] /\ Of(o, "node.key") = o
           /\ Of(o, "token") = o
      /\ alone[o] /\ command[o] = "rotate" => agent[node[o]] = o
  BY <1>0, <1>2, Standing DEF Stage, PrepareStage, RotateStage
<1>6. ASSUME NEW t, NEW c, Advance(o, t), Puts(Dir(o, "mesh.token.tmp"), c),
             UNCHANGED <<ca, cert, agent, pinned>>,
             t = "hash" \/ (t = "rename" /\ c = o) \/ t = "error"
      PROVE  Progress(o)' /\ Stage(o)' /\ (t = "ok" /\ alone[o] => Usable(o)')
  <2>1. /\ Of(o, "mesh.token.tmp")' = c
        /\ \A g \in NodeFiles : g # "mesh.token.tmp" => Of(o, g)' = Of(o, g)
        /\ \A g \in ConfigFiles : Conf(g)' = Conf(g)
    BY <1>1, <1>6, OwnFiles DEF Advance, NodeFiles
  <2>2. /\ Conf("ca.crt")' = Conf("ca.crt") /\ Conf("ca.key")' = Conf("ca.key")
        /\ Of(o, "node.crt")' = Of(o, "node.crt") /\ Of(o, "node.key")' = Of(o, "node.key")
        /\ Of(o, "token")' = Of(o, "token")
    BY <2>1 DEF ConfigFiles, NodeFiles
  <2>3. /\ pc'[o] = t /\ command'[o] = command[o] /\ ca'[o] = ca[o] /\ alone'[o] = alone[o]
        /\ agent'[node'[o]] = agent[node[o]]
    BY <1>6 DEF Advance
  <2>4. Progress(o)'
    <3>1. pc'[o] # "admin.crt" /\ pc'[o] # "ca.key"
      BY <1>6, <2>3
    <3> QED BY <1>3, <2>2, <2>3, <3>1 DEF Progress
  <2>5. alone[o] /\ command[o] \in Preparing => CAHeld(o)'
    BY <1>5, <2>2, <2>3 DEF CAHeld, WholeCA, Has, Conf
  <2>7. alone[o] /\ command[o] \in Preparing => PrepareStage(o)'
    BY <1>5, <1>6, <2>1, <2>2, <2>3, <2>5, Standing DEF PrepareStage
  <2>8. alone[o] /\ command[o] = "rotate" => RotateStage(o)'
    BY <1>5, <1>6, <2>1, <2>3 DEF RotateStage
  <2>9. Stage(o)'
    BY <1>1, <2>3, <2>7, <2>8 DEF Stage, Preparing
  <2> QED BY <1>6, <2>4, <2>9
<1>7. /\ "hash" \notin {"ca", "ca.crt", "ca.key"} /\ "rename" \notin {"ca", "ca.crt", "ca.key"}
      /\ "hash" \in AfterCA /\ "rename" \in StepsOf(command[o])
      /\ "mesh.token.tmp" \in NodeFiles /\ "mesh.token.tmp" \notin {"wg.priv", "wg.pub"}
  BY <1>1, StepsAre, Standing DEF NodeFiles
<1> QED BY <1>0, <1>4, <1>6, <1>7, NodeWrite


(* A step that leaves the CA files alone. *)
LEMMA StepKeeps ==
  ASSUME SetupInv, NEW o \in Cmds, NEW to, Advance(o, to),
         to \in StepsOf(command[o]) \cup {"ok", "error", "killed"}, to \notin {"ca", "ca.crt", "ca.key"},
         FilesTyped', WGPairMatches', Kept,
         Conf("ca.crt")' = Conf("ca.crt"), Conf("ca.key")' = Conf("ca.key"),
         half' \in [Cmds -> BOOLEAN], setupFaults' \in 0 .. MaxSetupFaults,
         ca' \in [Cmds -> Cmds \cup {Absent}], cert' \in [Cmds -> Certs \cup Marks],
         agent' \in [Nodes -> Cmds \cup {Absent}], pinned' \in [Nodes -> Certs \cup {Absent}],
         trusted' = trusted, creators' = creators, \A q \in Cmds : q # o => ca'[q] = ca[q],
         command[o] \in Preparing /\ to \in AfterCA \cup {"ok"} =>
           CAHeld(o)' \/ (ca'[o] = ca[o] /\ pc[o] \in AfterCA),
         Progress(o)', Stage(o)', to = "ok" /\ alone[o] => Usable(o)'
  PROVE  SetupInv'
<1>1. creators' \subseteq Cmds
  BY DEF SetupInv, SetupTyped, RestTyped
<1>2. RestTyped'
  BY <1>1, RestKept
<1>3. to \notin {"ca", "ca.crt", "ca.key", "idle"}
  BY DEF StepsOf, AfterCA, AfterCrt, AfterKey, AfterToken, AfterHash, AdminSteps
<1>4. CAInv'
  BY <1>3, CAFrame
<1> QED BY <1>2, <1>4, OwnStep DEF SetupTyped

(* The same when no file changes at all. *)
LEMMA QuietFiles ==
  ASSUME SetupInv, UNCHANGED nodeFile
  PROVE  /\ FilesTyped' /\ WGPairMatches' /\ Kept
         /\ Conf("ca.crt")' = Conf("ca.crt") /\ Conf("ca.key")' = Conf("ca.key")
  BY DEF SetupInv, SetupTyped, FilesTyped, WGPairMatches, Kept, Conf

(* What is typed before a step. *)
LEMMA TypedNow ==
  ASSUME SetupInv
  PROVE  /\ DOMAIN nodeFile = Path /\ DOMAIN pc = Cmds
         /\ command \in [Cmds -> SetupCommands \cup {Absent}] /\ node \in [Cmds -> Nodes \cup {Absent}]
         /\ half \in [Cmds -> BOOLEAN] /\ setupFaults \in 0 .. MaxSetupFaults
         /\ ca \in [Cmds -> Cmds \cup {Absent}] /\ cert \in [Cmds -> Certs \cup Marks]
         /\ agent \in [Nodes -> Cmds \cup {Absent}] /\ pinned \in [Nodes -> Certs \cup {Absent}]
         /\ SetupFault => setupFaults' \in 0 .. MaxSetupFaults
<1>1. SetupFault => setupFaults' \in 0 .. MaxSetupFaults
  BY SetupAssumption, SMTT(30) DEF SetupInv, SetupTyped, RestTyped, SetupFault
<1> QED BY <1>1 DEF SetupInv, SetupTyped, FilesTyped, RestTyped

(* A command that gives up leaves the others what they had. *)
LEMMA StopsKeepSetup ==
  ASSUME SetupInv, NEW o \in Cmds, NEW to \in {"error", "killed"}, Advance(o, to),
         UNCHANGED nodeFile, half' \in [Cmds -> BOOLEAN], setupFaults' \in 0 .. MaxSetupFaults,
         ca' \in [Cmds -> Cmds \cup {Absent}], cert' \in [Cmds -> Certs \cup Marks],
         agent' \in [Nodes -> Cmds \cup {Absent}], pinned' \in [Nodes -> Certs \cup {Absent}],
         trusted' = trusted, creators' = creators, \A q \in Cmds : q # o => ca'[q] = ca[q]
  PROVE  SetupInv'
<1>1. pc'[o] = to
  BY DEF Advance
<1>2. to # "ok" /\ to \notin AfterCA /\ to \in Ended
  BY StepSets DEF Ended
<1>3. Progress(o)'
  BY <1>1, <1>2, StepSets DEF Progress
<1>4. PrepareStage(o)' /\ InitStage(o)' /\ RotateStage(o)'
  BY <1>1, <1>2, StepSets DEF PrepareStage, InitStage, RotateStage
<1>5. Stage(o)'
  BY <1>4 DEF Stage
<1>6. to \notin {"ca", "ca.crt", "ca.key"} /\ to \in StepsOf(command[o]) \cup {"ok", "error", "killed"}
  OBVIOUS
<1> QED BY <1>2, <1>3, <1>5, <1>6, QuietFiles, StepKeeps

(* The kill of a command. *)
LEMMA KilledKeeps ==
  ASSUME SetupInv, NEW o \in Cmds, Killed(o)
  PROVE  SetupInv'
<1>1. Advance(o, "killed")
  BY TypedNow DEF Killed, Go, Advance, KeepRest, memory
<1>2. /\ half' \in [Cmds -> BOOLEAN] /\ setupFaults' \in 0 .. MaxSetupFaults
      /\ UNCHANGED <<nodeFile, ca, cert, agent, pinned, trusted, creators>>
  BY TypedNow DEF Killed, KeepRest, memory, remote, Go
<1> QED BY <1>1, <1>2, TypedNow, StopsKeepSetup

(* prepareMikrotikRouterOS. *)
LEMMA ScriptKeeps ==
  ASSUME SetupInv, NEW o \in Cmds, prepareMikrotikRouterOS(o)
  PROVE  SetupInv'
<1> DEFINE content == [crt |-> Of(o, "node.crt"), key |-> Of(o, "node.key"),
                       ca |-> Conf("ca.crt"), hash |-> o]
<1>0. pc[o] = "script" /\ "script" \notin Ended
  BY DEF prepareMikrotikRouterOS, WriteFile, At, Ended
<1>1. command[o] = "mikrotik" /\ node[o] \in Nodes /\ command[o] \in Preparing
  BY <1>0, AtStep DEF Preparing
<1>2. Progress(o) /\ Stage(o)
  BY DEF SetupInv
<1>3. ca[o] \in Cmds /\ Conf("ca.crt") # Absent /\ Of(o, "node.crt") # Absent /\ Of(o, "node.key") # Absent
  BY <1>0, <1>1, <1>2, Standing DEF Progress
<1>4. content \in Contents("script")
  <2>1. /\ Of(o, "node.crt") \in Contents("node.crt") \cup Marks
        /\ Of(o, "node.key") \in Contents("node.key") \cup Marks
        /\ Conf("ca.crt") \in Contents("ca.crt") \cup Marks
    BY <1>1 DEF SetupInv, SetupTyped, FilesTyped, Of, Dir, Conf, NodeFiles, ConfigFiles
  <2>2. /\ Of(o, "node.crt") \in Certs \cup {HalfWritten}
        /\ Of(o, "node.key") \in Cmds \cup {HalfWritten}
        /\ Conf("ca.crt") \in Cmds \cup {HalfWritten}
    BY <1>3, <2>1 DEF Contents, Marks
  <2>3. content \in Script
    BY <2>2, SMTT(30) DEF Script
  <2> QED BY <2>3 DEF Contents
<1>5. alone[o] =>
        /\ CAHeld(o) /\ Of(o, "node.crt") = [id |-> o, ca |-> Conf("ca.crt")] /\ Of(o, "node.key") = o
        /\ Of(o, "token") = o /\ Of(o, "mesh.token") = o
  BY <1>0, <1>1, <1>2, Standing DEF Stage, PrepareStage
<1>6. ASSUME NEW t, NEW c, Advance(o, t), Puts(Dir(o, "script"), c),
             UNCHANGED <<ca, cert, agent, pinned>>,
             t = "script" \/ (t = "ok" /\ c = content) \/ t = "error"
      PROVE  Progress(o)' /\ Stage(o)' /\ (t = "ok" /\ alone[o] => Usable(o)')
  <2> HIDE DEF content
  <2>1. /\ Of(o, "script")' = c
        /\ \A g \in NodeFiles : g # "script" => Of(o, g)' = Of(o, g)
        /\ \A g \in ConfigFiles : Conf(g)' = Conf(g)
    BY <1>1, <1>6, OwnFiles DEF Advance, NodeFiles
  <2>2. /\ Conf("ca.crt")' = Conf("ca.crt") /\ Conf("ca.key")' = Conf("ca.key")
        /\ Of(o, "node.crt")' = Of(o, "node.crt") /\ Of(o, "node.key")' = Of(o, "node.key")
        /\ Of(o, "token")' = Of(o, "token") /\ Of(o, "mesh.token")' = Of(o, "mesh.token")
    BY <2>1 DEF ConfigFiles, NodeFiles
  <2>3. pc'[o] = t /\ command'[o] = command[o] /\ ca'[o] = ca[o] /\ alone'[o] = alone[o]
    BY <1>6 DEF Advance
  <2>4. Progress(o)'
    BY <1>3, <1>6, <2>2, <2>3, Standing DEF Progress
  <2>5. alone[o] => CAHeld(o)'
    BY <1>5, <2>2, <2>3 DEF CAHeld, WholeCA, Has, Conf
  <2>7. alone[o] => PrepareStage(o)'
    BY <1>5, <1>6, <2>2, <2>3, <2>5, Standing DEF PrepareStage
  <2>8. Stage(o)'
    BY <1>1, <2>3, <2>7 DEF Stage, Preparing
  <2>9. t = "ok" /\ alone[o] => Usable(o)'
    <3>1. t = "ok" => c = content
      BY <1>6
    <3>2. alone[o] => WholeCA'
      BY <2>5 DEF CAHeld
    <3> QED BY <1>1, <1>5, <2>1, <2>2, <2>3, <3>1, <3>2 DEF Usable, content
  <2> QED BY <2>4, <2>8, <2>9
<1>7. /\ "script" \notin {"ca", "ca.crt", "ca.key"} /\ "ok" \notin {"ca", "ca.crt", "ca.key"}
      /\ "script" \in AfterCA /\ "script" \in NodeFiles /\ "script" \notin {"wg.priv", "wg.pub"}
  BY Standing DEF NodeFiles
<1>8. CASE WriteFile(o, "script", Dir(o, "script"), content, "ok")
  <2> HIDE DEF content
  <2> QED BY <1>0, <1>4, <1>6, <1>7, <1>8, NodeWrite
<1>9. CASE SetupFault /\ Go(o, "error") /\ KeepFiles /\ KeepRest
  <2>1. Advance(o, "error")
    BY <1>0, <1>9, TypedNow DEF Go, Advance, KeepRest, memory, Running
  <2>2. /\ half' \in [Cmds -> BOOLEAN] /\ setupFaults' \in 0 .. MaxSetupFaults
        /\ UNCHANGED <<nodeFile, ca, cert, agent, pinned, trusted, creators>>
    BY <1>9, TypedNow DEF KeepFiles, KeepRest, memory, remote, Go
  <2> QED BY <2>1, <2>2, TypedNow, StopsKeepSetup
<1> QED BY <1>8, <1>9 DEF prepareMikrotikRouterOS


(* A change of files of one node that no progress rests on. *)
LEMMA NodeFilesChange ==
  ASSUME SetupInv, NEW o \in Cmds, node[o] \in Nodes, UNCHANGED node, NEW F, F \subseteq NodeFiles \ {"node.crt", "node.key"},
         DOMAIN nodeFile' = Path,
         \A p \in Path : (\A f \in F : p # Dir(o, f)) => nodeFile'[p] = nodeFile[p],
         \A f \in F : Of(o, f)' \in Contents(f) \cup Marks
  PROVE  /\ \A g \in ConfigFiles : Conf(g)' = Conf(g)
         /\ \A n \in Nodes, g \in NodeFiles : n # node[o] \/ g \notin F => nodeFile'[In(n, g)] = nodeFile[In(n, g)]
         /\ \A g \in NodeFiles : g \notin F => Of(o, g)' = Of(o, g)
         /\ FilesTyped' /\ Kept
<1>1. \A f \in F : Dir(o, f) = In(node[o], f) /\ Of(o, f)' = nodeFile'[In(node[o], f)]
  BY DEF Dir, Of
<1>2. \A g \in ConfigFiles : nodeFile'[In(Absent, g)] = nodeFile[In(Absent, g)]
  <2> TAKE g \in ConfigFiles
  <2>1. \A f \in F : In(Absent, g) # Dir(o, f)
    BY <1>1, SamePath, SetupAssumption, SMTT(30)
  <2> QED BY <2>1, Paths
<1>3. \A n \in Nodes, g \in NodeFiles : n # node[o] \/ g \notin F => nodeFile'[In(n, g)] = nodeFile[In(n, g)]
  <2> TAKE n \in Nodes, g \in NodeFiles
  <2> HAVE n # node[o] \/ g \notin F
  <2>1. \A f \in F : In(n, g) # Dir(o, f)
    BY <1>1, SamePath, SMTT(30)
  <2> QED BY <2>1, Paths
<1>4. \A g \in NodeFiles : g \notin F => Of(o, g)' = Of(o, g)
  BY <1>3 DEF Of, Dir
<1>5. FilesTyped
  BY DEF SetupInv, SetupTyped
<1>6. FilesTyped'
  <2>1. \A n \in Nodes, g \in NodeFiles : nodeFile'[In(n, g)] \in Contents(g) \cup Marks'
    <3> TAKE n \in Nodes, g \in NodeFiles
    <3>1. CASE n = node[o] /\ g \in F
      BY <3>1, <1>1 DEF Marks
    <3>2. CASE n # node[o] \/ g \notin F
      BY <3>2, <1>3, <1>5 DEF FilesTyped, Marks
    <3> QED BY <3>1, <3>2
  <2> QED BY <2>1, <1>2, <1>5 DEF FilesTyped, Marks
<1>7. Kept
  <2>1. \A f \in {"node.crt", "node.key"} : f \in NodeFiles /\ f \notin F
    BY DEF NodeFiles
  <2> QED BY <2>1, <1>2, <1>3 DEF Kept, Conf, ConfigFiles
<1> QED BY <1>2, <1>3, <1>4, <1>6, <1>7 DEF Conf

(* SaveTokenHash, the rename. *)
LEMMA RenameHashKeeps ==
  ASSUME SetupInv, NEW o \in Cmds, SaveTokenHash(o)
  PROVE  SetupInv'
<1> DEFINE to == IF command[o] = "prepare" THEN "wg.priv" ELSE IF command[o] = "mikrotik" THEN "script" ELSE "token"
           moved == [nodeFile EXCEPT ![Dir(o, "mesh.token")] = Of(o, "mesh.token.tmp"),
                                     ![Dir(o, "mesh.token.tmp")] = Absent]
<1>1. CASE WriteFile(o, "hash", Dir(o, "mesh.token.tmp"), o, "rename")
  BY <1>1, HashKeeps
<1>2. CASE /\ At(o, "rename") /\ Of(o, "mesh.token.tmp") = Absent
           /\ UNCHANGED nodeFile /\ Go(o, "error") /\ KeepRest /\ UNCHANGED <<half, setupFaults>>
  <2>1. Advance(o, "error")
    BY <1>2, TypedNow DEF Go, Advance, KeepRest, memory, Running, At, Ended
  <2>2. UNCHANGED <<nodeFile, half, setupFaults, ca, cert, agent, pinned, trusted, creators>>
    BY <1>2 DEF KeepRest, memory, remote, Go
  <2> QED BY <2>1, <2>2, TypedNow, StopsKeepSetup
<1>3. CASE /\ At(o, "rename") /\ nodeFile' = moved /\ Go(o, to) /\ KeepRest /\ UNCHANGED <<half, setupFaults>>
  <2> DEFINE F == {"mesh.token", "mesh.token.tmp"}
  <2>0. pc[o] = "rename" /\ "rename" \notin Ended
    BY <1>3 DEF At, Ended
  <2>1. command[o] \in Preparing \cup {"rotate"} /\ node[o] \in Nodes
    BY <2>0, AtStep
  <2>2. Advance(o, to)
    BY <1>3, <2>0, TypedNow DEF Go, Advance, KeepRest, memory, Running
  <2>3. UNCHANGED <<half, setupFaults, ca, cert, agent, pinned, trusted, creators, node, command, alone>>
    BY <1>3 DEF KeepRest, memory, remote, Go
  <2>4. Dir(o, "mesh.token") # Dir(o, "mesh.token.tmp") /\ F \subseteq NodeFiles \ {"node.crt", "node.key"}
    <3>1. "mesh.token" # "mesh.token.tmp"
      OBVIOUS
    <3>2. Dir(o, "mesh.token") # Dir(o, "mesh.token.tmp")
      BY <3>1, SamePath, SMTT(30) DEF Dir
    <3> QED BY <3>2 DEF NodeFiles
  <2>5. Dir(o, "mesh.token") \in Path /\ Dir(o, "mesh.token.tmp") \in Path
    BY <2>1, Paths DEF Dir, NodeFiles
  <2>6. /\ DOMAIN nodeFile' = Path
        /\ \A p \in Path : (\A f \in F : p # Dir(o, f)) => nodeFile'[p] = nodeFile[p]
        /\ nodeFile'[Dir(o, "mesh.token")] = Of(o, "mesh.token.tmp")
        /\ nodeFile'[Dir(o, "mesh.token.tmp")] = Absent
    BY <1>3, <2>4, <2>5, TypedNow
  <2>7. Of(o, "mesh.token")' = Of(o, "mesh.token.tmp") /\ Of(o, "mesh.token.tmp")' = Absent
    BY <2>3, <2>6 DEF Of, Dir
  <2>8. \A f \in F : Of(o, f)' \in Contents(f) \cup Marks
    <3>1. Of(o, "mesh.token.tmp") \in Cmds \cup Marks
      BY <2>1 DEF SetupInv, SetupTyped, FilesTyped, Of, Dir, NodeFiles, Contents
    <3> QED BY <2>7, <3>1 DEF Contents, Marks
  <2> HIDE DEF F, to, moved
  <2>9. /\ \A g \in ConfigFiles : Conf(g)' = Conf(g)
        /\ \A n \in Nodes, g \in NodeFiles : n # node[o] \/ g \notin F => nodeFile'[In(n, g)] = nodeFile[In(n, g)]
        /\ \A g \in NodeFiles : g \notin F => Of(o, g)' = Of(o, g)
        /\ FilesTyped' /\ Kept
    BY <2>1, <2>3, <2>4, <2>6, <2>8, NodeFilesChange
  <2>10. WGPairMatches'
    <3>1. \A g \in {"wg.priv", "wg.pub"} : g \in NodeFiles /\ g \notin F
      BY DEF NodeFiles, F
    <3> QED BY <3>1, <2>9 DEF SetupInv, WGPairMatches
  <2>11. /\ Conf("ca.crt")' = Conf("ca.crt") /\ Conf("ca.key")' = Conf("ca.key")
         /\ Of(o, "node.crt")' = Of(o, "node.crt") /\ Of(o, "node.key")' = Of(o, "node.key")
         /\ Of(o, "token")' = Of(o, "token")
    <3>1. \A g \in {"node.crt", "node.key", "token"} : g \in NodeFiles /\ g \notin F
      BY DEF NodeFiles, F
    <3> QED BY <3>1, <2>9 DEF ConfigFiles
  <2>12. Progress(o) /\ Stage(o)
    BY DEF SetupInv
  <2>13. /\ to \in StepsOf(command[o]) /\ to \notin {"ca", "ca.crt", "ca.key", "rename", "hash", "ok", "admin.crt"}
         /\ command[o] \in Preparing => to \in AfterHash /\ to \in AfterCA /\ pc[o] \in AfterCA
         /\ command[o] = "rotate" => to = "token"
    BY <2>0, <2>1, StepsAre, Standing DEF to, Preparing
  <2>14. /\ pc'[o] = to /\ command'[o] = command[o] /\ ca'[o] = ca[o] /\ alone'[o] = alone[o]
         /\ agent'[node'[o]] = agent[node[o]]
    BY <2>2, <2>3 DEF Advance
  <2>15. Progress(o)'
    BY <2>0, <2>11, <2>12, <2>13, <2>14, Standing DEF Progress
  <2>16. alone[o] /\ command[o] \in Preparing => PrepareStage(o)'
    <3>1. alone[o] /\ command[o] \in Preparing =>
            /\ CAHeld(o) /\ Of(o, "node.crt") = [id |-> o, ca |-> Conf("ca.crt")] /\ Of(o, "node.key") = o
            /\ Of(o, "token") = o /\ Of(o, "mesh.token.tmp") = o
      BY <2>0, <2>12, Standing DEF Stage, PrepareStage
    <3>2. alone[o] /\ command[o] \in Preparing => CAHeld(o)'
      BY <3>1, <2>11, <2>14 DEF CAHeld, WholeCA, Has, Conf
    <3> QED BY <3>1, <3>2, <2>7, <2>11, <2>13, <2>14 DEF PrepareStage
  <2>17. alone[o] /\ command[o] = "rotate" => RotateStage(o)'
    <3>1. alone[o] /\ command[o] = "rotate" => agent[node[o]] = o /\ Of(o, "mesh.token.tmp") = o
      BY <2>0, <2>12 DEF Stage, RotateStage
    <3> QED BY <3>1, <2>7, <2>13, <2>14 DEF RotateStage
  <2>18. Stage(o)'
    BY <2>1, <2>14, <2>16, <2>17 DEF Stage, Preparing
  <2> QED BY <2>2, <2>3, <2>9, <2>10, <2>11, <2>13, <2>15, <2>18, TypedNow, StepKeeps
<1> QED BY <1>1, <1>2, <1>3 DEF SaveTokenHash


(* The last steps of node prepare change nothing that it wrote before. *)
LEMMA WgOwn ==
  ASSUME SetupInv, NEW o \in Cmds, NEW to, Advance(o, to),
         pc[o] \in {"wg.priv", "link priv", "wg.pub", "link pub"},
         to \in {"wg.priv", "link priv", "wg.pub", "link pub", "ok", "error"},
         FilesTyped', WGPairMatches', Kept, \A g \in ConfigFiles : Conf(g)' = Conf(g),
         \A g \in {"node.crt", "node.key", "token", "mesh.token"} : Of(o, g)' = Of(o, g),
         UNCHANGED <<half, setupFaults, ca, cert, agent, pinned, trusted, creators>>
  PROVE  SetupInv'
<1>1. command[o] = "prepare" /\ command[o] \in Preparing
  BY AtStep DEF Preparing
<1>2. Progress(o) /\ Stage(o)
  BY DEF SetupInv
<1>3. /\ Conf("ca.crt")' = Conf("ca.crt") /\ Conf("ca.key")' = Conf("ca.key")
      /\ Of(o, "node.crt")' = Of(o, "node.crt") /\ Of(o, "node.key")' = Of(o, "node.key")
      /\ Of(o, "token")' = Of(o, "token") /\ Of(o, "mesh.token")' = Of(o, "mesh.token")
  BY DEF ConfigFiles
<1>4. /\ pc'[o] = to /\ command'[o] = command[o] /\ ca'[o] = ca[o] /\ alone'[o] = alone[o]
  BY DEF Advance
<1>5. /\ ca[o] \in Cmds /\ Conf("ca.crt") # Absent /\ Of(o, "node.crt") # Absent /\ Of(o, "node.key") # Absent
  BY <1>1, <1>2, Standing DEF Progress
<1>6. alone[o] =>
        /\ CAHeld(o) /\ Of(o, "node.crt") = [id |-> o, ca |-> Conf("ca.crt")] /\ Of(o, "node.key") = o
        /\ Of(o, "token") = o /\ Of(o, "mesh.token") = o
  BY <1>1, <1>2, Standing DEF Stage, PrepareStage
<1>7. alone[o] => CAHeld(o)'
  BY <1>6, <1>3, <1>4 DEF CAHeld, WholeCA, Has, Conf
<1>8. Progress(o)'
  <2>1. to # "admin.crt"
    OBVIOUS
  <2> QED BY <2>1, <1>3, <1>4, <1>5 DEF Progress
<1>9. alone[o] => PrepareStage(o)'
  <2>1. to # "ca.key" /\ to # "rename"
    OBVIOUS
  <2> QED BY <2>1, <1>3, <1>4, <1>6, <1>7 DEF PrepareStage
<1>10. Stage(o)'
  BY <1>1, <1>4, <1>9 DEF Stage
<1>11. to = "ok" /\ alone[o] => Usable(o)'
  BY <1>1, <1>3, <1>4, <1>6, <1>7 DEF Usable, CAHeld
<1>12. /\ to \in StepsOf(command[o]) \cup {"ok", "error", "killed"} /\ to \notin {"ca", "ca.crt", "ca.key"}
       /\ pc[o] \in AfterCA
  BY <1>1, StepsAre, Standing
<1> QED BY <1>3, <1>4, <1>8, <1>10, <1>11, <1>12, TypedNow, StepKeeps

(* loadOrCreatePrivateWGKey and syncPublicWGKey. *)
LEMMA WgKeeps ==
  ASSUME SetupInv, NEW o \in Cmds, loadOrCreateWireGuardKeyPair(o)
  PROVE  SetupInv'
<1> DEFINE Steps == {"wg.priv", "link priv", "wg.pub", "link pub"}
<1>1. PICK here \in Steps, to \in Steps \cup {"ok", "error"} : Only(o, here, to)
  BY DEF loadOrCreateWireGuardKeyPair
<1>2. UNCHANGED <<half, setupFaults, ca, cert, agent, pinned, trusted, creators, node, command>>
  BY <1>1 DEF loadOrCreateWireGuardKeyPair, KeepRest, memory, remote, Only, Go
<1>3. pc[o] = here /\ here \notin Ended
  BY <1>1 DEF Only, At, Ended
<1>4. Advance(o, to)
  BY <1>1, <1>2, <1>3, TypedNow DEF Only, Go, Advance, Running
<1>5. node[o] \in Nodes
  BY <1>3, AtStep
<1>6. CASE UNCHANGED nodeFile
  <2>1. \A g : Conf(g)' = Conf(g) /\ Of(o, g)' = Of(o, g)
    BY <1>2, <1>6 DEF Conf, Of, Dir
  <2> QED BY <2>1, <1>1, <1>2, <1>3, <1>4, <1>6, QuietFiles, WgOwn
<1>7. ASSUME NEW f \in {"wg.priv", "wg.pub"}, NEW content, nodeFile[Dir(o, f)] = Absent,
             nodeFile' = [nodeFile EXCEPT ![Dir(o, f)] = content],
             content \in Cmds \cup Marks, f = "wg.pub" => content = Of(o, "wg.priv")
      PROVE  SetupInv'
  <2> DEFINE F == {f}
  <2>1. Dir(o, f) \in Path
    BY <1>5, Paths DEF Dir, NodeFiles
  <2>2. /\ DOMAIN nodeFile' = Path /\ nodeFile'[Dir(o, f)] = content
        /\ \A p \in Path : (\A g \in F : p # Dir(o, g)) => nodeFile'[p] = nodeFile[p]
    BY <1>7, <2>1, TypedNow
  <2>3. \A g \in F : Of(o, g)' \in Contents(g) \cup Marks
    <3>1. Of(o, f)' = content
      BY <2>2, <1>2 DEF Of, Dir
    <3> QED BY <3>1, <1>7 DEF Contents
  <2>4. F \subseteq NodeFiles \ {"node.crt", "node.key"}
    BY DEF NodeFiles
  <2> HIDE DEF F
  <2>5. /\ \A g \in ConfigFiles : Conf(g)' = Conf(g)
        /\ \A n \in Nodes, g \in NodeFiles : n # node[o] \/ g \notin F => nodeFile'[In(n, g)] = nodeFile[In(n, g)]
        /\ \A g \in NodeFiles : g \notin F => Of(o, g)' = Of(o, g)
        /\ FilesTyped' /\ Kept
    BY <1>2, <1>5, <2>2, <2>3, <2>4, NodeFilesChange
  <2>6. \A g \in {"node.crt", "node.key", "token", "mesh.token"} : Of(o, g)' = Of(o, g)
    <3>1. \A g \in {"node.crt", "node.key", "token", "mesh.token"} : g \in NodeFiles /\ g \notin F
      BY DEF NodeFiles, F
    <3> QED BY <3>1, <2>5
  <2>7. WGPairMatches'
    <3> SUFFICES ASSUME NEW n \in Nodes, nodeFile'[In(n, "wg.pub")] # Absent
                 PROVE  nodeFile'[In(n, "wg.pub")] = nodeFile'[In(n, "wg.priv")]
      BY DEF WGPairMatches
    <3>0. "wg.pub" \in NodeFiles /\ "wg.priv" \in NodeFiles /\ ("wg.pub" \in F => f = "wg.pub")
          /\ ("wg.priv" \in F => f = "wg.priv")
      BY DEF NodeFiles, F
    <3>1. nodeFile[In(n, "wg.pub")] # Absent => nodeFile[In(n, "wg.pub")] = nodeFile[In(n, "wg.priv")]
      BY DEF SetupInv, WGPairMatches
    <3>2. CASE n # node[o]
      BY <3>0, <3>1, <3>2, <2>5
    <3>3. CASE n = node[o] /\ f = "wg.pub"
      <4>1. nodeFile'[In(n, "wg.priv")] = nodeFile[In(n, "wg.priv")]
        BY <3>0, <3>3, <2>5
      <4>2. nodeFile'[In(n, "wg.pub")] = nodeFile[In(n, "wg.priv")]
        BY <3>3, <1>7, <2>2 DEF Dir, Of
      <4> QED BY <4>1, <4>2
    <3>4. CASE n = node[o] /\ f = "wg.priv"
      <4>1. nodeFile'[In(n, "wg.pub")] = nodeFile[In(n, "wg.pub")]
        BY <3>0, <3>4, <2>5
      <4>2. nodeFile[In(n, "wg.priv")] = Absent
        BY <3>4, <1>7 DEF Dir
      <4> QED BY <4>1, <4>2, <3>1
    <3> QED BY <3>2, <3>3, <3>4
  <2> QED BY <1>1, <1>2, <1>3, <1>4, <2>5, <2>6, <2>7, WgOwn
<1>8. CASE writeFileExclusive(Dir(o, "wg.priv"), o)
  BY <1>6, <1>7, <1>8 DEF writeFileExclusive
<1>9. CASE writeFileExclusive(Dir(o, "wg.pub"), Of(o, "wg.priv"))
  <2>1. Of(o, "wg.priv") \in Cmds \cup Marks
    BY <1>5 DEF SetupInv, SetupTyped, FilesTyped, Of, Dir, NodeFiles, Contents
  <2> QED BY <1>6, <1>7, <1>9, <2>1 DEF writeFileExclusive
<1> QED BY <1>6, <1>8, <1>9 DEF loadOrCreateWireGuardKeyPair


(* node init reads the pair and the certificate again. *)
LEMMA ReadsKeep ==
  ASSUME SetupInv, NEW o \in Cmds, loadPrepared(o) \/ rereadCert(o)
  PROVE  SetupInv'
<1> DEFINE onDisk == Of(o, "node.crt")
<1>1. /\ UNCHANGED <<nodeFile, half, setupFaults, ca, agent, pinned, trusted, creators, node, command>>
      /\ pc[o] \in {"pair", "reread"} /\ pc[o] \notin Ended
  BY DEF loadPrepared, rereadCert, KeepFiles, remote, At, Ended, Go
<1>2. command[o] = "init" /\ node[o] \in Nodes /\ command[o] \notin Preparing
  BY <1>1, AtStep DEF Preparing
<1>3. onDisk \in Certs \cup Marks
  BY <1>2 DEF SetupInv, SetupTyped, FilesTyped, Of, Dir, NodeFiles, Contents
<1>4. onDisk' = onDisk /\ Of(o, "node.key")' = Of(o, "node.key")
  BY <1>1 DEF Of, Dir
<1> HIDE DEF onDisk
<1>5. ASSUME NEW to \in {"reread", "admin"}, Go(o, to), cert' = [cert EXCEPT ![o] = onDisk],
             alone[o] => onDisk \in Certs /\ onDisk.id = Of(o, "node.key")
      PROVE  SetupInv'
  <2>1. Advance(o, to)
    BY <1>1, <1>5, TypedNow DEF Go, Advance, Running
  <2>2. cert' \in [Cmds -> Certs \cup Marks] /\ cert'[o] = onDisk
    BY <1>3, <1>5, TypedNow
  <2>3. pc'[o] = to /\ command'[o] = command[o] /\ alone'[o] = alone[o]
    BY <2>1 DEF Advance
  <2>4. Progress(o)'
    BY <1>2, <2>3 DEF Progress
  <2>5. alone[o] => InitStage(o)'
    BY <1>4, <1>5, <2>2 DEF InitStage, onDisk
  <2>6. Stage(o)'
    BY <1>2, <2>3, <2>5 DEF Stage
  <2>7. to \in StepsOf(command[o]) /\ to \notin {"ca", "ca.crt", "ca.key", "ok"}
    BY <1>2, StepsAre DEF AdminSteps
  <2> QED BY <1>1, <1>2, <2>1, <2>2, <2>4, <2>6, <2>7, TypedNow, QuietFiles, StepKeeps
<1>6. ASSUME Go(o, "error"), UNCHANGED cert PROVE SetupInv'
  <2>1. Advance(o, "error")
    BY <1>1, <1>6, TypedNow DEF Go, Advance, Running
  <2> QED BY <1>1, <1>6, <2>1, TypedNow, StopsKeepSetup
<1>7. CASE loadPrepared(o)
  BY <1>5, <1>6, <1>7 DEF loadPrepared, onDisk
<1>8. CASE rereadCert(o)
  <2>1. alone[o] => cert[o] \in Certs /\ cert[o] = onDisk /\ cert[o].id = Of(o, "node.key")
    BY <1>2, <1>8 DEF SetupInv, Stage, InitStage, rereadCert, At, onDisk
  <2> QED BY <1>5, <1>8, <2>1 DEF rereadCert, onDisk
<1> QED BY <1>7, <1>8

(* A step of node init or node remove towards the control plane that       *)
(* changes at most the admin files and the CA in memory.                   *)
LEMMA AdminOwn ==
  ASSUME SetupInv, NEW o \in Cmds, NEW to, Advance(o, to), pc[o] \in AdminSteps,
         to \in {"admin.crt", "admin.key", "dial", "error"},
         FilesTyped', WGPairMatches', Kept,
         Conf("ca.crt")' = Conf("ca.crt"), Conf("ca.key")' = Conf("ca.key"),
         Of(o, "node.crt")' = Of(o, "node.crt"), Of(o, "node.key")' = Of(o, "node.key"),
         half' \in [Cmds -> BOOLEAN], setupFaults' \in 0 .. MaxSetupFaults,
         ca' \in [Cmds -> Cmds \cup {Absent}], \A q \in Cmds : q # o => ca'[q] = ca[q],
         to = "admin.crt" => ca'[o] \in Cmds,
         UNCHANGED <<cert, agent, pinned, trusted, creators>>
  PROVE  SetupInv'
<1>1. command[o] \in {"init", "remove"} /\ command[o] \notin Preparing
  BY AtStep DEF Preparing
<1>2. pc'[o] = to /\ command'[o] = command[o] /\ alone'[o] = alone[o]
  BY DEF Advance
<1>3. Progress(o)'
  BY <1>1, <1>2 DEF Progress
<1>4. alone[o] /\ command[o] = "init" => InitStage(o)'
  <2>1. alone[o] /\ command[o] = "init" =>
          cert[o] \in Certs /\ cert[o] = Of(o, "node.crt") /\ cert[o].id = Of(o, "node.key")
    BY DEF SetupInv, Stage, InitStage
  <2> QED BY <2>1 DEF InitStage
<1>5. Stage(o)'
  BY <1>1, <1>2, <1>4 DEF Stage
<1>6. to \in StepsOf(command[o]) \cup {"ok", "error", "killed"} /\ to \notin {"ca", "ca.crt", "ca.key", "ok"}
  BY <1>1, StepsAre DEF AdminSteps
<1> QED BY <1>1, <1>3, <1>5, <1>6, TypedNow, StepKeeps

LEMMA AdminWrite ==
  ASSUME SetupInv, NEW o \in Cmds, NEW here \in {"admin.crt", "admin.key"}, NEW content \in Contents(here),
         NEW to \in {"admin.key", "dial"}, WriteFile(o, here, In(Absent, here), content, to)
  PROVE  SetupInv'
<1>0. pc[o] = here /\ here \in AdminSteps /\ here \notin Ended
  BY DEF WriteFile, At, AdminSteps, Ended
<1>1. In(Absent, here) \in Path /\ Writable(Absent, here) /\ node[o] \in Nodes
  BY <1>0, AtStep, Paths DEF Writable, ConfigFiles
<1>2. /\ \/ Advance(o, here) /\ Puts(In(Absent, here), HalfWritten)
         \/ Advance(o, to) /\ Puts(In(Absent, here), content)
         \/ Advance(o, "error") /\ Puts(In(Absent, here), nodeFile[In(Absent, here)])
      /\ half' \in [Cmds -> BOOLEAN] /\ setupFaults' \in 0 .. MaxSetupFaults
      /\ UNCHANGED <<ca, cert, agent, pinned, trusted, creators>>
  BY <1>0, <1>1, WriteShape DEF SetupInv
<1>3. PICK t, c : /\ Advance(o, t) /\ Puts(In(Absent, here), c)
                  /\ c \in Contents(here) \cup {HalfWritten, nodeFile[In(Absent, here)]}
                  /\ t = here \/ t = to \/ t = "error"
  BY <1>2
<1>4. FilesTyped' /\ WGPairMatches' /\ Kept
  BY <1>1, <1>3, PutsKeep
<1>5. /\ \A g \in ConfigFiles : g # here => nodeFile'[In(Absent, g)] = nodeFile[In(Absent, g)]
      /\ \A n \in Nodes, g \in NodeFiles : Absent # n => nodeFile'[In(n, g)] = nodeFile[In(n, g)]
  BY <1>1, <1>3, PutsOthers
<1>6. /\ Conf("ca.crt")' = Conf("ca.crt") /\ Conf("ca.key")' = Conf("ca.key")
      /\ Of(o, "node.crt")' = Of(o, "node.crt") /\ Of(o, "node.key")' = Of(o, "node.key")
  <2>1. node' = node /\ node[o] # Absent
    BY <1>1, <1>3, SetupAssumption DEF Advance
  <2> QED BY <2>1, <1>1, <1>5 DEF Conf, Of, Dir, ConfigFiles, NodeFiles
<1>7. t = "admin.crt" => ca'[o] \in Cmds
  <2>1. t = "admin.crt" => pc[o] = "admin.crt"
    BY <1>0, <1>3
  <2> QED BY <2>1, <1>2 DEF SetupInv, Progress
<1>8. t \in {"admin.crt", "admin.key", "dial", "error"}
  BY <1>3
<1> QED BY <1>0, <1>2, <1>3, <1>4, <1>6, <1>7, <1>8, TypedNow, AdminOwn

(* loadOrCreateControlPlaneAdminCert. *)
LEMMA AdminKeeps ==
  ASSUME SetupInv, NEW o \in Cmds, loadOrCreateControlPlaneAdminCert(o)
  PROVE  SetupInv'
<1>1. CASE /\ At(o, "admin")
           /\ ca' = [ca EXCEPT ![o] = IF WholeCA THEN Conf("ca.crt") ELSE Absent]
           /\ Go(o, IF adminFiles = {Absent} /\ WholeCA THEN "admin.crt"
                    ELSE IF Absent \in adminFiles THEN "error" ELSE "dial")
           /\ KeepFiles /\ UNCHANGED <<command, node, cert, remote, setupFaults>>
  <2>1. PICK to \in {"admin.crt", "error", "dial"} : Go(o, to) /\ (to = "admin.crt" => WholeCA)
    BY <1>1
  <2>2. /\ UNCHANGED <<nodeFile, half, setupFaults, cert, agent, pinned, trusted, creators, node, command>>
        /\ pc[o] = "admin" /\ pc[o] \notin Ended /\ pc[o] \in AdminSteps
    BY <1>1 DEF KeepFiles, remote, At, Ended, Go, AdminSteps
  <2>3. Advance(o, to)
    BY <2>1, <2>2, TypedNow DEF Go, Advance, Running
  <2>4. WholeCA => Conf("ca.crt") \in Cmds
    BY DEF SetupInv, SetupTyped, FilesTyped, WholeCA, Has, Conf, ConfigFiles, Contents, Marks
  <2>5. /\ ca' \in [Cmds -> Cmds \cup {Absent}] /\ \A q \in Cmds : q # o => ca'[q] = ca[q]
        /\ to = "admin.crt" => ca'[o] \in Cmds
    BY <1>1, <2>1, <2>4, TypedNow
  <2>6. Of(o, "node.crt")' = Of(o, "node.crt") /\ Of(o, "node.key")' = Of(o, "node.key")
    BY <2>2 DEF Of, Dir
  <2> QED BY <2>1, <2>2, <2>3, <2>5, <2>6, TypedNow, QuietFiles, AdminOwn
<1>2. CASE WriteFile(o, "admin.crt", In(Absent, "admin.crt"), [id |-> o, ca |-> ca[o]], "admin.key")
  <2>1. pc[o] = "admin.crt"
    BY <1>2 DEF WriteFile, At
  <2>2. ca[o] \in Cmds
    BY <2>1 DEF SetupInv, Progress
  <2>3. [id |-> o, ca |-> ca[o]] \in Certs
    BY <2>2, SMTT(30) DEF Certs
  <2>4. [id |-> o, ca |-> ca[o]] \in Contents("admin.crt")
    BY <2>3 DEF Contents
  <2> QED BY <1>2, <2>4, AdminWrite
<1>3. CASE WriteFile(o, "admin.key", In(Absent, "admin.key"), o, "dial")
  <2>1. o \in Contents("admin.key")
    BY DEF Contents
  <2> QED BY <1>3, <2>1, AdminWrite
<1> QED BY <1>1, <1>2, <1>3 DEF loadOrCreateControlPlaneAdminCert


(* RegisterNode and DecommissionNode. *)
LEMMA DialKeeps ==
  ASSUME SetupInv, NEW o \in Cmds, callCoordination(o)
  PROVE  SetupInv'
<1>1. /\ UNCHANGED <<nodeFile, half, ca, cert, agent, trusted, creators, node, command>>
      /\ pc[o] = "dial" /\ pc[o] \notin Ended /\ pc[o] \in AdminSteps
  BY DEF callCoordination, KeepFiles, memory, At, Ended, Go, AdminSteps
<1>2. command[o] \in {"init", "remove"} /\ command[o] \notin Preparing /\ node[o] \in Nodes
  BY <1>1, AtStep DEF Preparing
<1>3. CASE UNCHANGED pinned /\ Go(o, "error") /\ UNCHANGED setupFaults
  <2>1. Advance(o, "error")
    BY <1>1, <1>3, TypedNow DEF Go, Advance, Running
  <2> QED BY <1>1, <1>3, <2>1, TypedNow, StopsKeepSetup
<1>4. ASSUME pinned' = [pinned EXCEPT ![node[o]] = IF command[o] = "init" THEN cert[o] ELSE Absent],
             command[o] = "init" => cert[o] \in Certs,
             (Go(o, "ok") /\ UNCHANGED setupFaults) \/ (SetupFault /\ Go(o, "error"))
      PROVE  SetupInv'
  <2>1. pinned' \in [Nodes -> Certs \cup {Absent}] /\ pinned'[node[o]] = IF command[o] = "init" THEN cert[o] ELSE Absent
    BY <1>2, <1>4, TypedNow
  <2>2. CASE SetupFault /\ Go(o, "error")
    <3>1. Advance(o, "error")
      BY <1>1, <2>2, TypedNow DEF Go, Advance, Running
    <3> QED BY <1>1, <2>1, <2>2, <3>1, TypedNow, StopsKeepSetup
  <2>3. CASE Go(o, "ok") /\ UNCHANGED setupFaults
    <3>1. Advance(o, "ok")
      BY <1>1, <2>3, TypedNow DEF Go, Advance, Running
    <3>2. pc'[o] = "ok" /\ command'[o] = command[o] /\ alone'[o] = alone[o] /\ node'[o] = node[o]
      BY <3>1 DEF Advance
    <3>3. Progress(o)'
      BY <1>2, <3>2 DEF Progress
    <3>4. Stage(o)'
      BY <1>2, <3>2 DEF Stage, InitStage, AdminSteps
    <3>5. alone[o] /\ command[o] = "init" =>
            cert[o] \in Certs /\ cert[o] = Of(o, "node.crt") /\ cert[o].id = Of(o, "node.key")
      BY <1>1 DEF SetupInv, Stage, InitStage
    <3>6. Of(o, "node.crt")' = Of(o, "node.crt") /\ Of(o, "node.key")' = Of(o, "node.key")
      BY <1>1 DEF Of, Dir
    <3>7. alone[o] => Usable(o)'
      BY <1>2, <2>1, <3>2, <3>5, <3>6 DEF Usable
    <3>8. "ok" \notin {"ca", "ca.crt", "ca.key"} /\ "ok" \in StepsOf(command[o]) \cup {"ok", "error", "killed"}
      OBVIOUS
    <3> QED BY <1>1, <1>2, <2>1, <2>3, <3>1, <3>3, <3>4, <3>7, <3>8, TypedNow, QuietFiles, StepKeeps
  <2> QED BY <1>4, <2>2, <2>3
<1> QED BY <1>3, <1>4 DEF callCoordination

(* token rotate, until the agent has the new hash. *)
LEMMA RotateKeeps ==
  ASSUME SetupInv, NEW o \in Cmds, rotateToken(o)
  PROVE  SetupInv'
<1>1. /\ UNCHANGED <<nodeFile, half, ca, cert, pinned, trusted, creators, node, command>>
      /\ pc[o] = "agent" /\ pc[o] \notin Ended
  BY DEF rotateToken, KeepFiles, memory, At, Ended, Go
<1>2. command[o] = "rotate" /\ command[o] \notin Preparing /\ node[o] \in Nodes
  BY <1>1, AtStep DEF Preparing
<1>3. CASE UNCHANGED agent /\ Go(o, "error") /\ UNCHANGED setupFaults
  <2>1. Advance(o, "error")
    BY <1>1, <1>3, TypedNow DEF Go, Advance, Running
  <2> QED BY <1>1, <1>3, <2>1, TypedNow, StopsKeepSetup
<1>4. ASSUME agent' = [agent EXCEPT ![node[o]] = o],
             (Go(o, "hash") /\ UNCHANGED setupFaults) \/ (SetupFault /\ Go(o, "error"))
      PROVE  SetupInv'
  <2>1. agent' \in [Nodes -> Cmds \cup {Absent}] /\ agent'[node[o]] = o
    BY <1>2, <1>4, TypedNow
  <2>2. CASE SetupFault /\ Go(o, "error")
    <3>1. Advance(o, "error")
      BY <1>1, <2>2, TypedNow DEF Go, Advance, Running
    <3> QED BY <1>1, <2>1, <2>2, <3>1, TypedNow, StopsKeepSetup
  <2>3. CASE Go(o, "hash") /\ UNCHANGED setupFaults
    <3>1. Advance(o, "hash")
      BY <1>1, <2>3, TypedNow DEF Go, Advance, Running
    <3>2. pc'[o] = "hash" /\ command'[o] = command[o] /\ alone'[o] = alone[o] /\ node'[o] = node[o]
      BY <3>1 DEF Advance
    <3>3. Progress(o)'
      BY <1>2, <3>2 DEF Progress
    <3>4. Stage(o)'
      BY <1>2, <2>1, <3>2 DEF Stage, RotateStage
    <3>5. /\ "hash" \notin {"ca", "ca.crt", "ca.key"} /\ "hash" # "ok"
          /\ "hash" \in StepsOf(command[o]) \cup {"ok", "error", "killed"}
      BY <1>2, StepsAre
    <3> QED BY <1>1, <1>2, <2>1, <2>3, <3>1, <3>3, <3>4, <3>5, TypedNow, QuietFiles, StepKeeps
  <2> QED BY <1>4, <2>2, <2>3
<1> QED BY <1>3, <1>4 DEF rotateToken

(* The operator starts the target or a node. *)
LEMMA DeployKeeps ==
  ASSUME SetupInv, Deploy
  PROVE  SetupInv'
<1> USE DEF SetupInv
<1>1. UNCHANGED <<nodeFile, half, pc, command, node, ca, cert, pinned, creators, alone, last, setupFaults>>
  BY DEF Deploy, KeepFiles, memory, history
<1>2. /\ agent' \in [Nodes -> Cmds \cup {Absent}] /\ trusted' \in Cmds \cup {Absent}
      /\ \A n \in Nodes : agent[n] # Absent => agent'[n] = agent[n]
  <2>1. CASE trusted = Absent /\ WholeCA /\ trusted' = Conf("ca.crt") /\ UNCHANGED agent
    <3>1. Conf("ca.crt") \in Cmds
      BY <2>1 DEF SetupTyped, FilesTyped, WholeCA, Has, Conf, ConfigFiles, Contents, Marks
    <3> QED BY <2>1, <3>1, TypedNow
  <2>2. ASSUME NEW n \in Nodes, agent[n] = Absent, Has(In(n, "mesh.token")),
               agent' = [agent EXCEPT ![n] = nodeFile[In(n, "mesh.token")]], UNCHANGED trusted
        PROVE  /\ agent' \in [Nodes -> Cmds \cup {Absent}] /\ trusted' \in Cmds \cup {Absent}
               /\ \A m \in Nodes : agent[m] # Absent => agent'[m] = agent[m]
    <3>1. nodeFile[In(n, "mesh.token")] \in Cmds
      BY <2>2 DEF SetupTyped, FilesTyped, Has, NodeFiles, Contents, Marks
    <3> QED BY <2>2, <3>1, TypedNow DEF SetupTyped, RestTyped
  <2> QED BY <2>1, <2>2 DEF Deploy
<1>3. SetupTyped'
  BY <1>1, <1>2 DEF SetupTyped, FilesTyped, RestTyped, Marks
<1>4. WholeCA' = WholeCA /\ \A o, f : Of(o, f)' = Of(o, f) /\ Conf(f)' = Conf(f)
  BY <1>1 DEF WholeCA, Has, Conf, Of, Dir
<1>5. Fits' /\ AloneInv' /\ WGPairMatches'
  BY <1>1 DEF Fits, AloneInv, WGPairMatches, Running
<1>6. CAInv'
  BY <1>1 DEF CAInv, OneCreator, CAHeld, WholeCA, Has, Conf
<1>7. \A o \in Cmds : Running(o) \/ pc[o] = "ok" => node[o] \in Nodes
  BY DEF Fits, Running, Ended
<1>8. SuccessIsUsable'
  <2> SUFFICES ASSUME NEW o \in Cmds, pc[o] = "ok", alone[o], last = o, \A q \in Cmds : ~Running(q)
               PROVE  Usable(o)'
    BY <1>1 DEF SuccessIsUsable, At, Running
  <2>1. Usable(o)
    BY DEF SuccessIsUsable, At
  <2>2. agent[node[o]] = o => agent'[node[o]] = o
    BY <1>2, <1>7, SetupAssumption
  <2> QED BY <1>1, <1>4, <2>1, <2>2 DEF Usable
<1>9. ASSUME NEW o \in Cmds PROVE Progress(o)' /\ Stage(o)'
  <2>1. Progress(o)'
    BY <1>1 DEF Progress, Of, Dir, Conf
  <2>2. RotateStage(o) => RotateStage(o)'
    <3>1. pc[o] \in {"hash", "rename", "token"} /\ agent[node[o]] = o => agent'[node[o]] = o
      BY <1>2, <1>7, StepSets, SetupAssumption DEF Running
    <3> QED BY <1>1, <3>1 DEF RotateStage, Of, Dir
  <2>3. PrepareStage(o) => PrepareStage(o)'
    BY <1>1 DEF PrepareStage, CAHeld, WholeCA, Has, Conf, Of, Dir
  <2>4. InitStage(o) => InitStage(o)'
    BY <1>1 DEF InitStage, Of, Dir
  <2> QED BY <1>1, <2>1, <2>2, <2>3, <2>4 DEF Stage
<1> QED BY <1>3, <1>5, <1>6, <1>8, <1>9


(* loadOrCreateMeshCA. *)
LEMMA LoadCAKeeps ==
  ASSUME SetupInv, NEW o \in Cmds, loadOrCreateMeshCA(o)
  PROVE  SetupInv'
<1> USE DEF SetupInv
<1>1. /\ UNCHANGED <<nodeFile, half, cert, agent, pinned, trusted, setupFaults, node, command, alone>>
      /\ pc[o] = "ca" /\ pc[o] \notin Ended
  BY DEF loadOrCreateMeshCA, KeepFiles, remote, At, Ended, Go
<1>2. command[o] \in Preparing /\ node[o] \in Nodes
  BY <1>1, AtStep
<1>3. Conf("ca.crt")' = Conf("ca.crt") /\ Conf("ca.key")' = Conf("ca.key") /\ (WholeCA' <=> WholeCA)
  BY <1>1 DEF Conf, WholeCA, Has
<1>4. CASE /\ NoCA /\ ca' = [ca EXCEPT ![o] = o] /\ creators' = creators \cup {o}
           /\ pc' = [pc EXCEPT ![o] = "ca.crt"] /\ UNCHANGED last
  <2>1. Advance(o, "ca.crt")
    BY <1>1, <1>4, TypedNow DEF Advance, Running, Ended
  <2>2. ca'[o] = o /\ (\A q \in Cmds : q # o => ca'[q] = ca[q]) /\ ca' \in [Cmds -> Cmds \cup {Absent}]
    BY <1>4, TypedNow
  <2>3. pc'[o] = "ca.crt" /\ (\A q \in Cmds : q # o => pc'[q] = pc[q]) /\ command' = command
    BY <2>1 DEF Advance
  <2>4. Progress(o)' /\ Stage(o)'
    BY <1>2, <2>3, Standing DEF Progress, Stage, PrepareStage, Preparing
  <2>5. creators \subseteq Cmds /\ creators' \subseteq Cmds /\ o \notin creators
    BY <1>1, <1>4 DEF SetupTyped, RestTyped, CAInv
  <2>6. CAInv'
    <3>1. /\ \A q \in Cmds : pc'[q] \in {"ca.crt", "ca.key"} => q \in creators' /\ ca'[q] = q
          /\ \A q \in creators' : pc'[q] \notin {"idle", "ca"}
      BY <1>4, <2>2, <2>3, <2>5 DEF CAInv
    <3>2. Conf("ca.crt")' \in creators' \cup Marks /\ Conf("ca.key")' \in creators' \cup Marks
      BY <1>3, <1>4 DEF CAInv
    <3>3. ASSUME OneCreator'
          PROVE  /\ \A q \in creators' : pc'[q] = "ca.crt" => Conf("ca.key")' = Absent
                 /\ \A q \in creators' : pc'[q] = "ca.key" => Conf("ca.crt")' = q /\ Conf("ca.key")' \in Marks
                 /\ \A q \in Cmds : command'[q] \in Preparing /\ pc'[q] \in AfterCA \cup {"ok"} => CAHeld(q)'
      <4>1. OneCreator /\ \A q \in creators' : q = o
        BY <1>4, <3>3 DEF OneCreator
      <4>2. Conf("ca.key")' = Absent /\ ~WholeCA
        BY <1>3, <1>4 DEF NoCA, WholeCA, Has, Conf
      <4>3. \A q \in Cmds : ~(command[q] \in Preparing /\ pc[q] \in AfterCA \cup {"ok"})
        BY <4>1, <4>2 DEF CAInv, CAHeld
      <4>4. "ca.crt" \notin AfterCA \cup {"ok"}
        BY Standing
      <4> QED BY <4>1, <4>2, <4>3, <4>4, <2>3
    <3> QED BY <3>1, <3>2, <3>3 DEF CAInv, Marks
  <2>7. RestTyped'
    BY <1>1, <2>1, <2>2, <2>5, TypedNow, RestKept
  <2>8. "ca.crt" \in StepsOf(command[o]) \cup {"ok", "error", "killed"} /\ "ca.crt" # "ok"
    BY <1>2, StepsAre
  <2> QED BY <1>1, <2>1, <2>2, <2>4, <2>6, <2>7, <2>8, QuietFiles, OwnStep DEF SetupTyped
<1>5. CASE /\ ca' = [ca EXCEPT ![o] = IF WholeCA THEN Conf("ca.crt") ELSE Absent]
           /\ Go(o, IF WholeCA THEN "node.crt" ELSE "error")
  <2>1. WholeCA => Conf("ca.crt") \in Cmds
    BY DEF SetupTyped, FilesTyped, WholeCA, Has, Conf, ConfigFiles, Contents, Marks
  <2>2. /\ ca' \in [Cmds -> Cmds \cup {Absent}] /\ \A q \in Cmds : q # o => ca'[q] = ca[q]
        /\ ca'[o] = IF WholeCA THEN Conf("ca.crt") ELSE Absent
        /\ creators' = creators
    BY <1>5, <2>1, TypedNow DEF Go
  <2>3. CASE ~WholeCA
    <3>1. Advance(o, "error")
      BY <1>1, <1>5, <2>3, TypedNow DEF Go, Advance, Running
    <3> QED BY <1>1, <2>2, <3>1, TypedNow, StopsKeepSetup
  <2>4. CASE WholeCA
    <3>1. Advance(o, "node.crt")
      BY <1>1, <1>5, <2>4, TypedNow DEF Go, Advance, Running
    <3>2. pc'[o] = "node.crt" /\ command'[o] = command[o]
      BY <3>1 DEF Advance
    <3>3. CAHeld(o)' /\ ca'[o] \in Cmds /\ Conf("ca.crt")' # Absent
      BY <1>3, <2>1, <2>2, <2>4, SetupAssumption DEF CAHeld
    <3>4. Progress(o)'
      BY <3>2, <3>3, Standing DEF Progress
    <3>5. Stage(o)'
      BY <1>2, <3>2, <3>3, Standing DEF Stage, PrepareStage, Preparing
    <3>6. /\ "node.crt" \in StepsOf(command[o]) \cup {"ok", "error", "killed"}
          /\ "node.crt" \notin {"ca", "ca.crt", "ca.key", "ok"}
      BY <1>2, StepsAre
    <3> QED BY <1>1, <2>2, <3>1, <3>3, <3>4, <3>5, <3>6, TypedNow, QuietFiles, StepKeeps
  <2> QED BY <2>3, <2>4
<1> QED BY <1>4, <1>5 DEF loadOrCreateMeshCA, Go


(* SaveCA. *)
LEMMA SaveCAKeeps ==
  ASSUME SetupInv, NEW o \in Cmds, SaveCA(o)
  PROVE  SetupInv'
<1> USE DEF SetupInv
<1>1. PICK here \in {"ca.crt", "ca.key"} :
        WriteFile(o, here, In(Absent, here), o, IF here = "ca.crt" THEN "ca.key" ELSE "node.crt")
  BY DEF SaveCA
<1> DEFINE to == IF here = "ca.crt" THEN "ca.key" ELSE "node.crt"
<1>2. pc[o] = here /\ here \notin Ended /\ here \notin AfterCA
  BY <1>1, Standing DEF WriteFile, At, Ended
<1>3. command[o] \in Preparing /\ node[o] \in Nodes /\ o \in creators /\ ca[o] = o /\ creators \subseteq Cmds
  BY <1>2, AtStep DEF CAInv, SetupTyped, RestTyped
<1>4. In(Absent, here) \in Path /\ Writable(Absent, here) /\ o \in Contents(here) /\ o \notin Marks
  BY Paths, SetupAssumption DEF Writable, ConfigFiles, Contents, Marks
<1> HIDE DEF to
<1>5. /\ \/ Advance(o, here) /\ Puts(In(Absent, here), HalfWritten)
         \/ Advance(o, to) /\ Puts(In(Absent, here), o)
         \/ Advance(o, "error") /\ Puts(In(Absent, here), nodeFile[In(Absent, here)])
      /\ half' \in [Cmds -> BOOLEAN] /\ setupFaults' \in 0 .. MaxSetupFaults
      /\ UNCHANGED <<ca, cert, agent, pinned, trusted, creators>>
  BY <1>1, <1>2, <1>4, WriteShape DEF to
<1>6. PICK t, c : /\ Advance(o, t) /\ Puts(In(Absent, here), c)
                  /\ \/ t = here /\ c = HalfWritten
                     \/ t = to /\ c = o
                     \/ t = "error" /\ c = nodeFile[In(Absent, here)]
  BY <1>5
<1>7. FilesTyped' /\ WGPairMatches' /\ Kept
  <2>1. c \in Contents(here) \cup {HalfWritten, nodeFile[In(Absent, here)]}
    BY <1>4, <1>6
  <2> QED BY <2>1, <1>4, <1>6, PutsKeep
<1>8. /\ nodeFile'[In(Absent, here)] = c
      /\ \A g \in ConfigFiles : g # here => nodeFile'[In(Absent, g)] = nodeFile[In(Absent, g)]
  <2> HIDE DEF SetupInv
  <2>1. Writable(Absent, here) /\ Puts(In(Absent, here), c)
    BY <1>4, <1>6
  <2>2. nodeFile'[In(Absent, here)] = c
    BY <2>1 DEF Puts
  <2>3. /\ \A g \in ConfigFiles : g # here => nodeFile'[In(Absent, g)] = nodeFile[In(Absent, g)]
        /\ \A n \in Nodes, g \in NodeFiles : Absent # n => nodeFile'[In(n, g)] = nodeFile[In(n, g)]
    BY <2>1, PutsOthers
  <2> QED BY <2>2, <2>3
<1>9. /\ Conf("ca.crt")' = IF here = "ca.crt" THEN c ELSE Conf("ca.crt")
      /\ Conf("ca.key")' = IF here = "ca.key" THEN c ELSE Conf("ca.key")
      /\ c = HalfWritten \/ c = o \/ c = Conf(here)
  BY <1>6, <1>8 DEF Conf, ConfigFiles
<1>10. /\ pc'[o] = t /\ (\A q \in Cmds : q # o => pc'[q] = pc[q])
       /\ UNCHANGED <<command, alone, node, ca, creators>>
  BY <1>5, <1>6 DEF Advance
<1>11. /\ t \in {"ca.crt", "ca.key", "node.crt", "error"}
       /\ t = "ca.crt" => here = "ca.crt" /\ c = HalfWritten
       /\ t = "ca.key" /\ here = "ca.crt" => c = o
       /\ t = "ca.key" /\ here = "ca.key" => c = HalfWritten
       /\ t = "node.crt" => here = "ca.key" /\ c = o
       /\ t = "error" => c = Conf(here)
  BY <1>6 DEF to, Conf
<1>12. Progress(o)'
  <2>1. here = "ca.key" => Conf("ca.crt") # Absent
    BY <1>2 DEF Progress
  <2>2. t = "ca.key" \/ t = "node.crt" => Conf("ca.crt")' # Absent
    BY <2>1, <1>4, <1>9, <1>11 DEF Marks
  <2> QED BY <2>2, <1>3, <1>10, <1>11, Standing DEF Progress
<1>13. alone[o] /\ here = "ca.key" => Conf("ca.crt") = o
  BY <1>2, <1>3 DEF Stage, PrepareStage
<1>14. Stage(o)'
  <2>1. alone[o] /\ t = "ca.key" => Conf("ca.crt")' = o
    <3>1. CASE here = "ca.crt"
      BY <1>9, <1>11, <3>1
    <3>2. CASE here = "ca.key"
      BY <1>9, <1>13, <3>2
    <3> QED BY <3>1, <3>2
  <2>2. alone[o] /\ t = "node.crt" => Conf("ca.crt")' = o /\ Conf("ca.key")' = o
    BY <1>9, <1>11, <1>13
  <2>3. alone[o] /\ t = "node.crt" => CAHeld(o)'
    BY <2>2, <1>3, <1>4, <1>10 DEF CAHeld, WholeCA, Has, Conf, Marks
  <2>4. alone[o] => PrepareStage(o)'
    BY <2>1, <2>3, <1>10, <1>11, Standing DEF PrepareStage
  <2> QED BY <2>4, <1>3, <1>10 DEF Stage, Preparing
<1>15. CAInv'
  <2>1. /\ \A q \in Cmds : pc'[q] \in {"ca.crt", "ca.key"} => q \in creators' /\ ca'[q] = q
        /\ \A q \in creators' : pc'[q] \notin {"idle", "ca"}
    BY <1>3, <1>10, <1>11 DEF CAInv
  <2>2. Conf("ca.crt")' \in creators' \cup Marks /\ Conf("ca.key")' \in creators' \cup Marks
    <3>1. Conf("ca.crt") \in creators \cup Marks /\ Conf("ca.key") \in creators \cup Marks
      BY DEF CAInv
    <3>2. c \in creators \cup Marks
      BY <3>1, <1>3, <1>9 DEF Marks
    <3> QED BY <3>1, <3>2, <1>9, <1>10
  <2>3. ASSUME OneCreator'
        PROVE  /\ \A q \in creators' : pc'[q] = "ca.crt" => Conf("ca.key")' = Absent
               /\ \A q \in creators' : pc'[q] = "ca.key" => Conf("ca.crt")' = q /\ Conf("ca.key")' \in Marks
               /\ \A q \in Cmds : command'[q] \in Preparing /\ pc'[q] \in AfterCA \cup {"ok"} => CAHeld(q)'
    <3>1. OneCreator /\ \A q \in creators' : q = o
      BY <1>3, <1>10, <2>3 DEF OneCreator
    <3>2. /\ here = "ca.crt" => Conf("ca.key") = Absent
          /\ here = "ca.key" => Conf("ca.crt") = o /\ Conf("ca.key") \in Marks
      BY <1>2, <1>3, <3>1 DEF CAInv
    <3>3. ~WholeCA
      <4>1. Conf("ca.key") \in Marks
        BY <3>2 DEF Marks
      <4> QED BY <4>1 DEF WholeCA, Has, Conf, Marks
    <3>4. \A q \in Cmds : ~(command[q] \in Preparing /\ pc[q] \in AfterCA \cup {"ok"})
      BY <3>1, <3>3 DEF CAInv, CAHeld
    <3>5. t = "ca.crt" => Conf("ca.key")' = Absent
      BY <1>9, <1>11, <3>2
    <3>6. t = "ca.key" => Conf("ca.crt")' = o /\ Conf("ca.key")' \in Marks
      BY <1>9, <1>11, <3>2 DEF Marks
    <3>7. t = "node.crt" => CAHeld(o)'
      <4>1. t = "node.crt" => Conf("ca.crt")' = o /\ Conf("ca.key")' = o
        BY <1>9, <1>11, <3>2
      <4> QED BY <4>1, <1>3, <1>4, <1>10 DEF CAHeld, WholeCA, Has, Conf, Marks
    <3>8. t \in AfterCA \cup {"ok"} => t = "node.crt"
      BY <1>11, Standing
    <3> QED BY <1>10, <3>1, <3>4, <3>5, <3>6, <3>7, <3>8
  <2> QED BY <2>1, <2>2, <2>3 DEF CAInv, Marks
<1>16. RestTyped'
  BY <1>3, <1>5, <1>6, TypedNow, RestKept
<1>17. t \in StepsOf(command[o]) \cup {"ok", "error", "killed"} /\ t # "ok"
  BY <1>3, <1>11, StepsAre
<1> QED BY <1>5, <1>6, <1>7, <1>10, <1>12, <1>14, <1>15, <1>16, <1>17, OwnStep DEF SetupTyped


(* The start of a command: from now on the ones that run are not alone. *)
LEMMA SetupStartKeeps ==
  ASSUME SetupInv, NEW o \in Cmds, NEW c \in SetupCommands, NEW n \in Nodes, Start(o, c, n)
  PROVE  SetupInv'
<1> USE DEF SetupInv
<1>1. /\ UNCHANGED <<nodeFile, half, ca, cert, agent, pinned, trusted, creators, last, setupFaults>>
      /\ pc[o] = "idle"
  BY DEF Start, KeepFiles, remote, At
<1>2. /\ command'[o] = c /\ node'[o] = n /\ pc'[o] = FirstStep(c)
      /\ \A q \in Cmds : q # o => command'[q] = command[q] /\ node'[q] = node[q] /\ pc'[q] = pc[q]
      /\ command' \in [Cmds -> SetupCommands \cup {Absent}] /\ node' \in [Cmds -> Nodes \cup {Absent}]
      /\ DOMAIN pc' = Cmds
  BY TypedNow DEF Start
<1>3. /\ alone' \in [Cmds -> BOOLEAN]
      /\ alone'[o] => \A q \in Cmds : ~Running(q)
      /\ \A q \in Cmds : q # o /\ alone'[q] => alone[q] /\ ~Running(q)
  BY DEF Start, SetupTyped, RestTyped
<1>4. /\ FirstStep(c) \in StepsOf(c) /\ FirstStep(c) \notin Ended /\ FirstStep(c) \notin AfterCA
      /\ FirstStep(c) \notin {"ca.crt", "ca.key", "hash", "rename", "token", "admin.crt", "reread"}
      /\ c \in Preparing \/ FirstStep(c) # "ca"
      /\ c = "init" => FirstStep(c) = "pair"
  <2>1. \/ c \in Preparing /\ FirstStep(c) = "ca" /\ c # "init"
        \/ c = "init" /\ FirstStep(c) = "pair"
        \/ c = "remove" /\ FirstStep(c) = "admin"
        \/ c = "rotate" /\ FirstStep(c) = "agent"
    BY DEF FirstStep, Preparing, SetupCommands
  <2>2. \A x \in {"ca", "pair", "admin", "agent"} :
          /\ x \notin Ended /\ x \notin AfterCA
          /\ x \notin {"ca.crt", "ca.key", "hash", "rename", "token", "admin.crt", "reread"}
    BY DEF Ended, AfterCA, AfterCrt, AfterKey, AfterToken, AfterHash
  <2>3. "admin" \in AdminSteps
    BY DEF AdminSteps
  <2>4. FirstStep(c) \in StepsOf(c)
    BY <2>1, <2>3, StepsAre
  <2> QED BY <2>1, <2>2, <2>4
<1>5. SetupTyped'
  <2>1. FilesTyped'
    BY <1>1, QuietFiles
  <2>2. RestTyped'
    BY <1>1, <1>2, <1>3 DEF SetupTyped, RestTyped, Marks
  <2> QED BY <2>1, <2>2 DEF SetupTyped
<1>6. Fits'
  BY <1>2, <1>4 DEF Fits
<1>7. AloneInv'
  <2> SUFFICES ASSUME NEW p \in Cmds, NEW q \in Cmds, alone'[p], Running(p)', Running(q)' PROVE q = p
    BY DEF AloneInv
  <2>1. p = o
    BY <1>2, <1>3 DEF Running
  <2>2. q = o
    BY <2>1, <1>2, <1>3 DEF Running
  <2> QED BY <2>1, <2>2
<1>8. CAInv'
  <2>0. creators \subseteq Cmds /\ o \notin creators
    BY <1>1 DEF SetupTyped, RestTyped, CAInv
  <2>1. (WholeCA' <=> WholeCA) /\ Conf("ca.crt")' = Conf("ca.crt") /\ Conf("ca.key")' = Conf("ca.key")
    BY <1>1 DEF WholeCA, Has, Conf
  <2>2. \A q \in Cmds : pc'[q] \in {"ca.crt", "ca.key", "ok"} \cup AfterCA => q # o
    BY <1>2, <1>4 DEF Ended
  <2>3. \A q \in creators : pc'[q] = pc[q] /\ q \in Cmds
    BY <1>2, <2>0
  <2>4. /\ \A q \in Cmds : pc'[q] \in {"ca.crt", "ca.key"} => q \in creators' /\ ca'[q] = q
        /\ \A q \in creators' : pc'[q] \notin {"idle", "ca"}
        /\ Conf("ca.crt")' \in creators' \cup Marks /\ Conf("ca.key")' \in creators' \cup Marks
    BY <1>1, <1>2, <2>1, <2>2, <2>3 DEF CAInv
  <2>5. ASSUME OneCreator'
        PROVE  /\ \A q \in creators' : pc'[q] = "ca.crt" => Conf("ca.key")' = Absent
               /\ \A q \in creators' : pc'[q] = "ca.key" => Conf("ca.crt")' = q /\ Conf("ca.key")' \in Marks
               /\ \A q \in Cmds : command'[q] \in Preparing /\ pc'[q] \in AfterCA \cup {"ok"} => CAHeld(q)'
    <3>1. OneCreator
      BY <1>1, <2>5 DEF OneCreator
    <3>2. /\ \A q \in creators' : pc'[q] = "ca.crt" => Conf("ca.key")' = Absent
          /\ \A q \in creators' : pc'[q] = "ca.key" => Conf("ca.crt")' = q /\ Conf("ca.key")' \in Marks
      BY <1>1, <2>1, <2>3, <3>1 DEF CAInv
    <3>3. \A q \in Cmds : command'[q] \in Preparing /\ pc'[q] \in AfterCA \cup {"ok"} => CAHeld(q)
      BY <1>2, <2>2, <3>1 DEF CAInv
    <3> QED BY <1>1, <2>1, <3>2, <3>3 DEF CAHeld
  <2> QED BY <2>4, <2>5 DEF CAInv, Marks
<1>9. WGPairMatches'
  BY <1>1, QuietFiles
<1>10. SuccessIsUsable'
  <2>1. Running(o)'
    BY <1>2, <1>4 DEF Running
  <2> QED BY <2>1 DEF SuccessIsUsable
<1>11. ASSUME NEW q \in Cmds PROVE Progress(q)' /\ Stage(q)'
  <2>1. CASE q = o
    <3>1. Progress(o)'
      BY <1>2, <1>4, StepSets DEF Progress
    <3>2. Stage(o)'
      <4>1. PrepareStage(o)' /\ RotateStage(o)'
        BY <1>2, <1>4, StepSets DEF PrepareStage, RotateStage
      <4>2. c = "init" => InitStage(o)'
        BY <1>2, <1>4 DEF InitStage, AdminSteps
      <4> QED BY <1>2, <4>1, <4>2 DEF Stage
    <3> QED BY <2>1, <3>1, <3>2
  <2>2. CASE q # o
    <3>1. \A f : Of(q, f)' = Of(q, f) /\ Conf(f)' = Conf(f)
      BY <1>1, <1>2, <2>2 DEF Of, Dir, Conf
    <3>2. Progress(q)'
      <4>1. Progress(q)
        OBVIOUS
      <4> QED BY <1>1, <1>2, <2>2, <3>1, <4>1 DEF Progress
    <3>3. Stage(q)'
      <4>1. alone'[q] => pc'[q] \in Ended
        BY <1>2, <1>3, <2>2 DEF Running
      <4>2. pc'[q] \in Ended => PrepareStage(q)' /\ InitStage(q)' /\ RotateStage(q)'
        BY StepSets DEF PrepareStage, InitStage, RotateStage
      <4> QED BY <4>1, <4>2 DEF Stage
    <3> QED BY <3>2, <3>3
  <2> QED BY <2>1, <2>2
<1> QED BY <1>5, <1>6, <1>7, <1>8, <1>9, <1>10, <1>11


(* The invariant of the onboarding commands is inductive. *)
LEMMA SetupSteps ==
  /\ SetupInit => SetupInv
  /\ SetupInv /\ [SetupNext]_setupVars => SetupInv'
<1>1. ASSUME SetupInit PROVE SetupInv
  <2> USE <1>1 DEF SetupInit
  <2>0. \A p \in Path : nodeFile[p] = Absent
    OBVIOUS
  <2>1. (\A f \in ConfigFiles : Conf(f) = Absent) /\ \A n \in Nodes, f \in NodeFiles : nodeFile[In(n, f)] = Absent
    BY <2>0, Paths DEF Conf
  <2>2. 0 \in 0 .. MaxSetupFaults
    BY SetupAssumption, SMTT(30)
  <2>3. SetupTyped
    BY <2>1, <2>2 DEF SetupTyped, FilesTyped, RestTyped, Conf, Marks
  <2>4. Fits /\ AloneInv /\ SuccessIsUsable
    BY DEF Fits, AloneInv, SuccessIsUsable, Running, Ended, At
  <2>5. WGPairMatches
    BY <2>1 DEF WGPairMatches, NodeFiles
  <2>6. CAInv
    BY <2>1, Standing, StepSets DEF CAInv, Marks, ConfigFiles, Ended
  <2>7. \A o \in Cmds : pc[o] = "idle" /\ "idle" \in Ended /\ "idle" # "admin.crt"
    BY DEF Ended
  <2>8. \A o \in Cmds : Progress(o) /\ Stage(o)
    BY <2>7, StepSets DEF Progress, Stage, PrepareStage, InitStage, RotateStage
  <2> QED BY <2>3, <2>4, <2>5, <2>6, <2>8 DEF SetupInv
<1>2. ASSUME SetupInv, SetupNext PROVE SetupInv'
  <2>1. ASSUME NEW o \in Cmds, Command(o) PROVE SetupInv'
    <3>1. CASE SaveCertKey(o)
      BY <1>2, <3>1, CrtKeeps, KeyKeeps DEF SaveCertKey
    <3>2. CASE runNodePrepareCommand(o)
      BY <1>2, <3>1, <3>2, LoadCAKeeps, SaveCAKeeps, TokenKeeps, RenameHashKeeps, WgKeeps, ScriptKeeps
         DEF runNodePrepareCommand
    <3> QED BY <1>2, <2>1, <3>2, ReadsKeep, AdminKeeps, DialKeeps, RotateKeeps DEF Command
  <2>2. ASSUME NEW o \in Cmds, NEW c \in SetupCommands, NEW n \in Nodes, Start(o, c, n) PROVE SetupInv'
    BY <1>2, <2>2, SetupStartKeeps
  <2> QED BY <1>2, <2>1, <2>2, KilledKeeps, DeployKeeps DEF SetupNext
<1>3. ASSUME SetupInv, UNCHANGED setupVars PROVE SetupInv'
  <2> USE DEF SetupInv
  <2>1. UNCHANGED <<nodeFile, half, pc, command, node, ca, cert, agent, pinned, trusted,
                    creators, alone, last, setupFaults>>
    BY <1>3 DEF setupVars, memory, remote, history
  <2>2. SetupTyped' /\ Fits' /\ AloneInv' /\ WGPairMatches'
    BY <1>3, <2>1 DEF SetupTyped, FilesTyped, RestTyped, Fits, AloneInv, WGPairMatches, Running, Marks
  <2>3. CAInv'
    BY <1>3, <2>1 DEF CAInv, OneCreator, CAHeld, WholeCA, Has, Conf
  <2>4. SuccessIsUsable'
    BY <1>3, <2>1 DEF SuccessIsUsable, Usable, At, Running, WholeCA, Has, Conf, Of, Dir
  <2>5. \A o \in Cmds : Progress(o)' /\ Stage(o)'
    BY <1>3, <2>1 DEF Progress, Stage, PrepareStage, InitStage, RotateStage, CAHeld, WholeCA, Has, Conf, Of, Dir
  <2> QED BY <2>2, <2>3, <2>4, <2>5
<1> QED BY <1>1, <1>2, <1>3

(* No step replaces a private WireGuard key. *)
LEMMA WgPrivStays ==
  ASSUME SetupInv, SetupNext, NEW n \in Nodes, nodeFile[In(n, "wg.priv")] # Absent
  PROVE  nodeFile'[In(n, "wg.priv")] = nodeFile[In(n, "wg.priv")]
<1> DEFINE p == In(n, "wg.priv")
<1>0. p \in Path /\ DOMAIN nodeFile = Path
  BY Paths, TypedNow DEF NodeFiles
<1>1. ASSUME NEW d, NEW f, f # "wg.priv" PROVE In(d, f) # p
  BY <1>1, SamePath, SMTT(30)
<1> HIDE DEF p
<1>2. ASSUME NEW o, NEW here, NEW q, NEW content, NEW to, q # p, WriteFile(o, here, q, content, to)
      PROVE  nodeFile'[p] = nodeFile[p]
  BY <1>0, <1>2 DEF WriteFile
<1>3. /\ In(Absent, "ca.crt") # p /\ In(Absent, "ca.key") # p
      /\ In(Absent, "admin.crt") # p /\ In(Absent, "admin.key") # p
      /\ \A o : /\ Dir(o, "node.crt") # p /\ Dir(o, "node.key") # p /\ Dir(o, "token") # p
                /\ Dir(o, "mesh.token") # p /\ Dir(o, "mesh.token.tmp") # p /\ Dir(o, "script") # p
                /\ Dir(o, "wg.pub") # p
  BY <1>1 DEF Dir
<1>4. ASSUME NEW o \in Cmds, Command(o) PROVE nodeFile'[p] = nodeFile[p]
  <2>1. CASE loadOrCreateMeshCA(o)
    BY <2>1 DEF loadOrCreateMeshCA, KeepFiles
  <2>2. CASE SaveCA(o) \/ SaveCertKey(o) \/ saveToken(o)
    BY <2>2, <1>2, <1>3 DEF SaveCA, SaveCertKey, saveToken
  <2>3. CASE SaveTokenHash(o)
    BY <2>3, <1>0, <1>2, <1>3 DEF SaveTokenHash
  <2>4. CASE loadOrCreateWireGuardKeyPair(o)
    <3>1. ASSUME NEW q, NEW content, writeFileExclusive(q, content), nodeFile[p] # Absent
          PROVE  nodeFile'[p] = nodeFile[p]
      BY <1>0, <3>1 DEF writeFileExclusive
    <3> QED BY <2>4, <3>1 DEF loadOrCreateWireGuardKeyPair, p
  <2>5. CASE prepareMikrotikRouterOS(o)
    BY <2>5, <1>2, <1>3 DEF prepareMikrotikRouterOS, KeepFiles
  <2>6. CASE loadPrepared(o) \/ rereadCert(o) \/ callCoordination(o) \/ rotateToken(o)
    BY <2>6 DEF loadPrepared, rereadCert, callCoordination, rotateToken, KeepFiles
  <2>7. CASE loadOrCreateControlPlaneAdminCert(o)
    BY <2>7, <1>2, <1>3 DEF loadOrCreateControlPlaneAdminCert, KeepFiles
  <2> QED BY <1>4, <2>1, <2>2, <2>3, <2>4, <2>5, <2>6, <2>7 DEF Command, runNodePrepareCommand
<1>5. ASSUME NEW o \in Cmds, Killed(o) \/ (\E c \in SetupCommands, m \in Nodes : Start(o, c, m))
      PROVE  nodeFile'[p] = nodeFile[p]
  BY <1>5 DEF Killed, Start, KeepFiles
<1>6. CASE Deploy
  BY <1>6 DEF Deploy, KeepFiles
<1> QED BY <1>4, <1>5, <1>6 DEF SetupNext, p

(* Whatever onboarding commands run, fail or die side by side on whatever  *)
(* nodes: keys match and stay, a command that ran alone did what it        *)
(* reports, and certificates have one CA unless two commands made one      *)
(* (node.go, node_mikrotik.go, token.go).                                  *)
THEOREM OnboardingIsSafe == SetupSpec => SetupSafe
<1>1. SetupInv => SetupTypeOK /\ WGPairMatches /\ SuccessIsUsable /\ OneCA
  <2> SUFFICES ASSUME SetupInv PROVE OneCA
    BY SetupTypes DEF SetupInv
  <2> QED BY DEF SetupInv, CAInv, OneCA, CAHeld, At
<1>2. SetupInv /\ [SetupNext]_setupVars => [KeepsWGKeys]_setupVars
  BY WgPrivStays DEF KeepsWGKeys
<1>3. SetupInit => SetupInv
  BY SetupSteps
<1>4. SetupInv /\ [SetupNext]_setupVars => SetupInv'
  BY SetupSteps
<1> QED BY <1>1, <1>2, <1>3, <1>4, PTL DEF SetupSpec, SetupSafe, WGKeyKept

=============================================================================
