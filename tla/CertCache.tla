------------------------------ MODULE CertCache ------------------------------
(***************************************************************************)
(* What the agent's gRPC server reads from disk while it serves              *)
(* (pkg/grpc/server.go): the certificate of each handshake, cached by the    *)
(* modification times of its two files, and the token hash of each call,     *)
(* cached by the modification time of its file.  The files are replaced by   *)
(* other processes at any moment.  A file's version stands for its content   *)
(* and, since every replacement gets a new time, for its time too; a         *)
(* certificate or key of version 0 is not there.                            *)
(***************************************************************************)
EXTENDS Naturals, FiniteSets

CONSTANTS
  Handshakes,  \* handshakes in progress at a time
  Calls,       \* authenticated calls in progress at a time
  MaxVersion   \* bound: replacements of a file

VARIABLES
  crt, key, tok,   \* the versions on disk
  cache,           \* certCache with the times stored for it, or NoCert
  hs,              \* the handshakes
  served,          \* the last certificate a handshake got
  hash, hashTime,  \* the token provider's cached and cachedMtime
  tokLock,         \* the call that holds the provider's mutex
  call,            \* the calls
  boot,            \* the provider is "new", has "loaded" the hash, is "ready"
  raced            \* history: the file was replaced between the two

cvars == <<crt, key, tok, cache, hs, served, hash, hashTime, tokLock, call, boot, raced>>
files == <<crt, key, tok>>
certs == <<cache, hs, served>>
tokens == <<hash, hashTime, tokLock, call, boot, raced>>

NoCert == [crt |-> 0, key |-> 0, crtTime |-> 0, keyTime |-> 0]
Ephemeral == MaxVersion + 1  \* stands for the self-signed fallback
IdleShake == [pc |-> "idle", crt |-> 0, key |-> 0]
Nobody == "nobody"
IdleCall == [pc |-> "idle", time |-> 0, hash |-> 0]

CertCacheTypeOK ==
  /\ {crt, key, tok} \subseteq 0..MaxVersion
  /\ cache \in [crt : 0..MaxVersion, key : 0..MaxVersion, crtTime : 0..MaxVersion, keyTime : 0..MaxVersion]
  /\ hs \in [Handshakes -> [pc : {"idle", "crt", "key", "store", "failed"},
                            crt : 0..MaxVersion, key : 0..MaxVersion]]
  /\ served \in [crt : 0..Ephemeral, key : 0..Ephemeral, cached : BOOLEAN]
  /\ hash \in 0..MaxVersion /\ hashTime \in 0..MaxVersion
  /\ tokLock \in Calls \cup {Nobody} /\ boot \in {"new", "loaded", "ready"} /\ raced \in BOOLEAN
  /\ call \in [Calls -> [pc : {"idle", "stat", "load", "store"}, time : 0..MaxVersion, hash : 0..MaxVersion]]

CertCacheInit ==
  /\ crt = 0 /\ key = 0 /\ tok = 0
  /\ cache = NoCert /\ hs = [h \in Handshakes |-> IdleShake] /\ served = [crt |-> 0, key |-> 0, cached |-> FALSE]
  /\ hash = 0 /\ hashTime = 0 /\ tokLock = Nobody /\ boot = "new" /\ raced = FALSE
  /\ call = [c \in Calls |-> IdleCall]

-----------------------------------------------------------------------------
Shake(h, pc) == hs' = [hs EXCEPT ![h] = [@ EXCEPT !.pc = pc]]
Serve(h, c, k) ==
  /\ served' = [crt |-> c, key |-> k, cached |-> cache # NoCert]
  /\ hs' = [hs EXCEPT ![h] = IdleShake]

(* getServerCertificate, the cached part: a Stat that fails and two times that
   match both return what is cached. *)
getServerCertificate(h) ==
  /\ hs[h].pc = "idle"
  /\ \/ /\ cache # NoCert
        /\ \/ crt = cache.crtTime /\ key = cache.keyTime
           \/ TRUE  \* Stat fails
        /\ Serve(h, cache.crt, cache.key)
     \/ /\ cache = NoCert \/ crt # cache.crtTime \/ key # cache.keyTime
        /\ Shake(h, "crt") /\ UNCHANGED served
  /\ UNCHANGED <<files, cache, tokens>>

(* LoadCertKey reads the certificate, then the key, and pairs them. *)
loadCert(h) ==
  /\ hs[h].pc = "crt"
  /\ hs' = [hs EXCEPT ![h] = [pc |-> IF crt = 0 THEN "failed" ELSE "key", crt |-> crt, key |-> 0]]
  /\ UNCHANGED <<files, cache, served, tokens>>

Matches(h) == key = hs[h].crt

loadKey(h) ==
  /\ hs[h].pc = "key"
  /\ hs' = [hs EXCEPT ![h].pc = IF Matches(h) THEN "store" ELSE "failed", ![h].key = key]
  /\ UNCHANGED <<files, cache, served, tokens>>

(* The pair is stored under the times the files have NOW, or under the old
   ones when a Stat fails; then it is served. *)
storeCert(h) ==
  /\ hs[h].pc = "store"
  /\ \E c \in {crt, cache.crtTime}, k \in {key, cache.keyTime} :
       cache' = [crt |-> hs[h].crt, key |-> hs[h].key, crtTime |-> c, keyTime |-> k]
  /\ Serve(h, hs[h].crt, hs[h].key)
  /\ UNCHANGED <<files, tokens>>

(* The pair could not be loaded: last-known-good, else the fallback. *)
LastKnownGood_CheckedBefore(h) == Serve(h, Ephemeral, Ephemeral)

LastKnownGood(h) ==
  IF cache # NoCert THEN Serve(h, cache.crt, cache.key) ELSE Serve(h, Ephemeral, Ephemeral)

loadFailed(h) ==
  /\ hs[h].pc = "failed"
  /\ LastKnownGood(h)
  /\ UNCHANGED <<files, cache, tokens>>

-----------------------------------------------------------------------------
(* newTokenHashProvider: the initial load, then the initial Stat. *)
newTokenHashProvider ==
  /\ \/ /\ boot = "new" /\ boot' = "loaded"
        /\ hash' = tok /\ UNCHANGED <<hashTime, raced>>
     \/ /\ boot = "loaded" /\ boot' = "ready"
        /\ hashTime' = tok /\ raced' = (hash # tok) /\ UNCHANGED hash
  /\ UNCHANGED <<files, certs, tokLock, call>>

(* The provider, called by the interceptor of each request with a bearer
   token: lock, Stat, and load if the time differs. *)
MayEnter(c) == tokLock = Nobody

lockToken(c) ==
  /\ boot = "ready" /\ call[c].pc = "idle" /\ MayEnter(c)
  /\ tokLock' = c /\ call' = [call EXCEPT ![c] = [pc |-> "stat", time |-> 0, hash |-> 0]]
  /\ UNCHANGED <<files, certs, hash, hashTime, boot, raced>>

Leave(c) == tokLock' = Nobody /\ call' = [call EXCEPT ![c] = IdleCall]

statToken(c) ==
  /\ call[c].pc = "stat"
  /\ \/ Leave(c)  \* Stat fails, or the time is the cached one
     \/ /\ tok # hashTime
        /\ call' = [call EXCEPT ![c] = [pc |-> "load", time |-> tok, hash |-> 0]]
        /\ UNCHANGED tokLock
  /\ UNCHANGED <<files, certs, hash, hashTime, boot, raced>>

(* The hash is read after the Stat whose time it is stored under; if it cannot
   be read, both stay. *)
TimeWhenUnread(c) == hashTime

loadToken(c) ==
  /\ call[c].pc = "load"
  /\ \/ /\ call' = [call EXCEPT ![c].pc = "store", ![c].hash = tok]
        /\ UNCHANGED <<tokLock, hashTime>>
     \/ Leave(c) /\ hashTime' = TimeWhenUnread(c)
  /\ UNCHANGED <<files, certs, hash, boot, raced>>

storeToken(c) ==
  /\ call[c].pc = "store" /\ Leave(c)
  /\ hash' = call[c].hash /\ hashTime' = call[c].time
  /\ UNCHANGED <<files, certs, boot, raced>>

-----------------------------------------------------------------------------
(* Other processes: the pair is replaced key first, as clientd does; a token
   file is replaced by mesh-ctl. *)
replaceKey ==
  /\ key < MaxVersion /\ key' = key + 1
  /\ UNCHANGED <<crt, tok, certs, tokens>>
replaceCert ==
  /\ crt < key /\ crt' = key
  /\ UNCHANGED <<key, tok, certs, tokens>>
replaceToken ==
  /\ tok < MaxVersion /\ tok' = tok + 1
  /\ UNCHANGED <<crt, key, certs, tokens>>

handshake(h) ==
  getServerCertificate(h) \/ loadCert(h) \/ loadKey(h) \/ storeCert(h) \/ loadFailed(h)

CertCacheNext ==
  \/ \E h \in Handshakes : handshake(h)
  \/ newTokenHashProvider
  \/ \E c \in Calls : lockToken(c) \/ statToken(c) \/ loadToken(c) \/ storeToken(c)
  \/ replaceKey \/ replaceCert \/ replaceToken

CertCacheSpec == CertCacheInit /\ [][CertCacheNext]_cvars

-----------------------------------------------------------------------------
(* A handshake that reads the two files while they are being replaced never
   serves or caches the certificate of one pair with the key of another. *)
PairServedWhole == served.crt = served.key /\ cache.crt = cache.key

(* Once a certificate has been cached no handshake gets the self-signed
   fallback, not even one that found the cache empty and failed to load. *)
NoFallbackAfterGood == served.crt = Ephemeral => ~served.cached

(* Token rotation takes effect for good: the hash the provider works with
   never goes back to an older file, whatever calls overlap. *)
HashGoesOn ==
  hash' >= hash
HashNeverGoesBack == [][HashGoesOn]_cvars

(* The provider is never stuck with an old hash: when the time it has stored is
   the file's, the hash it has stored is the file's.  Excepted is a file that
   was replaced between the initial load and the initial Stat. *)
HashFresh == boot = "ready" /\ ~raced /\ hashTime = tok => hash = tok

(* Both caches of the agent's gRPC server follow files that are replaced   *)
(* under them: pairs are whole, a good one is never given up, and the      *)
(* token hash is current and never goes back (pkg/grpc/server.go).         *)
CachesSafe ==
  /\ [](CertCacheTypeOK /\ PairServedWhole /\ NoFallbackAfterGood /\ HashFresh)
  /\ HashNeverGoesBack
=============================================================================
