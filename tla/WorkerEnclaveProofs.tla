------------------------ MODULE WorkerEnclaveProofs ------------------------
(***************************************************************************)
(* The safety of the worker enclave, for every set of FIDs, packages,      *)
(* requests, envelopes, bindings and loads.  The inductive invariant adds  *)
(* to the properties what they rest on: the cached code is the code of its *)
(* C_func, cached under the FID of its package after a key that opens one  *)
(* of its C_k_func was released, and the keys loaded are ones received.    *)
(***************************************************************************)
EXTENDS WorkerEnclave, TLAPS

CacheSound ==
  cache # None =>
    /\ cache.code = cache.func.code
    /\ cache.func.fid = cache.fid
    /\ KeyReached(cache.func)

KeysHeld ==
  /\ worker.key # None => worker.key \in held
  /\ dklabel # None => dklabel \in held
  /\ bfibe.req # None => bfibe.req \in held
  /\ bfibe.fn # None => bfibe.fn \in held

\* A run's payload was opened with a key loaded at that moment.
PayloadOpened ==
  result # None /\ ~result.req.empty =>
    \E kr \in ReqKey : /\ kr.req = result.req
                      /\ kr.to \in {worker.key, bfibe.req, bfibe.fn}

CacheNamed == cache # None => ecall_has_key(cache.fid)

ResultSound ==
  RunsAsRequested /\ ResultForSender /\ FunctionKeyReleased /\ PayloadOpened

IInv == TypeOK /\ CacheSound /\ CacheNamed /\ KeysHeld /\ ResultSound

\* Init gives the invariant: nothing is loaded, cached or computed.
LEMMA InitIInv == Init => IInv
<1> SUFFICES ASSUME Init PROVE IInv
  OBVIOUS
<1>1. 0 \in 0 .. MaxReports
  BY WorkerAssumption DEF WorkerAssumption
<1>2. TypeOK
  BY <1>1 DEF Init, TypeOK
<1>3. CacheSound /\ CacheNamed /\ KeysHeld
  BY DEF Init, CacheSound, CacheNamed, KeysHeld
<1>4. ResultSound
  BY DEF Init, ResultSound, RunsAsRequested, ResultForSender, FunctionKeyReleased,
     PayloadOpened
<1> QED
  BY <1>2, <1>3, <1>4 DEF IInv

\* A bound pair is a FID and a package made for it; both have keys to release.
LEMMA BoundPair ==
  ASSUME NEW b \in Bound
  PROVE  b[1] \in FID /\ b[2] \in Func /\ b[2].fid = b[1]
BY WorkerAssumption DEF WorkerAssumption

\* What a load may bring: keys of identities the KMS released, under any FID.
LEMMA LoadTyped ==
  ASSUME NEW x \in Loads
  PROVE  /\ x.key \in Identity /\ x.label \in Identity /\ x.fid \in FID
         /\ x.key # None /\ x.label # None
<1>1. Released \subseteq Identity
  BY BoundPair DEF Released, Identity
<1>2. x.key \in Released /\ x.label \in Released /\ x.fid \in FID
  BY WorkerAssumption DEF WorkerAssumption
<1>3. None \notin Identity
  BY WorkerAssumption DEF WorkerAssumption, Identity
<1> QED
  BY <1>1, <1>2, <1>3

\* What a load leaves in the cache is what was there, or nothing; it is the former
\* only when the FID does not change.
LEMMA CacheAfterLoad ==
  ASSUME NEW old, NEW f, cache' = CacheOnLoad(old, f)
  PROVE  cache' = None \/ (cache' = cache /\ old = f)
BY DEF CacheOnLoad

\* A call without a result says nothing about what ran.
LEMMA NoResult == result' = None => ResultSound'
BY DEF ResultSound, RunsAsRequested, ResultForSender, FunctionKeyReleased, PayloadOpened

\* Keys that reached the enclave have reached it for good, so what the cache rests
\* on survives any load that keeps the cache.
LEMMA CacheStaysSound ==
  ASSUME IInv, held \subseteq held', cache' \in {cache, None}
  PROVE  CacheSound'
<1>1. \A c : KeyReached(c) => KeyReached(c)'
  BY DEF KeyReached
<1> QED
  BY <1>1 DEF IInv, CacheSound

\* A new key pair disturbs nothing but its number.
LEMMA ReportStep == IInv /\ ecall_create_report => IInv'
<1> SUFFICES ASSUME IInv, ecall_create_report PROVE IInv'
  OBVIOUS
<1>1. TypeOK'
  <2>1. keypair' \in 0 .. MaxReports /\ quoted' \subseteq 1 .. MaxReports
    BY WorkerAssumption DEF WorkerAssumption, IInv, TypeOK, ecall_create_report
  <2> QED
    BY <2>1 DEF IInv, TypeOK, ecall_create_report
<1>2. CacheSound'
  BY CacheStaysSound DEF ecall_create_report
<1>3. CacheNamed' /\ KeysHeld'
  BY DEF IInv, CacheNamed, ecall_has_key, KeysHeld, ecall_create_report
<1>4. ResultSound'
  BY NoResult DEF ecall_create_report
<1> QED
  BY <1>1, <1>2, <1>3, <1>4 DEF IInv

\* The single-key load: the cache is empty or of the FID just named.
LEMMA DecryptKeyStep == IInv /\ DecryptKey => IInv'
<1> SUFFICES ASSUME IInv, NEW blob \in quoted, NEW x \in Loads,
                    ecall_decrypt_key(blob, x.key, x.fid)
             PROVE  IInv'
  BY DEF DecryptKey
<1> DEFINE k == x.key  f == x.fid
<1>a. k \in Identity /\ f \in FID /\ k # None
  BY LoadTyped
<1>b. ecall_decrypt_key(blob, k, f)
  OBVIOUS
<1> HIDE DEF k, f
<1>1. cache' = None \/ (cache' = cache /\ worker.fid = f)
  BY <1>b, CacheAfterLoad DEF ecall_decrypt_key
<1>2. TypeOK'
  BY <1>a, <1>b, <1>1 DEF IInv, TypeOK, ecall_decrypt_key
<1>3. CacheSound'
  BY <1>b, <1>1, CacheStaysSound DEF ecall_decrypt_key
<1>4. KeysHeld'
  BY <1>b DEF IInv, KeysHeld, ecall_decrypt_key
<1>5. CacheNamed'
  BY <1>b, <1>1 DEF IInv, CacheNamed, ecall_has_key, ecall_decrypt_key
<1>6. ResultSound'
  BY <1>b, NoResult DEF ecall_decrypt_key
<1> QED
  BY <1>2, <1>3, <1>4, <1>5, <1>6 DEF IInv

\* The batch load: in full, or stopped with the new dkf under the old FID.
LEMMA BatchStep == IInv /\ DecryptKeysBatch => IInv'
<1> SUFFICES ASSUME IInv, NEW blob \in quoted, NEW x \in Loads,
                    ecall_decrypt_keys_batch(blob, x.key, x.label, x.fid)
             PROVE  IInv'
  BY DEF DecryptKeysBatch
<1> DEFINE k == x.key  l == x.label  f == x.fid
<1>1. k \in Identity /\ l \in Identity /\ f \in FID /\ k # None /\ l # None
  BY LoadTyped
<1>a. ecall_decrypt_keys_batch(blob, k, l, f)
  OBVIOUS
<1> HIDE DEF k, f, l
<1>5. ResultSound'
  BY <1>a, NoResult DEF ecall_decrypt_keys_batch
<1>6. CASE /\ worker' = [key |-> k, fid |-> f]
           /\ dklabel' = l
           /\ held' = held \cup {k, l}
           /\ cache' = CacheOnLoad(worker.fid, f)
  <2>1. cache' = None \/ (cache' = cache /\ worker.fid = f)
    BY <1>6, CacheAfterLoad
  <2>2. TypeOK'
    BY <1>a, <1>1, <1>6, <2>1 DEF IInv, TypeOK, ecall_decrypt_keys_batch
  <2>3. CacheSound'
    BY <1>6, <2>1, CacheStaysSound
  <2>4. KeysHeld' /\ CacheNamed'
    BY <1>a, <1>6, <2>1
    DEF IInv, KeysHeld, CacheNamed, ecall_has_key, ecall_decrypt_keys_batch
  <2> QED
    BY <2>2, <2>3, <2>4, <1>5 DEF IInv
<1>7. CASE /\ worker' = [worker EXCEPT !.key = k]
           /\ held' = held \cup {k}
           /\ UNCHANGED <<dklabel, cache>>
  <2>1. /\ worker' \in [key : Identity \cup {None}, fid : FID \cup {None}]
        /\ worker'.fid = worker.fid
        /\ worker'.key = k
    BY <1>1, <1>7 DEF IInv, TypeOK
  <2>2. TypeOK'
    BY <1>a, <1>1, <1>7, <2>1 DEF IInv, TypeOK, ecall_decrypt_keys_batch
  <2>3. CacheSound'
    BY <1>7, CacheStaysSound
  <2>4. KeysHeld' /\ CacheNamed'
    BY <1>a, <1>7, <2>1
    DEF IInv, KeysHeld, CacheNamed, ecall_has_key, ecall_decrypt_keys_batch
  <2> QED
    BY <2>2, <2>3, <2>4, <1>5 DEF IInv
<1> QED
  BY <1>a, <1>6, <1>7 DEF ecall_decrypt_keys_batch

\* The BF-IBE import: in full, or stopped with keys wiped or half replaced.
LEMMA BfibeStep == IInv /\ LoadBfibe => IInv'
<1> SUFFICES ASSUME IInv, NEW blob \in quoted, NEW b \in Bound,
                    ecall_load_bfibe_key_release(blob, b[1], b[2])
             PROVE  IInv'
  BY DEF LoadBfibe
<1> DEFINE f == b[1]  l == b[2]
<1>1. f \in FID /\ l \in Func
  BY BoundPair
<1>a. ecall_load_bfibe_key_release(blob, f, l)
  OBVIOUS
<1> HIDE DEF f, l
<1>5. ResultSound'
  BY <1>a, NoResult DEF ecall_load_bfibe_key_release
<1>h. held' = held \cup ({bfibe'.req, bfibe'.fn} \ {None})
  BY <1>a DEF ecall_load_bfibe_key_release
<1>6. CASE /\ bfibe' = [req |-> f, fn |-> l, fid |-> f]
           /\ cache' = CacheOnLoad(bfibe.fid, f)
  <2>1. cache' = None \/ (cache' = cache /\ bfibe.fid = f)
    BY <1>6, CacheAfterLoad
  <2>2. TypeOK'
    BY <1>a, <1>1, <1>6, <2>1, <1>h
    DEF IInv, TypeOK, Identity, ecall_load_bfibe_key_release
  <2>3. CacheSound'
    BY <1>h, <2>1, CacheStaysSound
  <2>4. KeysHeld' /\ CacheNamed'
    BY <1>a, <1>6, <2>1, <1>h
    DEF IInv, KeysHeld, CacheNamed, ecall_has_key, ecall_load_bfibe_key_release
  <2> QED
    BY <2>2, <2>3, <2>4, <1>5 DEF IInv
<1>7. CASE /\ \E r \in {None, f}, n \in {None, l} :
                bfibe' = [bfibe EXCEPT !.req = r, !.fn = n]
           /\ UNCHANGED cache
  <2>1. PICK r \in {None, f}, n \in {None, l} :
          bfibe' = [bfibe EXCEPT !.req = r, !.fn = n]
    BY <1>7
  <2>2. /\ bfibe' \in [req : FID \cup {None}, fn : Func \cup {None}, fid : FID \cup {None}]
        /\ bfibe'.fid = bfibe.fid
        /\ bfibe'.fn = n
        /\ bfibe'.req = r
    BY <1>1, <2>1 DEF IInv, TypeOK
  <2>3. TypeOK'
    BY <1>a, <1>1, <1>7, <2>2, <1>h
    DEF IInv, TypeOK, Identity, ecall_load_bfibe_key_release
  <2>4. CacheSound'
    BY <1>7, <1>h, CacheStaysSound
  <2>5. KeysHeld' /\ CacheNamed'
    BY <1>a, <1>7, <2>2, <1>h
    DEF IInv, KeysHeld, CacheNamed, ecall_has_key, ecall_load_bfibe_key_release
  <2> QED
    BY <2>3, <2>4, <2>5, <1>5 DEF IInv
<1> QED
  BY <1>a, <1>6, <1>7 DEF ecall_load_bfibe_key_release

\* Whichever way DecKey opens a C_k_func, it uses a key that reached the enclave.
LEMMA FuncKeyOpened ==
  ASSUME IInv, NEW kf \in FuncKey, NEW kr \in ReqKey, DecKeyFunc(kf, kr)
  PROVE  KeyReached(kf.func)
<1>1. kf.to # None
  BY WorkerAssumption DEF WorkerAssumption, Identity
<1>2. kf.to \in held
  BY <1>1 DEF DecKeyFunc, BfibeDecKey, IInv, KeysHeld
<1> QED
  BY <1>2 DEF KeyReached

\* Running a function: everything that ends up in the cache and in the result was
\* opened by keys of one FID.
LEMMA RunStep == IInv /\ Run => IInv'
<1> SUFFICES ASSUME IInv, NEW kf \in FuncKey, NEW kr \in ReqKey,
                    NEW c \in Func, NEW r \in Request, NEW s \in Sender,
                    ecall_run_encrypted_wasm(c, kf, kr, r, s)
             PROVE  IInv'
  BY DEF Run
<1> DEFINE fid == invocation_fid(kf, kr)
           hit == function_cache_lookup(fid, c)
<1>1. fid # None /\ UNCHANGED keys /\ DecKeyReq(kf, kr, s)
  BY DEF ecall_run_encrypted_wasm
<1>2. fid \in {worker.fid, bfibe.fid} /\ fid \in FID
  BY <1>1 DEF invocation_fid, IInv, TypeOK
<1>3. c \in [fid : FID, code : Code] /\ r \in [fid : FID, sender : Sender, empty : BOOLEAN] /\ c # None
  BY WorkerAssumption DEF WorkerAssumption
\* A hit is on code that was decrypted before, a miss decrypts it now.
<1>4. /\ ~hit => c.fid = fid /\ KeyReached(c)
      /\ cache' = cache \/ (~hit /\ cache' = [fid |-> fid, func |-> c, code |-> c.code])
  <2>1. ~hit => DecKeyFunc(kf, kr) /\ DecryptFunc(fid, c, kf)
    BY DEF ecall_run_encrypted_wasm, LoadFunction
  <2>3. DecKeyFunc(kf, kr) => KeyReached(kf.func)
    BY FuncKeyOpened
  <2>4. DecryptFunc(fid, c, kf) => kf.func = c /\ c.fid = fid
    BY DEF DecryptFunc
  <2>5. cache' = cache \/ (~hit /\ cache' = [fid |-> fid, func |-> c, code |-> c.code])
    BY DEF ecall_run_encrypted_wasm, LoadFunction
  <2> QED
    BY <2>1, <2>3, <2>4, <2>5
<1>5. hit => cache # None /\ cache.fid = fid /\ cache.func = c
  BY DEF function_cache_lookup
\* What runs is the code of c, and c is authorised.
<1>6. /\ CodeToRun(c, kf, kr) = c.code
      /\ c.fid = fid
      /\ KeyReached(c)
  <2>1. CASE hit
    BY <2>1, <1>5 DEF CodeToRun, IInv, CacheSound
  <2>2. CASE ~hit
    BY <2>2, <1>4 DEF CodeToRun
  <2> QED
    BY <2>1, <2>2
<1>7. \/ result' = None
      \/ /\ DecryptReq(fid, r, kr, s)
         /\ result' = [fid |-> fid, func |-> c, code |-> c.code, req |-> r, sealedFor |-> s]
  BY <1>6 DEF ecall_run_encrypted_wasm
<1>k. kr.to \in {worker.key, bfibe.req, bfibe.fn}
  BY <1>1 DEF DecKeyReq, BfibeDecKey
<1> HIDE DEF fid, hit
<1>8. TypeOK'
  <2>1. cache' \in Cached \cup {None}
    BY <1>2, <1>3, <1>4 DEF Cached, IInv, TypeOK
  <2>2. result' \in Result \cup {None}
    BY <1>2, <1>3, <1>7 DEF Result
  <2> QED
    BY <1>1, <2>1, <2>2 DEF IInv, TypeOK, keys
<1>9. CacheSound' /\ CacheNamed' /\ KeysHeld'
  <2>1. held' = held
    BY <1>1 DEF keys
  <2>2. KeyReached(c)'
    BY <2>1, <1>6 DEF KeyReached
  <2>3. cache' = cache => CacheSound'
    BY <2>1, CacheStaysSound
  <2>4. CacheSound'
    BY <2>2, <2>3, <1>4, <1>6 DEF CacheSound
  <2>5. CacheNamed' /\ KeysHeld'
    BY <1>1, <1>2, <1>4 DEF IInv, CacheNamed, ecall_has_key, KeysHeld, keys
  <2> QED
    BY <2>4, <2>5
<1>10. ResultSound'
  <2>1. CASE result' = None
    BY <2>1, NoResult
  <2>2. CASE /\ DecryptReq(fid, r, kr, s)
             /\ result' = [fid |-> fid, func |-> c, code |-> c.code, req |-> r, sealedFor |-> s]
    <3>1. RunsAsRequested' /\ ResultForSender'
      BY <2>2, <1>6 DEF RunsAsRequested, ResultForSender, DecryptReq
    <3>2. FunctionKeyReleased'
      BY <2>2, <1>1, <1>6 DEF FunctionKeyReleased, KeyReached, keys
    <3>3. ~r.empty => kr.req = r
      BY <2>2 DEF DecryptReq
    <3>4. PayloadOpened'
      BY <2>2, <3>3, <1>1, <1>k DEF PayloadOpened, keys
    <3> QED
      BY <3>1, <3>2, <3>4 DEF ResultSound
  <2> QED
    BY <2>1, <2>2, <1>7
<1> QED
  BY <1>8, <1>9, <1>10 DEF IInv

\* A refused call and a stuttering step.
LEMMA QuietStep == IInv /\ (Fail \/ UNCHANGED vars) => IInv'
<1> SUFFICES ASSUME IInv, Fail \/ UNCHANGED vars PROVE IInv'
  OBVIOUS
<1>1. UNCHANGED <<keys, cache>> /\ (result' = None \/ result' = result)
  BY DEF Fail, vars
<1>2. TypeOK' /\ CacheNamed' /\ KeysHeld'
  BY <1>1 DEF IInv, TypeOK, CacheNamed, ecall_has_key, KeysHeld, keys
<1>3. CacheSound'
  BY <1>1, CacheStaysSound DEF keys
<1>4. result' = result => ResultSound'
  BY <1>1 DEF IInv, ResultSound, RunsAsRequested, ResultForSender, FunctionKeyReleased,
     KeyReached, PayloadOpened, keys
<1> QED
  BY <1>1, <1>2, <1>3, <1>4, NoResult DEF IInv

-----------------------------------------------------------------------------
\* Every reachable state of the worker enclave satisfies the invariant.
THEOREM WorkerInvariance == Spec => []IInv
<1>1. IInv /\ [Next]_vars => IInv'
  BY ReportStep, DecryptKeyStep, BatchStep, BfibeStep, RunStep, QuietStep DEF Next
<1> QED
  BY InitIInv, <1>1, PTL DEF Spec

\* The variables keep their types.
THEOREM WorkerTypeCorrect == Spec => []TypeOK
<1>1. IInv => TypeOK
  BY DEF IInv
<1> QED
  BY WorkerInvariance, <1>1, PTL

\* Whatever was cached, half loaded or mixed, what runs is what was asked for.
THEOREM WorkerRunsAsRequested == Spec => []RunsAsRequested
<1>1. IInv => RunsAsRequested
  BY DEF IInv, ResultSound
<1> QED
  BY WorkerInvariance, <1>1, PTL

\* A result goes to the sender of the request whose payload it was computed from.
THEOREM WorkerAnswersSender == Spec => []ResultForSender
<1>1. IInv => ResultForSender
  BY DEF IInv, ResultSound
<1> QED
  BY WorkerInvariance, <1>1, PTL

\* Under no sequence of loads does cached code stay under a FID the enclave no
\* longer answers for, or stand in for the key of a request with a payload.
THEOREM CacheIsOwned == Spec => []CacheOwned
<1>1. IInv => CacheOwned
  BY DEF IInv, ResultSound, PayloadOpened, CacheNamed, CacheOwned
<1> QED
  BY WorkerInvariance, <1>1, PTL

\* No code runs unless a key that opens one of its C_k_func was released to this
\* enclave, whatever identity the envelope was closed for.
THEOREM CodeIsReleased == Spec => []FunctionKeyReleased
<1>1. IInv => FunctionKeyReleased
  BY DEF IInv, ResultSound
<1> QED
  BY WorkerInvariance, <1>1, PTL

\* A package whose every C_k_func is closed for its own label, as the SDK closes it,
\* runs only after the KMS released its label key to this enclave.
THEOREM SdkPackageNeedsLabelKey ==
  ASSUME NEW c \in Func, \A kf \in FuncKey : kf.func = c => kf.to = c
  PROVE  Spec => [](result # None /\ result.func = c => c \in held)
<1>1. FunctionKeyReleased => (result # None /\ result.func = c => c \in held)
  BY DEF FunctionKeyReleased, KeyReached
<1> QED
  BY CodeIsReleased, <1>1, PTL
=============================================================================
