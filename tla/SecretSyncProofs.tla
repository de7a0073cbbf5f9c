-------------------------- MODULE SecretSyncProofs ---------------------------
(***************************************************************************)
(* Secrets of others are safe from reconcileSecrets, and entries made of    *)
(* the client secret are found and safe on their way, for every set of      *)
(* names, keys and specs, whatever the caches lag behind.                   *)
(***************************************************************************)
EXTENDS SecretSyncProperties, TLAPS

-----------------------------------------------------------------------------
(* Secrets in the API server and in the cache. *)

Stored == Secret \union {None}
Event == [name : Names, secret : Stored]

SecretsOK ==
  store \in [Names -> Stored] /\ cache \in [Names -> Stored] /\ pending \in Seq(Event)

ObjectsOK == object \in Object /\ seen \in Object /\ seenFresh \in BOOLEAN

BoundsOK == edits \in 0..MaxEdits /\ faults \in 0..MaxFaults /\ outside \in 0..MaxOutside

WorkerOK == pc \in Stages /\ loc \in Work /\ fresh \in BOOLEAN

\* The parts are the type invariant, before a step and after it.
LEMMA TypeOKInParts ==
  /\ TypeOK <=> SecretsOK /\ ObjectsOK /\ BoundsOK /\ WorkerOK /\ omits \in BOOLEAN
  /\ TypeOK' <=> SecretsOK' /\ ObjectsOK' /\ BoundsOK' /\ WorkerOK' /\ omits' \in BOOLEAN
  BY DEF TypeOK, SecretsOK, ObjectsOK, BoundsOK, WorkerOK, Stored, Event

\* A fault is counted.
LEMMA FaultBounded ==
  ASSUME BoundsOK, Fault \/ UNCHANGED faults, UNCHANGED <<edits, outside>>
  PROVE  BoundsOK'
  BY BoundsAssumption DEF BoundsOK, Fault

\* A change goes to the end of what the watch delivers.
LEMMA StoreEffect ==
  ASSUME SecretsOK, CacheCatchesUp, NEW name \in Names, NEW secret \in Stored,
         StoreSecret(name, secret)
  PROVE  SecretsOK' /\ CacheCatchesUp' /\ store' = [store EXCEPT ![name] = secret]
  <1> DEFINE event == [name |-> name, secret |-> secret]
  <1>1. /\ store' = [store EXCEPT ![name] = secret]
        /\ pending' = Append(pending, event) /\ cache' = cache
    BY DEF StoreSecret
  <1>2. event \in Event
    BY DEF Event
  <1>3. SecretsOK'
    BY <1>1, <1>2 DEF SecretsOK
  <1>4. /\ DOMAIN pending = 1..Len(pending) /\ DOMAIN pending' = 1..(Len(pending) + 1)
        /\ Len(pending) \in Nat
        /\ \A i \in 1..Len(pending) : pending'[i] = pending[i]
        /\ pending'[Len(pending) + 1].name = name
        /\ pending'[Len(pending) + 1].secret = secret
    BY <1>1, <1>2 DEF SecretsOK
  <1>5. \A n \in Names : Current(n)' => n # name /\ Current(n)
    BY <1>4 DEF Current
  <1>6. \A n \in Names : n # name => store'[n] = store[n]
    BY <1>1 DEF SecretsOK
  <1>7. \A n \in Names : Current(n)' => cache'[n] = store'[n]
    BY <1>1, <1>5, <1>6 DEF CacheCatchesUp
  <1>8. ASSUME NEW i \in DOMAIN pending',
               \A j \in DOMAIN pending' : j > i => pending'[j].name # pending'[i].name
        PROVE  pending'[i].secret = store'[pending'[i].name]
    <2>1. CASE i = Len(pending) + 1
      BY <1>1, <1>4, <2>1 DEF SecretsOK
    <2>2. CASE i # Len(pending) + 1
      <3>1. i \in DOMAIN pending /\ pending'[i] = pending[i] /\ pending[i].name \in Names
        <4>1. i \in 1..Len(pending)
          BY <1>4, <1>8, <2>2
        <4>2. pending[i] \in Event
          BY <4>1 DEF SecretsOK
        <4> QED BY <1>4, <4>1, <4>2 DEF Event
      <3>2. pending[i].name # name
        BY <1>4, <1>8, <3>1
      <3>3. \A j \in DOMAIN pending : j > i => pending[j].name # pending[i].name
        BY <1>4, <1>8, <3>1
      <3>4. pending[i].secret = store[pending[i].name]
        BY <3>1, <3>3 DEF CacheCatchesUp
      <3> QED BY <1>6, <3>1, <3>2, <3>4
    <2> QED BY <2>1, <2>2
  <1>9. CacheCatchesUp'
    BY <1>7, <1>8 DEF CacheCatchesUp
  <1> QED BY <1>1, <1>3, <1>9

\* The watch delivers the oldest change.
LEMMA DeliveryEffect ==
  ASSUME SecretsOK, CacheCatchesUp, WatchSecrets
  PROVE  SecretsOK' /\ CacheCatchesUp'
  <1>1. /\ pending # <<>> /\ store' = store
        /\ cache' = [cache EXCEPT ![Head(pending).name] = Head(pending).secret]
        /\ pending' = Tail(pending)
    BY DEF WatchSecrets
  <1>2. /\ Len(pending) \in Nat /\ Len(pending) > 0 /\ DOMAIN pending = 1..Len(pending)
        /\ Head(pending) = pending[1] /\ pending[1] \in Event
    BY <1>1 DEF SecretsOK
  <1>3. /\ DOMAIN pending' = 1..(Len(pending) - 1)
        /\ \A i \in 1..(Len(pending) - 1) : pending'[i] = pending[i + 1]
        /\ pending' \in Seq(Event)
    BY <1>1, <1>2 DEF SecretsOK
  <1>4. SecretsOK'
    BY <1>1, <1>2, <1>3 DEF SecretsOK, Event
  <1>5. \A i \in DOMAIN pending : i = 1 \/ (i - 1 \in DOMAIN pending' /\ pending'[i - 1] = pending[i])
    BY <1>2, <1>3
  <1>6. ASSUME NEW n \in Names, Current(n)' PROVE cache'[n] = store'[n]
    <2>1. \A i \in DOMAIN pending : pending[i].name = n => i = 1
      BY <1>5, <1>6 DEF Current
    <2>2. CASE pending[1].name = n
      <3>1. \A j \in DOMAIN pending : j > 1 => pending[j].name # pending[1].name
        BY <1>2, <2>1, <2>2
      <3>2. pending[1].secret = store[n]
        BY <1>2, <2>2, <3>1 DEF CacheCatchesUp
      <3> QED BY <1>1, <1>2, <2>2, <3>2 DEF SecretsOK
    <2>3. CASE pending[1].name # n
      <3>1. Current(n)
        BY <2>1, <2>3 DEF Current
      <3> QED BY <1>1, <1>2, <2>3, <3>1 DEF SecretsOK, CacheCatchesUp
    <2> QED BY <2>2, <2>3
  <1>7. ASSUME NEW i \in DOMAIN pending',
               \A j \in DOMAIN pending' : j > i => pending'[j].name # pending'[i].name
        PROVE  pending'[i].secret = store'[pending'[i].name]
    <2>1. i + 1 \in DOMAIN pending /\ pending'[i] = pending[i + 1] /\ i \in Nat
      BY <1>2, <1>3
    <2>2. \A j \in DOMAIN pending : j > i + 1 => pending[j].name # pending[i + 1].name
      <3> SUFFICES ASSUME NEW j \in DOMAIN pending, j > i + 1
                   PROVE  pending[j].name # pending[i + 1].name
        OBVIOUS
      <3>1. j - 1 \in DOMAIN pending' /\ pending'[j - 1] = pending[j] /\ j - 1 > i
        BY <1>2, <1>3, <2>1
      <3> QED BY <1>7, <2>1, <3>1
    <2>3. pending[i + 1].secret = store[pending[i + 1].name]
      BY <2>1, <2>2 DEF CacheCatchesUp
    <2> QED BY <1>1, <2>1, <2>3
  <1> QED BY <1>4, <1>6, <1>7 DEF CacheCatchesUp

-----------------------------------------------------------------------------
(* What is rendered. *)

LEMMA RenderedTypes ==
  ASSUME SecretsOK, ObjectsOK
  PROVE  ApplicationData(seen) \in Data /\ EnvoyData \in Data
  <1>1. seen.spec \in AppSpec /\ seen.spec.name \in Names
        /\ seen.secretName \in Names \union {None}
    BY AppSpecsAssumption DEF ObjectsOK, Object, AppSpec
  <1>2. \A name \in Names \union {None} : Cached(name) \in Stored
    BY DEF SecretsOK, Cached, Stored
  <1>3. NoData \in Data
    BY DEF NoData, Data
  <1>4. \A secret \in Stored : secret # None => secret.data \in Data
    BY DEF Stored, Secret
  <1>5. ApplicationName(seen.spec) \in Names \union {None}
    BY <1>1 DEF ApplicationName
  <1>6. PreviousApplication(seen) \in Stored
    <2>1. Cached(seen.secretName) \in Stored /\ Cached(ApplicationName(seen.spec)) \in Stored
      BY <1>1, <1>2, <1>5
    <2>2. None \in Stored
      BY DEF Stored
    <2> QED BY <2>1, <2>2, Zenon DEF PreviousApplication
  <1>7. Cached(ApplicationName(seen.spec)) \in Stored
    BY <1>2, <1>5
  <1>8. PreviousData(seen) \in Data
    <2> DEFINE desired == Cached(ApplicationName(seen.spec))
               previous == PreviousApplication(seen)
    <2>1. ASSUME Owned(desired) PROVE PreviousData(seen) = desired.data
      BY <2>1, Zenon DEF PreviousData
    <2>2. ASSUME ~Owned(desired), previous # None PROVE PreviousData(seen) = previous.data
      BY <2>2, Zenon DEF PreviousData
    <2>3. ASSUME ~Owned(desired), previous = None PROVE PreviousData(seen) = NoData
      BY <2>3, Zenon DEF PreviousData
    <2>4. Owned(desired) => desired # None
      BY DEF Owned
    <2> HIDE DEF desired, previous
    <2>5. CASE Owned(desired)
      BY <1>4, <1>7, <2>1, <2>4, <2>5 DEF desired
    <2>6. CASE ~Owned(desired) /\ previous # None
      BY <1>4, <1>6, <2>2, <2>6 DEF previous
    <2>7. CASE ~Owned(desired) /\ previous = None
      BY <1>3, <2>3, <2>7
    <2> QED BY <2>5, <2>6, <2>7
  <1>9. ApplicationData(seen) \in Data
    <2> SUFFICES ASSUME NEW k \in Keys
                 PROVE  ApplicationData(seen)[k] \in Origins \union {"absent"}
      BY DEF ApplicationData, Data
    <2>1. seen.spec.template[k] \in {"absent", "plain", "secret"}
      BY <1>1 DEF AppSpec
    <2>2. PreviousData(seen)[k] \in Origins \union {"absent"}
      BY <1>8 DEF Data
    <2>3. "rendered" \in Origins /\ "plain" \in Origins
      BY DEF Origins
    <2>4. ASSUME seen.spec.template[k] = "secret", omits
          PROVE  ApplicationData(seen)[k] = PreviousData(seen)[k]
      BY <2>4, Zenon DEF ApplicationData
    <2>5. ASSUME seen.spec.template[k] = "secret", ~omits
          PROVE  ApplicationData(seen)[k] = "rendered"
      BY <2>5, Zenon DEF ApplicationData
    <2>6. ASSUME seen.spec.template[k] # "secret"
          PROVE  ApplicationData(seen)[k] = seen.spec.template[k]
      BY <2>6, Zenon DEF ApplicationData
    <2> QED BY <2>1, <2>2, <2>3, <2>4, <2>5, <2>6
  <1>10. EnvoyData \in Data
    <2> DEFINE kept == IF Owned(cache[EnvoyName]) THEN cache[EnvoyName].data[ClientKey] ELSE "absent"
    <2>1. cache[EnvoyName] \in Stored
      BY NamesAssumption DEF SecretsOK
    <2>2. kept \in Origins \union {"absent"}
      BY <1>4, <2>1, NamesAssumption DEF Owned, Data
    <2> HIDE DEF kept
    <2>3. (IF omits THEN kept ELSE "raw") \in Origins \union {"absent"}
      BY <2>2 DEF Origins
    <2>4. EnvoyData = [NoData EXCEPT ![ClientKey] = IF omits THEN kept ELSE "raw"]
      BY DEF EnvoyData, kept
    <2> QED BY <1>3, <2>3, <2>4 DEF Data
  <1> QED BY <1>9, <1>10

-----------------------------------------------------------------------------
(* The stages of the running reconcile. *)

SecretsInv == SecretsOK /\ CacheCatchesUp

\* The invariant but for the last part, which concerns the order of the writes.
Good == SecretsInv /\ ObjectsOK /\ BoundsOK /\ WorkerOK /\ omits \in BOOLEAN

\* The invariant, before a step and after it.
LEMMA SyncInvInParts ==
  /\ SyncInv <=> Good /\ StageRight /\ EntriesWritten
  /\ SyncInv' <=> Good' /\ StageRight' /\ EntriesWritten'
  <1>1. SyncInv <=> Good /\ StageRight /\ EntriesWritten
    BY TypeOKInParts DEF SyncInv, Good, SecretsInv
  <1>2. SyncInv' <=> Good' /\ StageRight' /\ EntriesWritten'
    BY TypeOKInParts DEF SyncInv, Good, SecretsInv
  <1> QED BY <1>1, <1>2

\* No work is well formed.
LEMMA NoWorkTypes == NoWork \in Work
  BY DEF NoWork, Work, NoData, Data, Object

\* A reconcile that has ended owes nothing.
LEMMA ReturnEffect ==
  ASSUME Return
  PROVE  WorkerOK' /\ StageRight' /\ EntriesWritten'
  <1>1. pc' = "idle" /\ loc' = NoWork /\ fresh' = FALSE
    BY DEF Return
  <1>2. WorkerOK'
    BY <1>1, NoWorkTypes DEF WorkerOK, Stages
  <1>3. StageRight' /\ EntriesWritten'
    BY <1>1 DEF StageRight, EntriesWritten
  <1> QED BY <1>2, <1>3

\* Who leaves the Secrets alone keeps what holds of them.
LEMMA SecretsUnchanged ==
  ASSUME SecretsInv, UNCHANGED secretVars
  PROVE  SecretsInv'
  BY DEF SecretsInv, SecretsOK, CacheCatchesUp, Current, secretVars

\* Initially the caches are right and nothing is under way.
LEMMA InitSyncInv == Init => SyncInv
  <1> SUFFICES ASSUME Init PROVE SyncInv
    OBVIOUS
  <1>1. NoData \in Data
    BY DEF NoData, Data
  <1>2. store \in [Names -> Stored]
    <2> DEFINE nobodys == [owner |-> "nobody", role |-> "none", data |-> NoData]
               others == [owner |-> "other", role |-> "application", data |-> NoData]
    <2>1. nobodys \in Stored /\ others \in Stored /\ None \in Stored
      BY <1>1 DEF Stored, Secret, Owners, Roles
    <2>2. store \in [Names -> {None, nobodys, others}]
      BY DEF Init
    <2> HIDE DEF nobodys, others
    <2> QED BY <2>1, <2>2
  <1>3. cache = store /\ pending = <<>>
    BY DEF Init
  <1>4. SecretsInv
    BY <1>2, <1>3 DEF SecretsInv, SecretsOK, CacheCatchesUp
  <1>5. ObjectsOK
    BY DEF Init, ObjectsOK, Object
  <1>6. BoundsOK
    BY BoundsAssumption DEF Init, BoundsOK
  <1>7. WorkerOK /\ omits \in BOOLEAN
    BY NoWorkTypes DEF Init, WorkerOK, Stages
  <1>8. StageRight /\ EntriesWritten
    BY DEF Init, StageRight, EntriesWritten
  <1> QED BY <1>4, <1>5, <1>6, <1>7, <1>8, SyncInvInParts DEF Good

-----------------------------------------------------------------------------
(* Every action keeps the invariant. *)

LEMMA PrepareStep == ASSUME SyncInv, Prepare PROVE SyncInv'
  <1>1. Good /\ StageRight /\ EntriesWritten
    BY SyncInvInParts
  <1>2. SecretsInv' /\ ObjectsOK' /\ BoundsOK' /\ omits' \in BOOLEAN
    <2>1. UNCHANGED <<secretVars, objectVars, omits, edits, faults, outside>>
      BY DEF Prepare
    <2>2. SecretsInv'
      BY <1>1, <2>1, SecretsUnchanged DEF Good
    <2> QED BY <1>1, <2>1, <2>2 DEF Good, ObjectsOK, BoundsOK, objectVars
  <1> DEFINE a == ApplicationData(seen)
             e == EnvoyData
  <1>3. loc' = [NoWork EXCEPT !.object = seen, !.application = a, !.envoy = e]
        /\ fresh' = seenFresh
    BY DEF Prepare
  <1>4. a \in Data /\ e \in Data /\ seen \in Object
    BY <1>1, RenderedTypes DEF Good, SecretsInv, ObjectsOK
  <1> HIDE DEF a, e
  <1>5. /\ loc' \in Work /\ loc'.object = seen /\ loc'.application = a
        /\ loc'.named = {} /\ loc'.found = {}
    BY <1>3, <1>4, NoWorkTypes DEF Work, NoWork
  <1>6. \/ pc' = "writeApplication" /\ Templated(seen.spec)
        \/ pc' = "writeEnvoy" /\ ~Templated(seen.spec) /\ seen.spec.routes
        \/ pc' = "listStale" /\ ~Templated(seen.spec)
    <2>1. ASSUME Templated(seen.spec) PROVE pc' = "writeApplication"
      BY <2>1, Zenon DEF Prepare
    <2>2. ASSUME ~Templated(seen.spec), seen.spec.routes PROVE pc' = "writeEnvoy"
      BY <2>2, Zenon DEF Prepare
    <2>3. ASSUME ~Templated(seen.spec), ~seen.spec.routes PROVE pc' = "listStale"
      BY <2>3, Zenon DEF Prepare
    <2> QED BY <2>1, <2>2, <2>3
  <1>7. WorkerOK'
    BY <1>1, <1>3, <1>5, <1>6 DEF Good, ObjectsOK, WorkerOK, Stages
  <1>8. StageRight'
    BY <1>4, <1>5, <1>6 DEF StageRight
  <1>9. EntriesWritten'
    <2>1. \A k \in Keys : seen.spec.template[k] = "secret" => Templated(seen.spec)
      BY DEF Templated
    <2> QED BY <1>5, <1>6, <2>1 DEF EntriesWritten, InHand
  <1> QED BY <1>2, <1>7, <1>8, <1>9, SyncInvInParts DEF Good

\* The copy of a Secret a reconcile writes.
Written(role, data) == [owner |-> "app", role |-> role, data |-> data]

\* A write goes to the Secret it names or nowhere; and if the reconcile goes on
\* from a current copy, the Secret is as written.
LEMMA WriteEffect ==
  ASSUME Good, NEW name \in Names, NEW role \in Roles, NEW data \in Data, NEW next \in Stages,
         WriteSecret(name, role, data, next)
  PROVE  /\ Good' /\ UNCHANGED <<objectVars, omits, edits, outside>>
         /\ store' = store
            \/ (/\ store' = [store EXCEPT ![name] = Written(role, data)]
                /\ Controllable(cache[name]) /\ Accepted(name))
         /\ Return
            \/ (/\ pc' = next /\ loc' = [loc EXCEPT !.sound = loc'.sound] /\ loc'.sound \in BOOLEAN
                /\ loc'.sound => loc.sound /\ store'[name] = Written(role, data))
  <1> DEFINE written == Written(role, data)
  <1>1. written \in Stored /\ written \in Secret
    BY DEF Written, Stored, Secret, Owners
  <1>2. UNCHANGED <<objectVars, omits, edits, outside>>
    BY DEF WriteSecret
  <1>3. ObjectsOK' /\ omits' \in BOOLEAN
    BY <1>2 DEF Good, ObjectsOK, objectVars
  <1> DEFINE Done == Continue(next, [loc EXCEPT !.sound = @ /\ Current(name)])
  <1>4. \/ UpToDate(name, written) /\ UNCHANGED <<secretVars, faults>> /\ Done
        \/ /\ Controllable(cache[name]) /\ Accepted(name) /\ StoreSecret(name, written)
           /\ (Done /\ UNCHANGED faults) \/ (Return /\ Fault)
        \/ UNCHANGED <<secretVars, faults>> /\ Return
    BY DEF WriteSecret, Written
  <1>5. ASSUME Done
        PROVE  /\ WorkerOK' /\ pc' = next
               /\ loc' = [loc EXCEPT !.sound = loc'.sound] /\ loc'.sound \in BOOLEAN
               /\ loc'.sound => loc.sound /\ Current(name)
    <2>1. loc \in Work /\ fresh \in BOOLEAN
      BY DEF Good, WorkerOK
    <2>2. pc' = next /\ fresh' = fresh
          /\ loc' = [loc EXCEPT !.sound = loc.sound /\ Current(name)]
      BY <1>5 DEF Continue
    <2>3. loc.sound \in BOOLEAN
      BY <2>1 DEF Work
    <2>4. Current(name) \in BOOLEAN
      BY DEF Current
    <2> DEFINE sound == loc.sound /\ Current(name)
    <2>5. sound \in BOOLEAN
      BY <2>3, <2>4
    <2>6. sound => loc.sound /\ Current(name)
      OBVIOUS
    <2>7. loc' = [loc EXCEPT !.sound = sound]
      BY <2>2
    <2> HIDE DEF sound
    <2>8. loc' \in Work /\ loc'.sound = sound
      BY <2>1, <2>5, <2>7 DEF Work
    <2>9. loc' = [loc EXCEPT !.sound = loc'.sound]
      BY <2>7, <2>8, Zenon
    <2>10. WorkerOK'
      BY <2>1, <2>2, <2>8 DEF WorkerOK
    <2> QED BY <2>2, <2>5, <2>6, <2>8, <2>9, <2>10, Zenon
  <1>6. ASSUME Return PROVE WorkerOK'
    BY <1>6, ReturnEffect
  <1>7. BoundsOK'
    BY <1>2, <1>4, FaultBounded DEF Good
  <1>8. CASE UpToDate(name, written) /\ UNCHANGED <<secretVars, faults>> /\ Done
    <2>1. SecretsInv' /\ store' = store
      BY <1>8, SecretsUnchanged DEF Good, secretVars
    <2>2. Current(name) => store'[name] = written
      BY <1>8, <2>1 DEF UpToDate, Good, SecretsInv, CacheCatchesUp
    <2> HIDE DEF Done
    <2> QED BY <1>2, <1>3, <1>5, <1>7, <1>8, <2>1, <2>2 DEF Good
  <1>9. CASE /\ Controllable(cache[name]) /\ Accepted(name) /\ StoreSecret(name, written)
             /\ (Done /\ UNCHANGED faults) \/ (Return /\ Fault)
    <2>1. SecretsInv' /\ store' = [store EXCEPT ![name] = written]
      BY <1>1, <1>9, StoreEffect DEF Good, SecretsInv
    <2>2. store'[name] = written
      BY <2>1 DEF Good, SecretsInv, SecretsOK
    <2> HIDE DEF Done
    <2> QED BY <1>2, <1>3, <1>5, <1>6, <1>7, <1>9, <2>1, <2>2 DEF Good
  <1>10. CASE UNCHANGED <<secretVars, faults>> /\ Return
    <2>1. SecretsInv' /\ store' = store
      BY <1>10, SecretsUnchanged DEF Good, secretVars
    <2> QED BY <1>2, <1>3, <1>6, <1>7, <1>10, <2>1 DEF Good
  <1> QED BY <1>4, <1>8, <1>9, <1>10

\* Going on with the same copy of the object and the same data in hand, a stage
\* after the writes keeps what the writes achieved.
LEMMA AfterWrites ==
  ASSUME EntriesWritten, outside' = outside,
         pc \in {"writeEnvoy", "listStale", "deleteStale", "record"},
         loc'.object = loc.object, loc'.application = loc.application, loc'.sound => loc.sound,
         Templated(loc.object.spec) =>
           store'[loc.object.spec.name] = store[loc.object.spec.name]
  PROVE  EntriesWritten'
  <1> SUFFICES ASSUME loc'.sound, outside' = 0, NEW k \in Keys, InHand(k)'
               PROVE  LET secret == store'[loc'.object.spec.name] IN
                      Owned(secret) /\ secret.data[k] = "rendered"
    BY DEF EntriesWritten, Owned
  <1>1. InHand(k)
    BY DEF InHand
  <1>2. Templated(loc.object.spec)
    BY <1>1 DEF InHand, Templated
  <1> QED BY <1>1, <1>2 DEF EntriesWritten

\* The application Secret is written with the entries in hand.
LEMMA WriteApplicationStep == ASSUME SyncInv, WriteApplication PROVE SyncInv'
  <1>1. Good /\ StageRight /\ EntriesWritten
    BY SyncInvInParts
  <1> DEFINE spec == loc.object.spec
             next == IF spec.routes THEN "writeEnvoy" ELSE "listStale"
  <1>2. /\ loc \in Work /\ loc.object \in Object /\ spec \in AppSpecs /\ spec \in AppSpec
        /\ Templated(spec) /\ spec.name \in Names
        /\ (loc.named \union loc.found) \intersect DesiredNames(spec) = {}
    BY <1>1, AppSpecsAssumption
       DEF WriteApplication, StageRight, Object, AppSpec, Good, WorkerOK
  <1>3. loc.application \in Data /\ "application" \in Roles /\ next \in Stages
    BY <1>2 DEF Work, Roles, Stages
  <1>4. WriteSecret(spec.name, "application", loc.application, next)
    BY DEF WriteApplication
  <1>5. /\ Good' /\ UNCHANGED <<objectVars, omits, edits, outside>>
        /\ Return
           \/ (/\ pc' = next /\ loc' = [loc EXCEPT !.sound = loc'.sound] /\ loc'.sound \in BOOLEAN
               /\ loc'.sound => loc.sound
                                /\ store'[spec.name] = Written("application", loc.application))
    <2> HIDE DEF spec, next
    <2> QED BY <1>1, <1>2, <1>3, <1>4, WriteEffect
  <1>6. CASE Return
    BY <1>5, <1>6, ReturnEffect, SyncInvInParts
  <1>7. CASE /\ pc' = next /\ loc' = [loc EXCEPT !.sound = loc'.sound]
             /\ loc'.sound => loc.sound
                              /\ store'[spec.name] = Written("application", loc.application)
    <2>1. /\ loc'.object = loc.object /\ loc'.application = loc.application
          /\ loc'.named = loc.named /\ loc'.found = loc.found
      BY <1>2, <1>7 DEF Work
    <2>2. pc' \in {"writeEnvoy", "listStale"} /\ (pc' = "writeEnvoy" => spec.routes)
      BY <1>7
    <2>3. StageRight'
      BY <1>2, <2>1, <2>2 DEF StageRight
    <2>4. EntriesWritten'
      <3> SUFFICES ASSUME loc'.sound, NEW k \in Keys, InHand(k)'
                   PROVE  LET secret == store'[loc'.object.spec.name] IN
                          Owned(secret) /\ secret.data[k] = "rendered"
        BY DEF EntriesWritten, Owned
      <3>1. loc.application[k] = "rendered"
        BY <2>1 DEF InHand
      <3>2. store'[spec.name] = Written("application", loc.application)
        BY <1>7
      <3>3. Written("application", loc.application) \in Secret
        BY <1>3 DEF Written, Secret, Owners
      <3>4. Written("application", loc.application) # None
        BY <3>3, AbsentAssumption
      <3> QED BY <2>1, <3>1, <3>2, <3>4 DEF Owned, Written
    <2> QED BY <1>5, <2>3, <2>4, SyncInvInParts
  <1> QED BY <1>5, <1>6, <1>7

\* The Envoy Secret has another name than the application Secret.
LEMMA WriteEnvoyStep == ASSUME SyncInv, WriteEnvoy PROVE SyncInv'
  <1>1. Good /\ StageRight /\ EntriesWritten
    BY SyncInvInParts
  <1> DEFINE spec == loc.object.spec
  <1>2. /\ pc = "writeEnvoy" /\ loc \in Work /\ loc.object \in Object
        /\ spec \in AppSpecs /\ spec \in AppSpec /\ spec.routes /\ EnvoyName \in Names
        /\ (loc.named \union loc.found) \intersect DesiredNames(spec) = {}
    BY <1>1, AppSpecsAssumption, NamesAssumption
       DEF WriteEnvoy, StageRight, Object, Good, WorkerOK
  <1>3. loc.envoy \in Data /\ "envoy" \in Roles /\ "listStale" \in Stages
    BY <1>2 DEF Work, Roles, Stages
  <1>4. WriteSecret(EnvoyName, "envoy", loc.envoy, "listStale")
    BY DEF WriteEnvoy
  <1>5. /\ Good' /\ UNCHANGED <<objectVars, omits, edits, outside>>
        /\ store' = store \/ store' = [store EXCEPT ![EnvoyName] = Written("envoy", loc.envoy)]
        /\ Return
           \/ (/\ pc' = "listStale" /\ loc' = [loc EXCEPT !.sound = loc'.sound]
               /\ loc'.sound \in BOOLEAN /\ loc'.sound => loc.sound)
    BY <1>1, <1>2, <1>3, <1>4, WriteEffect
  <1>6. CASE Return
    BY <1>5, <1>6, ReturnEffect, SyncInvInParts
  <1>7. CASE /\ pc' = "listStale" /\ loc' = [loc EXCEPT !.sound = loc'.sound]
             /\ loc'.sound => loc.sound
    <2>1. /\ loc'.object = loc.object /\ loc'.application = loc.application
          /\ loc'.named = loc.named /\ loc'.found = loc.found
      BY <1>2, <1>7 DEF Work
    <2>2. StageRight'
      BY <1>2, <1>7, <2>1 DEF StageRight
    <2>3. Templated(spec) => spec.name # EnvoyName /\ spec.name \in Names
      BY <1>2, AppSpecsAssumption DEF AppSpec
    <2>4. Templated(spec) => store'[spec.name] = store[spec.name]
      BY <1>1, <1>5, <2>3 DEF Good, SecretsInv, SecretsOK
    <2>5. EntriesWritten'
      BY <1>1, <1>2, <1>5, <1>7, <2>1, <2>4, AfterWrites
    <2> QED BY <1>5, <2>2, <2>5, SyncInvInParts
  <1> QED BY <1>5, <1>6, <1>7

\* A Secret the object names is no candidate.
LEMMA ListStaleStep == ASSUME SyncInv, ListStale PROVE SyncInv'
  <1>1. Good /\ StageRight /\ EntriesWritten
    BY SyncInvInParts
  <1> DEFINE spec == loc.object.spec
             named == {loc.object.secretName, EnvoyName}
             labelled == {n \in Names : Owned(cache[n]) /\ cache[n].role = "application"}
             kept == Kept(spec)
             n1 == named \ kept
             f1 == labelled \ (named \union kept)
             stage == IF n1 \union f1 = {} THEN "record" ELSE "deleteStale"
  <1>2. pc = "listStale" /\ loc \in Work /\ loc.object \in Object
    BY <1>1 DEF ListStale, StageRight, Good, WorkerOK
  <1>3. /\ pc' = stage /\ loc' = [loc EXCEPT !.named = n1, !.found = f1] /\ fresh' = fresh
        /\ UNCHANGED <<secretVars, objectVars, omits, edits, faults, outside>>
    BY DEF ListStale, AfterDeletion, Continue
  <1>4. n1 \in SUBSET Names /\ f1 \in SUBSET Names
    BY <1>2, NamesAssumption DEF Object, Kept
  <1>5. (n1 \union f1) \intersect DesiredNames(spec) = {}
    BY DEF Kept
  <1> HIDE DEF n1, f1
  <1>6. /\ loc' \in Work /\ loc'.object = loc.object /\ loc'.application = loc.application
        /\ loc'.named = n1 /\ loc'.found = f1 /\ loc'.sound = loc.sound
    BY <1>2, <1>3, <1>4 DEF Work
  <1>7. pc' \in {"record", "deleteStale"}
    BY <1>3
  <1>8. Good'
    <2>1. SecretsInv'
      BY <1>1, <1>3, SecretsUnchanged DEF Good
    <2>2. WorkerOK'
      BY <1>1, <1>3, <1>6, <1>7 DEF Good, WorkerOK, Stages
    <2> QED BY <1>1, <1>3, <2>1, <2>2 DEF Good, ObjectsOK, BoundsOK, objectVars
  <1>9. StageRight'
    BY <1>2, <1>5, <1>6, <1>7 DEF StageRight
  <1>10. EntriesWritten'
    BY <1>1, <1>2, <1>3, <1>6, AfterWrites DEF secretVars
  <1> QED BY <1>8, <1>9, <1>10, SyncInvInParts

\* What is deleted is a candidate, which is not what the object names.
LEMMA DeleteStaleStep ==
  ASSUME SyncInv, NEW n \in Names, DeleteStale(n)
  PROVE  SyncInv'
  <1>1. Good /\ StageRight /\ EntriesWritten
    BY SyncInvInParts
  <1> DEFINE spec == loc.object.spec
             n1 == loc.named \ {n}
             f1 == loc.found \ {n}
             stage == IF n1 \union f1 = {} THEN "record" ELSE "deleteStale"
             Rest == pc' = stage /\ loc' = [loc EXCEPT !.named = n1, !.found = f1] /\ UNCHANGED fresh
  <1>2. /\ pc = "deleteStale" /\ loc \in Work /\ loc.object \in Object /\ spec \in AppSpec
        /\ n \in loc.named \union loc.found
        /\ (loc.named \union loc.found) \intersect DesiredNames(spec) = {}
    BY <1>1, AppSpecsAssumption DEF DeleteStale, StageRight, Object, Good, WorkerOK
  <1>3. UNCHANGED <<objectVars, omits, edits, outside>>
    BY DEF DeleteStale
  <1>4. \/ Rest /\ UNCHANGED <<secretVars, faults>>
        \/ StoreSecret(n, None) /\ ((Rest /\ UNCHANGED faults) \/ (Return /\ Fault))
        \/ Return /\ UNCHANGED <<secretVars, faults>>
    BY DEF DeleteStale, AfterDeletion, Continue
  <1>5. SecretsInv' /\ (store' = store \/ store' = [store EXCEPT ![n] = None])
    <2>1. CASE UNCHANGED secretVars
      BY <1>1, <2>1, SecretsUnchanged DEF Good, secretVars
    <2>2. CASE StoreSecret(n, None)
      <3>1. None \in Stored
        BY DEF Stored
      <3> QED BY <1>1, <2>2, <3>1, StoreEffect DEF Good, SecretsInv
    <2> QED BY <1>4, <2>1, <2>2
  <1>6. ObjectsOK' /\ BoundsOK' /\ omits' \in BOOLEAN
    BY <1>1, <1>3, <1>4, FaultBounded DEF Good, ObjectsOK, objectVars
  <1>7. CASE Return
    BY <1>5, <1>6, <1>7, ReturnEffect, SyncInvInParts DEF Good
  <1>8. CASE Rest
    <2>1. n1 \in SUBSET Names /\ f1 \in SUBSET Names
      BY <1>2 DEF Work
    <2>2. (n1 \union f1) \intersect DesiredNames(spec) = {}
      BY <1>2
    <2>3. pc' \in {"record", "deleteStale"} /\ fresh' = fresh
          /\ loc' = [loc EXCEPT !.named = n1, !.found = f1]
      BY <1>8
    <2> HIDE DEF n1, f1
    <2>4. /\ loc' \in Work /\ loc'.object = loc.object /\ loc'.application = loc.application
          /\ loc'.named = n1 /\ loc'.found = f1 /\ loc'.sound = loc.sound
      BY <1>2, <2>1, <2>3 DEF Work
    <2>5. WorkerOK'
      BY <1>1, <2>3, <2>4 DEF Good, WorkerOK, Stages
    <2>6. StageRight'
      BY <1>2, <2>2, <2>3, <2>4 DEF StageRight
    <2>7. Templated(spec) => spec.name \in DesiredNames(spec) /\ spec.name \in Names
      BY <1>2, NamesAssumption DEF DesiredNames, ApplicationName, AppSpec
    <2>8. Templated(spec) => store'[spec.name] = store[spec.name]
      BY <1>1, <1>2, <1>5, <2>7 DEF Good, SecretsInv, SecretsOK
    <2>9. EntriesWritten'
      BY <1>1, <1>2, <1>3, <2>4, <2>8, AfterWrites
    <2> QED BY <1>5, <1>6, <2>5, <2>6, <2>9, SyncInvInParts DEF Good
  <1> QED BY <1>4, <1>7, <1>8

\* What ends a reconcile leaves the Secrets alone, but for the restart of the
\* process, after which the cache is read anew.
LEMMA EndingStep ==
  ASSUME SyncInv, Record \/ Fails \/ Crash
  PROVE  SyncInv'
  <1>1. Good /\ Return /\ outside' = outside /\ edits' = edits /\ omits' = omits
    BY SyncInvInParts DEF Record, Fails, Crash
  <1>2. BoundsOK'
    BY <1>1, FaultBounded DEF Good, Record, Fails, Crash
  <1>3. ObjectsOK'
    <2>1. CASE Record
      <3> DEFINE recorded == [object EXCEPT !.secretName = ApplicationName(loc.object.spec)]
      <3>1. pc # "idle"
        BY <2>1 DEF Record
      <3>2. loc.object \in Object
        BY <3>1, SyncInvInParts DEF StageRight
      <3>3. ApplicationName(loc.object.spec) \in Names \union {None}
        BY <3>2, AppSpecsAssumption DEF Object, AppSpec, ApplicationName
      <3>4. recorded \in Object
        BY <1>1, <3>3 DEF Good, ObjectsOK, Object
      <3>5. object' \in {object, recorded} /\ seen' = seen
        BY <2>1 DEF Record
      <3>6. seenFresh' \in BOOLEAN
        <4>1. CASE fresh
          <5>1. seenFresh' = (seenFresh /\ recorded = object)
            BY <2>1, <4>1 DEF Record
          <5> HIDE DEF recorded
          <5> QED BY <1>1, <5>1 DEF Good, ObjectsOK
        <4>2. CASE ~fresh
          BY <1>1, <2>1, <4>2 DEF Record, Good, ObjectsOK
        <4> QED BY <4>1, <4>2
      <3> QED BY <1>1, <3>4, <3>5, <3>6 DEF Good, ObjectsOK
    <2>2. CASE Fails
      BY <1>1, <2>2 DEF Fails, Good, ObjectsOK, objectVars
    <2>3. CASE Crash
      BY <1>1, <2>3 DEF Crash, Good, ObjectsOK
    <2> QED BY <2>1, <2>2, <2>3
  <1>4. SecretsInv'
    <2>1. CASE Record \/ Fails
      BY <1>1, <2>1, SecretsUnchanged DEF Good, Record, Fails
    <2>2. CASE Crash
      BY <1>1, <2>2 DEF Crash, Good, SecretsInv, SecretsOK, CacheCatchesUp
    <2> QED BY <2>1, <2>2
  <1> QED BY <1>1, <1>2, <1>3, <1>4, ReturnEffect, SyncInvInParts DEF Good

\* What the running reconcile does not notice.
LEMMA WorkerUnchanged ==
  ASSUME StageRight, EntriesWritten, UNCHANGED <<pc, loc>>,
         outside' # 0 \/ (outside' = outside /\ store' = store)
  PROVE  StageRight' /\ EntriesWritten'
  BY DEF StageRight, EntriesWritten, InHand

\* Users, Authentik and the watches do not touch the running reconcile; what
\* they do to the Secrets shows in the cache in the end.
LEMMA SurroundingsStep ==
  ASSUME SyncInv,
         EditSpec \/ AuthentikChanges \/ WatchObject \/ WatchSecrets \/ \E n \in Names : Others(n)
  PROVE  SyncInv'
  <1>1. Good /\ StageRight /\ EntriesWritten
    BY SyncInvInParts
  <1>2. CASE EditSpec
    <2>1. object' \in Object
      BY <1>1, <1>2 DEF EditSpec, Good, ObjectsOK, Object
    <2>2. SecretsInv'
      BY <1>1, <1>2, SecretsUnchanged DEF Good, EditSpec
    <2>3. BoundsOK'
      BY <1>1, <1>2, BoundsAssumption DEF Good, EditSpec, BoundsOK
    <2>4. ObjectsOK' /\ WorkerOK' /\ omits' \in BOOLEAN
      BY <1>1, <1>2, <2>1 DEF Good, EditSpec, ObjectsOK, WorkerOK
    <2>5. StageRight' /\ EntriesWritten'
      BY <1>1, <1>2, WorkerUnchanged DEF EditSpec, secretVars
    <2> QED BY <2>2, <2>3, <2>4, <2>5, SyncInvInParts DEF Good
  <1>3. CASE AuthentikChanges
    <2>1. SecretsInv'
      BY <1>1, <1>3, SecretsUnchanged DEF Good, AuthentikChanges
    <2>2. BoundsOK'
      BY <1>1, <1>3, BoundsAssumption DEF Good, AuthentikChanges, BoundsOK
    <2>3. omits' \in BOOLEAN
      BY <1>3, Zenon DEF AuthentikChanges
    <2>4. ObjectsOK' /\ WorkerOK'
      BY <1>1, <1>3 DEF Good, AuthentikChanges, ObjectsOK, WorkerOK, objectVars, workerVars
    <2>5. StageRight' /\ EntriesWritten'
      BY <1>1, <1>3, WorkerUnchanged DEF AuthentikChanges, secretVars, workerVars
    <2> QED BY <2>1, <2>2, <2>3, <2>4, <2>5, SyncInvInParts DEF Good
  <1>4. CASE WatchObject
    <2>1. SecretsInv'
      BY <1>1, <1>4, SecretsUnchanged DEF Good, WatchObject
    <2>2. ObjectsOK' /\ WorkerOK' /\ BoundsOK' /\ omits' \in BOOLEAN
      BY <1>1, <1>4 DEF Good, WatchObject, ObjectsOK, WorkerOK, BoundsOK, workerVars
    <2>3. StageRight' /\ EntriesWritten'
      BY <1>1, <1>4, WorkerUnchanged DEF WatchObject, secretVars, workerVars
    <2> QED BY <2>1, <2>2, <2>3, SyncInvInParts DEF Good
  <1>5. CASE WatchSecrets
    <2>1. SecretsInv'
      BY <1>1, <1>5, DeliveryEffect DEF Good, SecretsInv
    <2>2. ObjectsOK' /\ WorkerOK' /\ BoundsOK' /\ omits' \in BOOLEAN
      BY <1>1, <1>5 DEF Good, WatchSecrets, ObjectsOK, WorkerOK, BoundsOK, objectVars, workerVars
    <2>3. StageRight' /\ EntriesWritten'
      BY <1>1, <1>5, WorkerUnchanged DEF WatchSecrets, workerVars
    <2> QED BY <2>1, <2>2, <2>3, SyncInvInParts DEF Good
  <1>6. ASSUME NEW n \in Names, Others(n) PROVE SyncInv'
    <2>1. SecretsInv'
      <3>1. PICK secret \in Stored : StoreSecret(n, secret)
        <4>1. NoData \in Data
          BY DEF NoData, Data
        <4>2. \A owner \in {"other", "nobody"} :
                [owner |-> owner, role |-> "application", data |-> NoData] \in Stored
          BY <4>1 DEF Stored, Secret, Owners, Roles
        <4>3. store[n] # None => [store[n] EXCEPT !.role = "none"] \in Stored
          <5>1. store[n] \in Stored
            BY <1>1 DEF Good, SecretsInv, SecretsOK
          <5> QED BY <5>1 DEF Stored, Secret, Roles
        <4>4. None \in Stored
          BY DEF Stored
        <4> QED BY <1>6, <4>2, <4>3, <4>4 DEF Others
      <3> QED BY <1>1, <3>1, StoreEffect DEF Good, SecretsInv
    <2>2. ObjectsOK' /\ WorkerOK' /\ omits' \in BOOLEAN
      BY <1>1, <1>6 DEF Good, Others, ObjectsOK, WorkerOK, objectVars, workerVars
    <2>3. BoundsOK' /\ outside' # 0
      BY <1>1, <1>6, BoundsAssumption DEF Good, Others, BoundsOK
    <2>4. StageRight' /\ EntriesWritten'
      BY <1>1, <1>6, <2>3, WorkerUnchanged DEF Others, workerVars
    <2> QED BY <2>1, <2>2, <2>3, <2>4, SyncInvInParts DEF Good
  <1> QED BY <1>2, <1>3, <1>4, <1>5, <1>6

\* Whatever happens next.
LEMMA SyncStep == SyncInv /\ [Next]_vars => SyncInv'
  <1> SUFFICES ASSUME SyncInv, [Next]_vars PROVE SyncInv'
    OBVIOUS
  <1>1. CASE Reconcile
    BY <1>1, PrepareStep, WriteApplicationStep, WriteEnvoyStep, ListStaleStep, DeleteStaleStep,
       EndingStep DEF Reconcile
  <1>2. CASE Fails \/ Crash
    BY <1>2, EndingStep
  <1>3. CASE EditSpec \/ AuthentikChanges \/ WatchObject \/ WatchSecrets \/ \E n \in Names : Others(n)
    BY <1>3, SurroundingsStep
  <1>4. CASE UNCHANGED vars
    <2>1. Good /\ StageRight /\ EntriesWritten
      BY SyncInvInParts
    <2>2. SecretsInv'
      BY <1>4, <2>1, SecretsUnchanged DEF Good, vars
    <2>3. ObjectsOK' /\ WorkerOK' /\ BoundsOK' /\ omits' \in BOOLEAN
      BY <1>4, <2>1 DEF vars, objectVars, workerVars, Good, ObjectsOK, WorkerOK, BoundsOK
    <2>4. StageRight' /\ EntriesWritten'
      BY <1>4, <2>1, WorkerUnchanged DEF vars, secretVars, workerVars
    <2> QED BY <2>2, <2>3, <2>4, SyncInvInParts DEF Good
  <1> QED BY <1>1, <1>2, <1>3, <1>4 DEF Next

\* The cache catches up, a reconcile deletes nothing it is asked for, and what
\* it had in hand and wrote from a current copy is there, in every state.
THEOREM EntriesReachTheirSecret == Spec => []SyncInv
  BY InitSyncInv, SyncStep, PTL DEF Spec

\* Every variable keeps its type, however many Secrets, keys and specs there are.
THEOREM SecretTypes == Spec => []TypeOK
  <1>1. SyncInv => TypeOK
    BY DEF SyncInv
  <1> QED BY <1>1, EntriesReachTheirSecret, PTL

-----------------------------------------------------------------------------
(* Secrets of others. *)

\* A change the API server accepts was made with the Secret itself in view.
LEMMA AcceptedIsInView ==
  ASSUME CacheCatchesUp, NEW n \in Names, Accepted(n)
  PROVE  cache[n] = store[n]
  BY DEF Accepted, CacheCatchesUp

\* A write replaces nothing that another resource controls.
LEMMA WriteSparesOthers ==
  ASSUME SyncInv, NEW name \in Names, NEW role \in Roles, NEW data \in Data, NEW next \in Stages,
         WriteSecret(name, role, data, next), NEW n \in Names, store[n] # None
  PROVE  store'[n] # None /\ (store[n].owner = "other" => store'[n] = store[n])
  <1>1. Good /\ CacheCatchesUp /\ store \in [Names -> Stored]
    BY SyncInvInParts DEF Good, SecretsInv, SecretsOK
  <1>2. store' = store
        \/ (/\ store' = [store EXCEPT ![name] = Written(role, data)]
            /\ Controllable(cache[name]) /\ Accepted(name))
    BY <1>1, WriteEffect
  <1>3. Written(role, data) # None
    <2>1. Written(role, data) \in Secret
      BY DEF Written, Secret, Owners
    <2> QED BY <2>1, AbsentAssumption
  <1>4. ASSUME Controllable(cache[name]), Accepted(name), n = name
        PROVE  store[n].owner # "other"
    BY <1>1, <1>4, AcceptedIsInView DEF Controllable
  <1> QED BY <1>1, <1>2, <1>3, <1>4

\* What is deleted is the operator's own.
LEMMA DeletionSparesOthers ==
  ASSUME SyncInv, NEW m \in Names, DeleteStale(m), NEW n \in Names,
         store[n] # None, store[n].owner # "app"
  PROVE  store'[n] = store[n]
  <1>1. SecretsOK /\ CacheCatchesUp
    BY SyncInvInParts DEF Good, SecretsInv
  <1>2. \/ store' = store
        \/ Deletable(m) /\ Accepted(m) /\ StoreSecret(m, None)
    BY DEF DeleteStale, secretVars
  <1>3. CASE Deletable(m) /\ Accepted(m) /\ StoreSecret(m, None)
    <2>1. cache[m] = store[m] /\ Owned(cache[m])
      BY <1>1, <1>3, AcceptedIsInView DEF Deletable
    <2>2. n # m
      BY <2>1 DEF Owned
    <2> QED BY <1>1, <1>3, <2>2 DEF StoreSecret, SecretsOK
  <1> QED BY <1>2, <1>3

\* The operator never deletes a Secret it does not control and never changes one
\* that another resource controls: ownership is checked in the cache, which may
\* be old, but a write from an old copy is refused (oidcapplication_secrets.go).
THEOREM OthersSecretsAreSafe == Spec => ForeignKept
  <1> DEFINE Spared(n) == store[n] # None /\ store[n].owner # "app" =>
                            /\ store'[n] # None
                            /\ store[n].owner = "other" => store'[n] = store[n]
             Step == OperatorActs => \A n \in Names : Spared(n)
  <1>1. SyncInv /\ [Next]_vars => [Step]_vars
    <2> SUFFICES ASSUME SyncInv, Next, OperatorActs, NEW n \in Names,
                        store[n] # None, store[n].owner # "app"
                 PROVE  store'[n] # None /\ (store[n].owner = "other" => store'[n] = store[n])
      OBVIOUS
    <2>1. CASE WriteApplication
      <3> DEFINE next == IF loc.object.spec.routes THEN "writeEnvoy" ELSE "listStale"
      <3>1. loc.object \in Object /\ loc \in Work
        BY <2>1, SyncInvInParts DEF StageRight, WriteApplication, Good, WorkerOK
      <3>2. loc.object.spec.name \in Names
        BY <3>1, AppSpecsAssumption DEF Object, AppSpec
      <3>3. loc.application \in Data /\ "application" \in Roles /\ next \in Stages
        BY <3>1 DEF Work, Roles, Stages
      <3>4. WriteSecret(loc.object.spec.name, "application", loc.application, next)
        BY <2>1 DEF WriteApplication
      <3> HIDE DEF next
      <3> QED BY <3>2, <3>3, <3>4, WriteSparesOthers
    <2>2. CASE WriteEnvoy
      <3>1. loc.envoy \in Data /\ "envoy" \in Roles /\ "listStale" \in Stages /\ EnvoyName \in Names
        BY SyncInvInParts, NamesAssumption DEF Good, WorkerOK, Work, Roles, Stages
      <3>2. WriteSecret(EnvoyName, "envoy", loc.envoy, "listStale")
        BY <2>2 DEF WriteEnvoy
      <3> QED BY <3>1, <3>2, WriteSparesOthers
    <2>3. CASE \E m \in Names : DeleteStale(m)
      BY <2>3, DeletionSparesOthers
    <2>4. CASE \E m \in Names : Others(m)
      <3>1. outside' = outside + 1 /\ outside \in Nat
        BY <2>4, SyncInvInParts, BoundsAssumption DEF Others, Good, BoundsOK
      <3> QED BY <3>1 DEF OperatorActs
    <2>5. CASE Prepare \/ ListStale \/ Record \/ Fails \/ Crash \/ WatchObject \/ WatchSecrets
               \/ EditSpec \/ AuthentikChanges
      BY <2>5 DEF Prepare, ListStale, Record, Fails, Crash, WatchObject, WatchSecrets, EditSpec,
                  AuthentikChanges, secretVars
    <2> QED BY <2>1, <2>2, <2>3, <2>4, <2>5 DEF Next, Reconcile
  <1>2. ForeignKept <=> [][Step]_vars
    BY DEF ForeignKept
  <1> HIDE DEF Step
  <1> QED BY <1>1, <1>2, EntriesReachTheirSecret, PTL DEF Spec

-----------------------------------------------------------------------------
(* Entries made of the client secret. *)

\* A copy with the current resourceVersion is the object as it is.
SeenIsCurrent == seenFresh => seen = object

LEMMA FreshCopies == Spec => []SeenIsCurrent
  <1>1. Init => SeenIsCurrent
    BY DEF Init, SeenIsCurrent
  <1>2. SeenIsCurrent /\ [Next]_vars => SeenIsCurrent'
    <2> SUFFICES ASSUME SeenIsCurrent, [Next]_vars PROVE SeenIsCurrent'
      OBVIOUS
    <2>1. CASE Record
      <3> DEFINE recorded == [object EXCEPT !.secretName = ApplicationName(loc.object.spec)]
      <3>1. /\ \/ object' = recorded /\ seenFresh' = (seenFresh /\ recorded = object)
               \/ UNCHANGED <<object, seenFresh>>
            /\ seen' = seen
        BY <2>1 DEF Record
      <3> HIDE DEF recorded
      <3> QED BY <3>1 DEF SeenIsCurrent
    <2>2. CASE Crash \/ EditSpec \/ WatchObject
      BY <2>2 DEF Crash, EditSpec, WatchObject, SeenIsCurrent
    <2>3. CASE WriteApplication \/ WriteEnvoy \/ \E n \in Names : DeleteStale(n)
      BY <2>3 DEF WriteApplication, WriteEnvoy, WriteSecret, DeleteStale, SeenIsCurrent, objectVars
    <2>4. CASE Prepare \/ ListStale \/ Fails
      BY <2>4 DEF Prepare, ListStale, Fails, SeenIsCurrent, objectVars
    <2>5. CASE AuthentikChanges \/ WatchSecrets \/ (\E n \in Names : Others(n)) \/ UNCHANGED vars
      BY <2>5 DEF AuthentikChanges, WatchSecrets, Others, SeenIsCurrent, objectVars, vars
    <2> QED BY <2>1, <2>2, <2>3, <2>4, <2>5 DEF Next, Reconcile
  <1> QED BY <1>1, <1>2, PTL DEF Spec

\* The entry comes from the Secret of the desired name or, if the application
\* controls none of that name, from the one the status names.
LEMMA EntryIsTaken ==
  ASSUME SyncInv, SeenIsCurrent, InView, NEW k \in Keys, object.spec.template[k] = "secret",
         Has(Source(object), k)
  PROVE  ApplicationData(seen)[k] = "rendered"
  <1> DEFINE desired == Cached(ApplicationName(seen.spec))
             previous == PreviousApplication(seen)
  <1>1. /\ SecretsOK /\ CacheCatchesUp /\ seen = object /\ seen.spec.name \in Names
        /\ seen.secretName \in Names \union {None}
    BY SyncInvInParts, AppSpecsAssumption
       DEF Good, SecretsInv, ObjectsOK, Object, AppSpec, InView, SeenIsCurrent
  <1>2. ApplicationName(seen.spec) = seen.spec.name /\ seen.spec.name # None
    BY <1>1, NamesAssumption DEF Templated, ApplicationName
  <1>3. \A n \in {seen.spec.name, seen.secretName} \ {None} : Cached(n) = store[n]
    BY <1>1, <1>2 DEF InView, CacheCatchesUp, Cached
  <1>4. desired = store[seen.spec.name]
    BY <1>2, <1>3
  <1>5. PreviousData(seen)[k] = "rendered" => ApplicationData(seen)[k] = "rendered"
    <2>1. ASSUME omits PROVE ApplicationData(seen)[k] = PreviousData(seen)[k]
      BY <1>1, <2>1, Zenon DEF ApplicationData
    <2>2. ASSUME ~omits PROVE ApplicationData(seen)[k] = "rendered"
      BY <1>1, <2>2, Zenon DEF ApplicationData
    <2> QED BY <2>1, <2>2
  <1>6. CASE Owned(store[seen.spec.name])
    <2>1. Source(object) = seen.spec.name
      BY <1>1, <1>2, <1>6 DEF Source
    <2>2. PreviousData(seen) = desired.data
      BY <1>4, <1>6, Zenon DEF PreviousData
    <2> HIDE DEF desired
    <2> QED BY <1>4, <1>5, <2>1, <2>2 DEF Has
  <1>7. CASE ~Owned(store[seen.spec.name])
    <2>1. Source(object) = seen.secretName
      BY <1>1, <1>2, <1>7 DEF Source
    <2>2. /\ seen.secretName # None /\ Owned(store[seen.secretName])
          /\ store[seen.secretName].data[k] = "rendered"
      BY <2>1 DEF Has
    <2>3. seen.secretName # seen.spec.name
      BY <1>7, <2>2
    <2>4. Cached(seen.secretName) = store[seen.secretName]
      BY <1>3, <2>2
    <2>5. previous = Cached(seen.secretName)
      <3>1. seen.secretName # ApplicationName(seen.spec)
        BY <1>2, <2>3
      <3>2. Owned(Cached(seen.secretName))
        BY <2>2, <2>4
      <3> QED BY <2>2, <3>1, <3>2, Zenon DEF PreviousApplication
    <2>6. ~Owned(desired) /\ previous # None
      BY <1>4, <1>7, <2>2, <2>4, <2>5 DEF Owned
    <2>7. PreviousData(seen) = previous.data
      BY <2>6, Zenon DEF PreviousData
    <2> HIDE DEF desired, previous
    <2> QED BY <1>5, <2>2, <2>4, <2>5, <2>7
  <1> QED BY <1>6, <1>7

\* An entry made of the client secret is found wherever it is taken over from,
\* whatever was renamed, written, cleaned up or failed before.
THEOREM EntriesAreFound == Spec => []EntryFound
  <1>1. SyncInv /\ SeenIsCurrent => EntryFound
    BY EntryIsTaken DEF EntryFound
  <1> QED BY <1>1, EntriesReachTheirSecret, FreshCopies, PTL

\* An entry in hand is in the Secret it goes to before and after the step, or
\* the step writes it there, or leaves the Secrets as they are.
LEMMA EntryIsDelivered ==
  ASSUME SyncInv, [Next]_vars, NEW k \in Keys, outside' = 0, InHand(k), loc.sound,
         pc = "writeApplication" => Current(loc.object.spec.name), Holds(k)
  PROVE  Holds(k)'
  <1> DEFINE spec == loc.object.spec
             There == Owned(store[spec.name]) /\ store[spec.name].data[k] = "rendered"
  <1>1. Good /\ StageRight /\ EntriesWritten /\ SecretsOK
    BY SyncInvInParts DEF Good, SecretsInv
  <1>2. /\ pc # "idle" /\ loc \in Work /\ loc.object \in Object /\ spec \in AppSpecs
        /\ Templated(spec) /\ spec.name \in Names /\ pc \in Stages
        /\ loc.application[k] = "rendered"
    BY <1>1, AppSpecsAssumption
       DEF InHand, StageRight, Good, WorkerOK, Object, AppSpec, Templated
  <1>3. outside \in Nat
    BY <1>1, BoundsAssumption DEF Good, BoundsOK
  <1>4. CASE store' = store
    BY <1>4 DEF Holds
  <1>5. ASSUME There, outside = 0, store'[spec.name] = store[spec.name] PROVE Holds(k)'
    BY <1>2, <1>5 DEF Holds
  <1>6. CASE WriteApplication
    <2> DEFINE next == IF spec.routes THEN "writeEnvoy" ELSE "listStale"
               written == Written("application", loc.application)
    <2>1. loc.application \in Data /\ "application" \in Roles /\ next \in Stages
      BY <1>2 DEF Work, Roles, Stages
    <2>2. WriteSecret(spec.name, "application", loc.application, next)
      BY <1>6 DEF WriteApplication
    <2>3. store' = store \/ store' = [store EXCEPT ![spec.name] = written]
      <3> HIDE DEF spec, next
      <3> QED BY <1>1, <1>2, <2>1, <2>2, WriteEffect
    <2>4. CASE store' = [store EXCEPT ![spec.name] = written]
      <3>1. store'[spec.name] = written
        BY <1>1, <1>2, <2>4 DEF SecretsOK
      <3>2. written # None
        <4>1. written \in Secret
          BY <2>1 DEF Written, Secret, Owners
        <4> QED BY <4>1, AbsentAssumption
      <3>3. written.owner = "app" /\ written.data[k] = "rendered"
        BY <1>2 DEF Written
      <3> HIDE DEF written
      <3> QED BY <1>2, <3>1, <3>2, <3>3 DEF Holds, Owned
    <2> QED BY <1>4, <2>3, <2>4
  <1>7. CASE WriteEnvoy
    <2>1. pc = "writeEnvoy" /\ spec.routes /\ outside' = outside
      BY <1>1, <1>7 DEF WriteEnvoy, WriteSecret, StageRight
    <2>2. spec.name # EnvoyName
      BY <1>2, <2>1, AppSpecsAssumption
    <2>3. loc.envoy \in Data /\ "envoy" \in Roles /\ "listStale" \in Stages /\ EnvoyName \in Names
      BY <1>2, NamesAssumption DEF Work, Roles, Stages
    <2>4. WriteSecret(EnvoyName, "envoy", loc.envoy, "listStale")
      BY <1>7 DEF WriteEnvoy
    <2>5. store' = store \/ store' = [store EXCEPT ![EnvoyName] = Written("envoy", loc.envoy)]
      BY <1>1, <2>3, <2>4, WriteEffect
    <2>6. store'[spec.name] = store[spec.name]
      BY <1>1, <1>2, <2>2, <2>5 DEF SecretsOK
    <2>7. There
      BY <1>1, <2>1 DEF EntriesWritten
    <2> QED BY <1>5, <2>1, <2>6, <2>7
  <1>8. ASSUME NEW n \in Names, DeleteStale(n) PROVE Holds(k)'
    <2>1. /\ pc = "deleteStale" /\ n \in loc.named \union loc.found /\ outside' = outside
          /\ store' = store \/ StoreSecret(n, None)
      BY <1>8 DEF DeleteStale, secretVars
    <2>2. spec.name \in DesiredNames(spec)
      BY <1>2, NamesAssumption DEF DesiredNames, ApplicationName
    <2>3. spec.name # n
      BY <1>1, <2>1, <2>2 DEF StageRight
    <2>4. store'[spec.name] = store[spec.name]
      BY <1>1, <1>2, <2>1, <2>3 DEF StoreSecret, SecretsOK
    <2>5. There
      BY <1>1, <2>1 DEF EntriesWritten
    <2> QED BY <1>5, <2>1, <2>4, <2>5
  <1>9. CASE \E n \in Names : Others(n)
    BY <1>3, <1>9 DEF Others
  <1>10. CASE Prepare \/ ListStale \/ Record \/ Fails \/ Crash \/ WatchObject \/ WatchSecrets
              \/ EditSpec \/ AuthentikChanges \/ UNCHANGED vars
    BY <1>4, <1>10 DEF Prepare, ListStale, Record, Fails, Crash, WatchObject, WatchSecrets,
                       EditSpec, AuthentikChanges, secretVars, vars
  <1> QED BY <1>6, <1>7, <1>8, <1>9, <1>10 DEF Next, Reconcile

\* An entry made of the client secret is not lost by a reconcile that has it in
\* hand, in whatever order Secrets are written, renamed and cleaned up, and
\* wherever that fails.
THEOREM EntriesSurvive == Spec => EntryKept
  <1> DEFINE Step ==
        \A k \in Keys :
          outside' = 0 /\ InHand(k) /\ loc.sound
          /\ (pc = "writeApplication" => Current(loc.object.spec.name)) /\ Holds(k)
            => Holds(k)'
  <1>1. SyncInv /\ [Next]_vars => [Step]_vars
    BY EntryIsDelivered
  <1>2. EntryKept <=> [][Step]_vars
    BY DEF EntryKept
  <1> HIDE DEF Step
  <1> QED BY <1>1, <1>2, EntriesReachTheirSecret, PTL DEF Spec
=============================================================================
