-------------------------- MODULE ConnectionProofs ---------------------------
(***************************************************************************)
(* Cleanup of an OIDCApplication hits its own provider and nobody else's,   *)
(* for every set of AuthentikProviders, hosts and flows, however many       *)
(* providers others have there, as long as nothing is repointed.            *)
(***************************************************************************)
EXTENDS Connection, AuthentikProvidersProofs

-----------------------------------------------------------------------------
(* Types, in parts. *)

SurroundingsOK ==
  /\ SurroundingsTypeOK
  /\ provider \in [Providers -> Objects(Status)] /\ cached \in [Providers -> Objects(Status)]
  /\ cachedToken \in [Secrets -> Tokens]

ApplicationOK ==
  /\ app \in Application /\ appWork \in ApplicationWork
  /\ appStage \in {"idle", "provision", "ready", "fail", "noSecret", "cleanup", "release"}
  /\ appQueued \in BOOLEAN /\ appTimer \in BOOLEAN /\ appFresh \in BOOLEAN

ServerOK ==
  /\ mine \in [Hosts -> OAuthProvider \union {None}]
  /\ foreign \in [Hosts -> SUBSET Nat] /\ lastPK \in [Hosts -> Nat]

HistoryOK == faults \in 0..MaxFaults /\ repointed \in BOOLEAN /\ unwatched \in BOOLEAN

\* The parts are the type invariant, before a step and after it.
LEMMA TypeOKInParts ==
  /\ TypeOK <=> SurroundingsOK /\ ApplicationOK /\ ServerOK /\ HistoryOK
  /\ TypeOK' <=> SurroundingsOK' /\ ApplicationOK' /\ ServerOK' /\ HistoryOK'
  BY DEF TypeOK, StatusTypeOK, SurroundingsOK, ApplicationOK, ServerOK, HistoryOK, Objects

\* A fault is counted.
LEMMA FaultType ==
  ASSUME faults \in 0..MaxFaults, Fault \/ UNCHANGED faults
  PROVE  faults' \in 0..MaxFaults
  BY MaxFaultsAssumption DEF Fault

\* The other controller publishes a status and changes nothing else of an object.
LEMMA PublishEffect ==
  ASSUME SurroundingsTypeOK, provider \in [Providers -> Objects(Status)], Publish
  PROVE  /\ SurroundingsTypeOK' /\ provider' \in [Providers -> Objects(Status)]
         /\ \A p \in Providers : provider'[p].spec = provider[p].spec
         /\ UNCHANGED <<token, flow, changes>>
  <1>1. PICK p \in Providers : Connect(p) \/ Disconnect(p)
    BY DEF Publish
  <1>2. UNCHANGED <<token, flow, changes>>
    BY <1>1 DEF Connect, Disconnect
  <1>3. \E status \in Status : provider' = [provider EXCEPT ![p].status = status]
    <2>1. CASE Disconnect(p)
      <3> DEFINE old == provider[p].status
      <3>1. old \in Status
        BY DEF Objects
      <3>2. [old EXCEPT !.connected = FALSE] \in Status
        BY <3>1 DEF Status
      <3>3. provider' = [provider EXCEPT ![p].status = [old EXCEPT !.connected = FALSE]]
        BY <2>1 DEF Disconnect
      <3> QED BY <3>2, <3>3
    <2>2. CASE Connect(p)
      <3> DEFINE spec == provider[p].spec
                 uids(slug) == {[host |-> spec.host, slug |-> slug, made |-> n] :
                                  n \in 0..flow[spec.host][slug].made}
      <3>1. spec.host \in Hosts /\ spec.auth \in Slugs /\ spec.inval \in Slugs
        BY DEF Objects, ProviderSpec
      <3>2. \A slug \in Slugs : uids(slug) \subseteq Uid
        BY <3>1 DEF Uid, SurroundingsTypeOK
      <3>3. PICK auth \in uids(spec.auth), inval \in uids(spec.inval) :
              provider' = [provider EXCEPT ![p].status =
                             [connected |-> TRUE, auth |-> auth, inval |-> inval]]
        BY <2>2, Zenon DEF Connect
      <3>4. auth \in Uid /\ inval \in Uid
        BY <3>1, <3>2, <3>3
      <3>5. [connected |-> TRUE, auth |-> auth, inval |-> inval] \in Status
        BY <3>4 DEF Status
      <3> QED BY <3>3, <3>5
    <2> QED BY <1>1, <2>1, <2>2
  <1>4. PICK status \in Status : provider' = [provider EXCEPT ![p].status = status]
    BY <1>3
  <1>5. provider' \in [Providers -> Objects(Status)]
    BY <1>4 DEF Objects
  <1>6. \A q \in Providers : provider'[q].spec = provider[q].spec
    BY <1>4 DEF Objects
  <1> QED BY <1>2, <1>5, <1>6 DEF SurroundingsTypeOK

\* What a reconcile reads is a request for the host the cache names.
LEMMA ReadType ==
  ASSUME SurroundingsOK, app \in Application
  PROVE  Read \in Job /\ Read.host = cached[app.ref].spec.host
  <1>1. app.ref \in Providers
    BY DEF Application
  <1>2. cached[app.ref] \in Objects(Status)
    BY <1>1 DEF SurroundingsOK
  <1>3. /\ cached[app.ref].spec \in ProviderSpec
        /\ cached[app.ref].status \in Status
    BY <1>2 DEF Objects
  <1>4. cachedToken[cached[app.ref].spec.secret] \in Tokens
    BY <1>3 DEF SurroundingsOK, ProviderSpec
  <1> QED BY <1>3, <1>4 DEF Read, Job, ProviderSpec, Status

-----------------------------------------------------------------------------
(* Everything around the reconcile keeps the invariant. *)

\* Administrators, and Authentik when a flow goes.
LEMMA ChangeKeeps ==
  ASSUME CleanupInv, ChangeSurroundings
  PROVE  CleanupInv'
  <1>0. SurroundingsOK /\ ApplicationOK /\ ServerOK /\ HistoryOK
    BY TypeOKInParts DEF CleanupInv
  <1>1. /\ UNCHANGED <<cacheVars, applicationVars, foreign, lastPK, faults>>
        /\ Administrate(NewStatus)
    BY DEF ChangeSurroundings
  <1>u. UNCHANGED <<cached, cachedToken, app, appQueued, appTimer, appStage, appWork, appFresh,
                    foreign, lastPK, faults>>
    BY <1>1 DEF cacheVars, applicationVars
  <1>2. NewStatus \in Status
    BY DEF NewStatus, Status
  <1>3. SurroundingsTypeOK' /\ provider' \in [Providers -> Objects(Status)]
    BY <1>0, <1>1, <1>2, AdministrateEffect DEF SurroundingsOK
  <1>4. /\ mine' \in [Hosts -> OAuthProvider \union {None}]
        /\ \A h \in Hosts : mine'[h] = mine[h] \/ mine'[h] = None
    <2>1. UNCHANGED mine \/ \E h \in Hosts : mine' = [mine EXCEPT ![h] = None]
      BY DEF ChangeSurroundings, FlowDeleted
    <2> QED BY <1>0, <2>1 DEF ServerOK
  <1>5. /\ repointed' \in BOOLEAN /\ unwatched' \in BOOLEAN
        /\ ~repointed' => /\ ~repointed
                          /\ \A p \in Providers : provider'[p].spec.host = provider[p].spec.host
    <2>1. repointed \in BOOLEAN /\ unwatched \in BOOLEAN
      BY <1>0 DEF HistoryOK
    <2> QED BY <2>1, Zenon DEF ChangeSurroundings
  <1>6. TypeOK'
    BY <1>0, <1>u, <1>3, <1>4, <1>5, TypeOKInParts
       DEF SurroundingsOK, ApplicationOK, ServerOK, HistoryOK
  <1>7. PKsApart'
    BY <1>u, <1>4 DEF CleanupInv, PKsApart
  <1>8. app.ref \in Providers
    BY <1>0 DEF ApplicationOK, Application
  <1>9. OneHost'
    BY <1>u, <1>5, <1>8 DEF CleanupInv, OneHost
  <1>10. ReleasedClean'
    BY <1>u, <1>4, <1>5 DEF CleanupInv, ReleasedClean, PKsApart
  <1> QED BY <1>6, <1>7, <1>9, <1>10 DEF CleanupInv

\* The other controller.
LEMMA ReconcileProvidersKeeps ==
  ASSUME CleanupInv, ReconcileProviders
  PROVE  CleanupInv'
  <1>0. SurroundingsOK /\ ApplicationOK /\ ServerOK /\ HistoryOK
    BY TypeOKInParts DEF CleanupInv
  <1>u. UNCHANGED <<cached, cachedToken, app, appQueued, appTimer, appStage, appWork, appFresh,
                    mine, foreign, lastPK, faults, repointed, unwatched>>
    BY DEF ReconcileProviders, cacheVars, applicationVars, serverVars, historyVars
  <1>1. /\ SurroundingsTypeOK' /\ provider' \in [Providers -> Objects(Status)]
        /\ \A p \in Providers : provider'[p].spec = provider[p].spec
    BY <1>0, PublishEffect DEF ReconcileProviders, SurroundingsOK
  <1>2. TypeOK'
    BY <1>0, <1>u, <1>1, TypeOKInParts
       DEF SurroundingsOK, ApplicationOK, ServerOK, HistoryOK
  <1>3. app.ref \in Providers
    BY <1>0 DEF ApplicationOK, Application
  <1>4. PKsApart' /\ ReleasedClean'
    BY <1>u DEF CleanupInv, PKsApart, ReleasedClean
  <1>5. OneHost'
    BY <1>u, <1>1, <1>3 DEF CleanupInv, OneHost
  <1> QED BY <1>2, <1>4, <1>5 DEF CleanupInv

\* The user: pk and host of the status stay, and another reference is remembered.
LEMMA UserKeeps ==
  ASSUME CleanupInv, ChangeProviderRef \/ DeleteApplication
  PROVE  CleanupInv'
  <1>0. SurroundingsOK /\ ApplicationOK /\ ServerOK /\ HistoryOK
    BY TypeOKInParts DEF CleanupInv
  <1>1. PICK object : UserWrites(object)
    BY DEF ChangeProviderRef, DeleteApplication
  <1>u. UNCHANGED <<provider, token, flow, cached, cachedToken, appTimer, appStage, appWork,
                    mine, foreign, lastPK, faults>>
    BY <1>1 DEF UserWrites, cacheVars, serverVars
  <1>2. changes' \in 0..MaxChanges
    BY <1>0, <1>1, MaxChangesAssumption DEF UserWrites, Change, SurroundingsOK, SurroundingsTypeOK
  <1>3. appQueued' \in BOOLEAN /\ appFresh' \in BOOLEAN
    <2>1. appQueued \in BOOLEAN
      BY <1>0 DEF ApplicationOK
    <2> QED BY <1>1, <2>1, Zenon DEF UserWrites, WriteApplication
  <1>4. /\ app' \in Application /\ app'.pk = app.pk /\ app'.at = app.at
        /\ repointed' \in BOOLEAN /\ unwatched' \in BOOLEAN
        /\ ~repointed' => /\ ~repointed
                          /\ app'.ref = app.ref \/ (app.pk = 0 /\ appStage = "idle")
    <2>1. CASE ChangeProviderRef
      <3>1. PICK p \in Providers \ {app.ref} : app' = [app EXCEPT !.ref = p]
        BY <2>1 DEF ChangeProviderRef, UserWrites, WriteApplication
      <3>2. app' \in Application /\ app'.pk = app.pk /\ app'.at = app.at
        BY <1>0, <3>1 DEF ApplicationOK, Application
      <3>3. repointed \in BOOLEAN /\ unwatched \in BOOLEAN
        BY <1>0 DEF HistoryOK
      <3>4. /\ repointed' \in BOOLEAN /\ unwatched' \in BOOLEAN
            /\ ~repointed' => ~repointed /\ app.pk = 0 /\ appStage = "idle"
        BY <2>1, <3>3, Zenon DEF ChangeProviderRef
      <3> QED BY <3>2, <3>4
    <2>2. CASE DeleteApplication
      <3>1. app' = [app EXCEPT !.phase = "deleting"] /\ UNCHANGED <<repointed, unwatched>>
        BY <2>2 DEF DeleteApplication, UserWrites, WriteApplication, historyVars
      <3>2. app' \in Application /\ app'.pk = app.pk /\ app'.at = app.at /\ app'.ref = app.ref
        BY <1>0, <3>1 DEF ApplicationOK, Application
      <3>3. repointed \in BOOLEAN /\ unwatched \in BOOLEAN
        BY <1>0 DEF HistoryOK
      <3> QED BY <3>1, <3>2, <3>3
    <2> QED BY <2>1, <2>2
  <1>5. TypeOK'
    BY <1>0, <1>u, <1>2, <1>3, <1>4, TypeOKInParts
       DEF SurroundingsOK, SurroundingsTypeOK, ApplicationOK, ServerOK, HistoryOK
  <1>6. PKsApart' /\ ReleasedClean'
    BY <1>u, <1>4 DEF CleanupInv, PKsApart, ReleasedClean
  <1>7. OneHost'
    BY <1>u, <1>4 DEF CleanupInv, OneHost
  <1> QED BY <1>5, <1>6, <1>7 DEF CleanupInv

\* The watches and the timer.
LEMMA WatchesKeep ==
  ASSUME CleanupInv,
         \/ \E p \in Providers : WatchProvider(p)
         \/ \E s \in Secrets : WatchSecret(s)
         \/ Resync
  PROVE  CleanupInv'
  <1>0. SurroundingsOK /\ ApplicationOK /\ ServerOK /\ HistoryOK
    BY TypeOKInParts DEF CleanupInv
  <1>u. UNCHANGED <<provider, token, flow, changes, app, appStage, appWork, appFresh,
                    mine, foreign, lastPK, faults, repointed, unwatched>>
    BY DEF WatchProvider, WatchSecret, Resync, surroundings, applicationVars, serverVars,
           historyVars
  <1>1. cached' \in [Providers -> Objects(Status)] /\ cachedToken' \in [Secrets -> Tokens]
    BY <1>0 DEF SurroundingsOK, SurroundingsTypeOK, WatchProvider, WatchSecret, Resync, cacheVars
  <1>2. \A p \in Providers : cached'[p] \in {cached[p], provider[p]}
    BY <1>0 DEF SurroundingsOK, WatchProvider, WatchSecret, Resync, cacheVars
  <1>3. appQueued' \in BOOLEAN /\ appTimer' \in BOOLEAN
    <2>1. appQueued \in BOOLEAN /\ appTimer \in BOOLEAN
      BY <1>0 DEF ApplicationOK
    <2> QED BY <2>1, Zenon DEF WatchProvider, WatchSecret, Resync, applicationVars
  <1>4. TypeOK'
    BY <1>0, <1>u, <1>1, <1>3, TypeOKInParts
       DEF SurroundingsOK, SurroundingsTypeOK, ApplicationOK, ServerOK, HistoryOK
  <1>5. PKsApart' /\ ReleasedClean'
    BY <1>u DEF CleanupInv, PKsApart, ReleasedClean
  <1>6. OneHost'
    BY <1>u, <1>2 DEF CleanupInv, OneHost
  <1> QED BY <1>4, <1>5, <1>6 DEF CleanupInv

-----------------------------------------------------------------------------
(* The reconcile keeps it. *)

\* What a reconcile leaves in the status is a pk of the host it was for.
Recorded(object) ==
  /\ object \in Application /\ object.ref = app.ref
  /\ object.pk # 0 => /\ object.at \in Hosts /\ object.pk > Foreign[object.at]
                      /\ ~repointed => object.at = provider[app.ref].spec.host

\* What is recorded already is such a pk.
LEMMA StillRecorded ==
  ASSUME CleanupInv
  PROVE  /\ Recorded(app) /\ Recorded([app EXCEPT !.ready = FALSE])
         /\ Recorded([app EXCEPT !.phase = "gone"])
  <1>1. app \in Application
    BY DEF CleanupInv, TypeOK
  <1>2. Recorded(app)
    BY <1>1 DEF CleanupInv, PKsApart, OneHost, Recorded
  <1>3. ASSUME NEW object \in Application,
               object.ref = app.ref, object.pk = app.pk, object.at = app.at
        PROVE  Recorded(object)
    BY <1>2, <1>3 DEF Recorded
  <1>4. /\ [app EXCEPT !.ready = FALSE] \in Application
        /\ [app EXCEPT !.phase = "gone"] \in Application
    BY <1>1 DEF Application
  <1>5. /\ [app EXCEPT !.ready = FALSE].ref = app.ref /\ [app EXCEPT !.phase = "gone"].ref = app.ref
        /\ [app EXCEPT !.ready = FALSE].pk = app.pk /\ [app EXCEPT !.phase = "gone"].pk = app.pk
        /\ [app EXCEPT !.ready = FALSE].at = app.at /\ [app EXCEPT !.phase = "gone"].at = app.at
    BY <1>1 DEF Application
  <1> HIDE DEF Recorded
  <1> QED BY <1>2, <1>3, <1>4, <1>5

\* A reconcile that is over leaves nothing in hand.
LEMMA ReturnKeeps ==
  ASSUME CleanupInv, Return, UNCHANGED <<surroundings, serverVars, historyVars>>,
         cached' \in [Providers -> Objects(Status)], cachedToken' \in [Secrets -> Tokens],
         \A p \in Providers : cached'[p] \in {cached[p], provider[p]},
         Recorded(app'), appQueued' \in BOOLEAN, appTimer' \in BOOLEAN,
         Fault \/ UNCHANGED faults
  PROVE  CleanupInv'
  <1>0. SurroundingsOK /\ ApplicationOK /\ ServerOK /\ HistoryOK
    BY TypeOKInParts DEF CleanupInv
  <1>u. UNCHANGED <<provider, token, flow, changes, mine, foreign, lastPK, repointed, unwatched>>
    BY DEF surroundings, serverVars, historyVars
  <1>1. /\ appStage' = "idle" /\ appWork' \in ApplicationWork /\ appFresh' \in BOOLEAN
        /\ app' \in Application
    BY DEF Return, ApplicationWork, Recorded
  <1>2. faults' \in 0..MaxFaults
    BY <1>0, FaultType DEF HistoryOK
  <1>3. SurroundingsOK' /\ ServerOK' /\ HistoryOK'
    BY <1>0, <1>u, <1>2 DEF SurroundingsOK, SurroundingsTypeOK, ServerOK, HistoryOK
  <1>4. ApplicationOK'
    BY <1>1 DEF ApplicationOK
  <1>5. PKsApart' /\ OneHost' /\ ReleasedClean'
    BY <1>u, <1>1 DEF CleanupInv, PKsApart, OneHost, ReleasedClean, Recorded
  <1> QED BY <1>3, <1>4, <1>5, TypeOKInParts DEF CleanupInv

\* A reconcile that goes on has a request for the host of the reference.
LEMMA ProceedKeeps ==
  ASSUME CleanupInv, UNCHANGED <<surroundings, cacheVars, app, appTimer, repointed>>,
         appStage' \in {"provision", "ready", "fail", "noSecret", "cleanup", "release"},
         appWork' \in Job, appQueued' \in BOOLEAN, appFresh' \in BOOLEAN, unwatched' \in BOOLEAN,
         ~repointed => appWork'.host = provider[app.ref].spec.host,
         appStage' = "ready" => appWork'.pk > Foreign[appWork'.host],
         ServerOK', \A h \in Hosts : foreign'[h] \subseteq foreign[h] /\ lastPK'[h] >= Foreign[h],
         \A h \in Hosts : mine'[h] # None => mine'[h].pk > Foreign[h],
         ReleasedClean', Fault \/ UNCHANGED faults
  PROVE  CleanupInv'
  <1>0. SurroundingsOK /\ ApplicationOK /\ ServerOK /\ HistoryOK
    BY TypeOKInParts DEF CleanupInv
  <1>u. UNCHANGED <<provider, token, flow, changes, cached, cachedToken>>
    BY DEF surroundings, cacheVars
  <1>1. faults' \in 0..MaxFaults
    BY <1>0, FaultType DEF HistoryOK
  <1>2. SurroundingsOK' /\ HistoryOK'
    BY <1>0, <1>u, <1>1 DEF SurroundingsOK, SurroundingsTypeOK, HistoryOK
  <1>3. ApplicationOK'
    BY <1>0 DEF ApplicationOK, ApplicationWork
  <1>4. PKsApart'
    BY DEF CleanupInv, PKsApart
  <1>5. OneHost'
    BY <1>u DEF CleanupInv, OneHost
  <1> QED BY <1>2, <1>3, <1>4, <1>5, TypeOKInParts DEF CleanupInv

\* A request is made of what the cache holds; nothing recorded, nothing to clean up.
LEMMA StartKeeps ==
  ASSUME CleanupInv, StartApplication
  PROVE  CleanupInv'
  <1>0. SurroundingsOK /\ ApplicationOK /\ ServerOK /\ HistoryOK
    BY TypeOKInParts DEF CleanupInv
  <1>1. UNCHANGED <<surroundings, cacheVars, app, appTimer, serverVars, faults, historyVars>>
    BY DEF StartApplication
  <1>2. \/ Return /\ (appQueued' = FALSE \/ UNCHANGED appQueued)
        \/ /\ appStage' \in {"provision", "fail", "noSecret", "cleanup", "release"}
           /\ appWork' = Read /\ appFresh' = TRUE /\ appQueued' = FALSE
           /\ appStage' = "release" => app.pk = 0
    <2>1. CASE app.phase = "gone"
      BY <2>1 DEF StartApplication
    <2>2. CASE app.phase = "deleting"
      <3>1. Begin(CleanupStage)
        BY <2>2 DEF StartApplication
      <3>2. CleanupStage \in {"error", "cleanup"} \/ (CleanupStage = "release" /\ app.pk = 0)
        <4>1. CASE app.pk = 0
          BY <4>1 DEF CleanupStage
        <4>2. ASSUME app.pk # 0, CredentialsMissing PROVE CleanupStage = "error"
          BY <4>2, Zenon DEF CleanupStage
        <4>3. ASSUME app.pk # 0, ~CredentialsMissing PROVE CleanupStage = "cleanup"
          BY <4>3, Zenon DEF CleanupStage
        <4>4. app.pk # 0 => CleanupStage = "error" \/ CleanupStage = "cleanup"
          BY <4>2, <4>3, Zenon
        <4> QED BY <4>1, <4>4
      <3> QED BY <3>1, <3>2 DEF Begin
    <2>3. CASE app.phase = "live"
      <3>1. Begin(LiveStage)
        BY <2>3 DEF StartApplication
      <3>2. LiveStage \in {"fail", "noSecret", "provision"}
        BY DEF LiveStage
      <3> QED BY <3>1, <3>2 DEF Begin
    <2> QED BY <1>0, <2>1, <2>2, <2>3 DEF ApplicationOK, Application
  <1>3. CASE Return /\ (appQueued' = FALSE \/ UNCHANGED appQueued)
    <2>1. Recorded(app')
      BY <1>1, StillRecorded
    <2>2. appQueued' \in BOOLEAN /\ appTimer' \in BOOLEAN
      BY <1>0, <1>1, <1>3 DEF ApplicationOK
    <2>3. cached' \in [Providers -> Objects(Status)] /\ cachedToken' \in [Secrets -> Tokens]
      BY <1>0, <1>1 DEF SurroundingsOK, cacheVars
    <2>4. \A p \in Providers : cached'[p] \in {cached[p], provider[p]}
      BY <1>1 DEF cacheVars
    <2> QED BY <1>1, <1>3, <2>1, <2>2, <2>3, <2>4, ReturnKeeps
  <1>4. CASE ~(Return /\ (appQueued' = FALSE \/ UNCHANGED appQueued))
    <2>1. /\ appStage' \in {"provision", "fail", "noSecret", "cleanup", "release"}
          /\ appWork' = Read /\ appFresh' = TRUE /\ appQueued' = FALSE
          /\ appStage' = "release" => app.pk = 0
      BY <1>2, <1>4
    <2>2. Read \in Job /\ Read.host = cached[app.ref].spec.host
      BY <1>0, ReadType DEF ApplicationOK
    <2>3. app.ref \in Providers
      BY <1>0 DEF ApplicationOK, Application
    <2>4. ~repointed => appWork'.host = provider[app.ref].spec.host
      BY <2>1, <2>2, <2>3 DEF CleanupInv, OneHost
    <2>5. UNCHANGED <<mine, foreign, lastPK, repointed, unwatched>>
      BY <1>1 DEF serverVars, historyVars
    <2>6. ServerOK' /\ unwatched' \in BOOLEAN
      BY <1>0, <2>5 DEF ServerOK, HistoryOK
    <2>7. /\ \A h \in Hosts : foreign'[h] \subseteq foreign[h] /\ lastPK'[h] >= Foreign[h]
          /\ \A h \in Hosts : mine'[h] # None => mine'[h].pk > Foreign[h]
      BY <2>5 DEF CleanupInv, PKsApart
    <2>8. ReleasedClean'
      BY <1>1, <2>1 DEF ReleasedClean
    <2> QED BY <1>1, <2>1, <2>2, <2>4, <2>5, <2>6, <2>7, <2>8, ProceedKeeps
  <1> QED BY <1>3, <1>4

\* A refused token or an outage is put on record.
LEMMA PreflightKeeps ==
  ASSUME CleanupInv, PreflightFails
  PROVE  CleanupInv'
  <1>0. SurroundingsOK /\ ApplicationOK /\ ServerOK /\ HistoryOK
    BY TypeOKInParts DEF CleanupInv
  <1>1. /\ UNCHANGED <<surroundings, cacheVars, app, appTimer, repointed>>
        /\ UNCHANGED <<mine, foreign, lastPK, appWork, appQueued, appFresh>>
        /\ appStage = "provision" /\ appStage' = "fail"
        /\ Fault \/ UNCHANGED faults
    BY DEF PreflightFails, Proceed, serverVars
  <1>2. unwatched' \in BOOLEAN
    <2>1. unwatched \in BOOLEAN
      BY <1>0 DEF HistoryOK
    <2> QED BY <2>1, Zenon DEF PreflightFails
  <1>3. appWork' \in Job /\ (~repointed => appWork'.host = provider[app.ref].spec.host)
    BY <1>1 DEF CleanupInv, OneHost
  <1>4. ServerOK' /\ appQueued' \in BOOLEAN /\ appFresh' \in BOOLEAN
    BY <1>0, <1>1 DEF ServerOK, ApplicationOK
  <1>5. /\ \A h \in Hosts : foreign'[h] \subseteq foreign[h] /\ lastPK'[h] >= Foreign[h]
        /\ \A h \in Hosts : mine'[h] # None => mine'[h].pk > Foreign[h]
    BY <1>1 DEF CleanupInv, PKsApart
  <1>6. ReleasedClean'
    BY <1>1 DEF ReleasedClean
  <1> QED BY <1>1, <1>2, <1>3, <1>4, <1>5, <1>6, ProceedKeeps

\* A provider that is made gets a pk that nobody has.
LEMMA ProvisionKeeps ==
  ASSUME CleanupInv, Provision
  PROVE  CleanupInv'
  <1> DEFINE h == appWork.host
             old == mine[h]
             pk == IF old = None THEN lastPK[h] + 1 ELSE old.pk
             new == [pk |-> pk, auth |-> appWork.auth, inval |-> appWork.inval]
  <1>0. SurroundingsOK /\ ApplicationOK /\ ServerOK /\ HistoryOK
    BY TypeOKInParts DEF CleanupInv
  <1>1. /\ UNCHANGED <<surroundings, cacheVars, app, appTimer, repointed>>
        /\ UNCHANGED <<foreign, unwatched, appQueued, appFresh, faults>>
        /\ appStage = "provision" /\ appStage' = "ready"
        /\ appWork' = [appWork EXCEPT !.pk = pk]
        /\ mine' = mine \/ mine' = [mine EXCEPT ![h] = new]
        /\ lastPK' = [lastPK EXCEPT ![h] = IF old = None THEN pk ELSE @]
    BY DEF Provision, Proceed, historyVars
  <1>2. appWork \in Job /\ (~repointed => appWork.host = provider[app.ref].spec.host)
    BY <1>1 DEF CleanupInv, OneHost
  <1>3. h \in Hosts /\ appWork.auth \in Uid \union {None} /\ appWork.inval \in Uid \union {None}
    BY <1>2 DEF Job
  <1>4. /\ old = None \/ (old \in OAuthProvider /\ old.pk \in Nat)
        /\ lastPK[h] \in Nat /\ Foreign[h] \in Nat
    BY <1>0, <1>3, ForeignAssumption DEF ServerOK, OAuthProvider
  <1>5. pk \in Nat /\ pk > Foreign[h]
    BY <1>3, <1>4 DEF CleanupInv, PKsApart
  <1> HIDE DEF pk, old, h
  <1>6. new \in OAuthProvider
    BY <1>3, <1>5 DEF OAuthProvider
  <1>7. appWork' \in Job /\ appWork'.host = h /\ appWork'.pk = pk
    BY <1>1, <1>2, <1>5 DEF Job, h
  <1>8. mine' \in [Hosts -> OAuthProvider \union {None}]
    BY <1>0, <1>1, <1>6 DEF ServerOK
  <1>9. \A k \in Hosts : mine'[k] # None => mine'[k].pk > Foreign[k]
    BY <1>0, <1>1, <1>3, <1>5 DEF CleanupInv, PKsApart, ServerOK
  <1>10. lastPK' \in [Hosts -> Nat] /\ \A k \in Hosts : lastPK'[k] >= Foreign[k]
    <2>1. (IF old = None THEN pk ELSE lastPK[h]) \in Nat
          /\ (IF old = None THEN pk ELSE lastPK[h]) >= Foreign[h]
      BY <1>3, <1>4, <1>5 DEF CleanupInv, PKsApart
    <2>2. PICK n \in Nat : lastPK' = [lastPK EXCEPT ![h] = n] /\ n >= Foreign[h]
      BY <1>1, <2>1
    <2> QED BY <1>0, <1>3, <2>2 DEF CleanupInv, PKsApart, ServerOK
  <1>11. ServerOK' /\ appQueued' \in BOOLEAN /\ appFresh' \in BOOLEAN /\ unwatched' \in BOOLEAN
    BY <1>0, <1>1, <1>8, <1>10 DEF ServerOK, ApplicationOK, HistoryOK
  <1>12. \A k \in Hosts : foreign'[k] \subseteq foreign[k]
    BY <1>1
  <1>13. ReleasedClean'
    BY <1>1 DEF ReleasedClean
  <1> QED BY <1>1, <1>2, <1>5, <1>7, <1>9, <1>10, <1>11, <1>12, <1>13, ProceedKeeps DEF h

\* What is deleted at the host is the provider recorded, or nothing.
LEMMA CleanupKeeps ==
  ASSUME CleanupInv, Cleanup
  PROVE  CleanupInv' /\ (~repointed /\ app.pk # 0 => UNCHANGED foreign)
         /\ (app.pk = 0 => UNCHANGED foreign)
  <1> DEFINE h == appWork.host
  <1>0. SurroundingsOK /\ ApplicationOK /\ ServerOK /\ HistoryOK
    BY TypeOKInParts DEF CleanupInv
  <1>1. /\ UNCHANGED <<surroundings, cacheVars, app, appTimer, repointed>>
        /\ UNCHANGED <<lastPK, unwatched, appQueued, appFresh, faults, appWork>>
        /\ appStage = "cleanup" /\ appStage' = "release"
        /\ mine' = [mine EXCEPT ![h] = IF @ # None THEN IF @.pk = app.pk THEN None ELSE @ ELSE None]
        /\ foreign' = [foreign EXCEPT ![h] = @ \ {app.pk}]
    BY DEF Cleanup, Proceed, historyVars
  <1>2. appWork \in Job /\ h \in Hosts /\ (~repointed => h = provider[app.ref].spec.host)
    BY <1>1 DEF CleanupInv, OneHost, Job
  <1> HIDE DEF h
  <1>3. \A k \in Hosts : mine'[k] = mine[k] \/ mine'[k] = None
    BY <1>0, <1>1 DEF ServerOK
  <1>4. mine'[h] = None \/ mine'[h].pk # app.pk
    BY <1>0, <1>1, <1>2 DEF ServerOK
  <1>5. ServerOK' /\ \A k \in Hosts : foreign'[k] \subseteq foreign[k]
    <2>1. foreign' \in [Hosts -> SUBSET Nat] /\ \A k \in Hosts : foreign'[k] \subseteq foreign[k]
      BY <1>0, <1>1 DEF ServerOK
    <2>2. mine' \in [Hosts -> OAuthProvider \union {None}]
      BY <1>0, <1>1, <1>3 DEF ServerOK
    <2> QED BY <1>0, <1>1, <2>1, <2>2 DEF ServerOK
  <1>6. /\ \A k \in Hosts : lastPK'[k] >= Foreign[k]
        /\ \A k \in Hosts : mine'[k] # None => mine'[k].pk > Foreign[k]
    BY <1>1, <1>3 DEF CleanupInv, PKsApart
  <1>7. ReleasedClean'
    BY <1>1, <1>2, <1>4 DEF CleanupInv, OneHost, ReleasedClean
  <1>8. appQueued' \in BOOLEAN /\ appFresh' \in BOOLEAN /\ unwatched' \in BOOLEAN
    BY <1>0, <1>1 DEF ApplicationOK, HistoryOK
  <1>9. appWork' \in Job /\ (~repointed => appWork'.host = provider[app.ref].spec.host)
    BY <1>1, <1>2 DEF h
  <1>10. CleanupInv'
    BY <1>1, <1>5, <1>6, <1>7, <1>8, <1>9, ProceedKeeps
  <1>11. \A n \in foreign[h] : n > 0 /\ n <= Foreign[h]
    BY <1>2, ForeignAssumption DEF CleanupInv, PKsApart
  <1>12. (~repointed /\ app.pk # 0) \/ app.pk = 0 => app.pk \notin foreign[h]
    BY <1>0, <1>2, <1>11, ForeignAssumption
       DEF CleanupInv, PKsApart, OneHost, ApplicationOK, Application
  <1>13. app.pk \notin foreign[h] => UNCHANGED foreign
    BY <1>0, <1>1, <1>2 DEF ServerOK
  <1> QED BY <1>10, <1>12, <1>13

\* All the ways a reconcile may end keep it.
LEMMA EndKeeps ==
  ASSUME CleanupInv,
         ProvisionFails \/ CleanupFails \/ Record \/ FailRequeue \/ SecretNotFound \/ Release \/ Restart
  PROVE  CleanupInv'
  <1>0. SurroundingsOK /\ ApplicationOK /\ ServerOK /\ HistoryOK
    BY TypeOKInParts DEF CleanupInv
  <1>b. appQueued \in BOOLEAN /\ appTimer \in BOOLEAN /\ app \in Application
    BY <1>0 DEF ApplicationOK
  <1>1. Return /\ UNCHANGED <<surroundings, serverVars, historyVars>>
    BY DEF ProvisionFails, CleanupFails, Record, FailRequeue, SecretNotFound, Release, Restart,
           WriteApplicationStatus, ReturnError
  <1>2. Fault \/ UNCHANGED faults
    BY DEF ProvisionFails, CleanupFails, Record, FailRequeue, SecretNotFound, Release, Restart,
           WriteApplicationStatus
  <1>3. /\ cached' \in [Providers -> Objects(Status)] /\ cachedToken' \in [Secrets -> Tokens]
        /\ \A p \in Providers : cached'[p] \in {cached[p], provider[p]}
    <2>1. UNCHANGED cacheVars \/ (cached' = provider /\ cachedToken' = token)
      BY DEF ProvisionFails, CleanupFails, Record, FailRequeue, SecretNotFound, Release, Restart,
             WriteApplicationStatus
    <2> QED BY <1>0, <2>1 DEF SurroundingsOK, SurroundingsTypeOK, cacheVars
  <1>4. appQueued' \in BOOLEAN /\ appTimer' \in BOOLEAN
    BY <1>b, Zenon
       DEF ProvisionFails, CleanupFails, Record, FailRequeue, SecretNotFound, Release, Restart,
           WriteApplicationStatus, WriteApplication, ReturnError
  <1>5. Recorded(app')
    <2> DEFINE recorded == [app EXCEPT !.ready = TRUE, !.pk = appWork.pk, !.at = appWork.host]
    <2>1. app' = app \/ app' = [app EXCEPT !.ready = FALSE] \/ app' = [app EXCEPT !.phase = "gone"]
          \/ (appStage = "ready" /\ app' = recorded)
      BY DEF ProvisionFails, CleanupFails, Record, FailRequeue, SecretNotFound, Release, Restart,
             WriteApplicationStatus, WriteApplication, ReturnError
    <2>2. ASSUME appStage = "ready" PROVE Recorded(recorded)
      <3>1. /\ appWork \in Job /\ appWork.pk > Foreign[appWork.host]
            /\ ~repointed => appWork.host = provider[app.ref].spec.host
        BY <2>2 DEF CleanupInv, OneHost, PKsApart
      <3>2. appWork.host \in Hosts /\ appWork.pk \in Nat
        BY <3>1 DEF Job
      <3>3. recorded \in Application
        BY <1>b, <3>2 DEF Application
      <3>4. recorded.ref = app.ref /\ recorded.pk = appWork.pk /\ recorded.at = appWork.host
        BY <1>b DEF Application
      <3> HIDE DEF recorded
      <3> QED BY <3>1, <3>2, <3>3, <3>4 DEF Recorded
    <2> HIDE DEF recorded
    <2> QED BY <2>1, <2>2, StillRecorded
  <1> QED BY <1>1, <1>2, <1>3, <1>4, <1>5, ReturnKeeps

-----------------------------------------------------------------------------
(* The invariant and what it gives. *)

\* At the start nothing is recorded, made or in hand.
LEMMA InitCleanupInv == Init => CleanupInv
  <1> SUFFICES ASSUME Init PROVE CleanupInv
    OBVIOUS
  <1>1. NewStatus \in Status
    BY DEF NewStatus, Status
  <1>2. SurroundingsTypeOK /\ provider \in [Providers -> Objects(Status)]
    BY <1>1, SurroundingsInitTypes DEF Init, StatusInit
  <1>3. SurroundingsOK
    BY <1>2 DEF Init, SurroundingsOK, SurroundingsTypeOK
  <1>4. PICK p \in Providers :
          app = [phase |-> "live", ref |-> p, ready |-> FALSE, pk |-> 0, at |-> None]
    BY DEF Init
  <1>5. ApplicationOK
    <2>1. app \in Application
      BY <1>4 DEF Application
    <2>2. appQueued \in BOOLEAN /\ appTimer \in BOOLEAN /\ appFresh \in BOOLEAN
      BY DEF Init
    <2>3. appStage = "idle" /\ appWork \in ApplicationWork
      BY DEF Init, ApplicationWork
    <2> QED BY <2>1, <2>2, <2>3 DEF ApplicationOK
  <1>6. ServerOK
    BY ForeignAssumption DEF Init, ServerOK
  <1>7. HistoryOK
    <2>1. faults \in 0..MaxFaults
      BY MaxFaultsAssumption DEF Init
    <2> QED BY <2>1 DEF Init, HistoryOK
  <1>8. PKsApart
    BY <1>4, ForeignAssumption DEF Init, PKsApart
  <1>9. OneHost /\ ReleasedClean
    BY <1>4 DEF Init, OneHost, ReleasedClean
  <1> QED BY <1>3, <1>5, <1>6, <1>7, <1>8, <1>9, TypeOKInParts DEF CleanupInv

\* Every step keeps the invariant.
LEMMA StepCleanupInv == CleanupInv /\ [Next]_vars => CleanupInv'
  <1> SUFFICES ASSUME CleanupInv, [Next]_vars PROVE CleanupInv'
    OBVIOUS
  <1>1. CASE ChangeSurroundings
    BY <1>1, ChangeKeeps
  <1>2. CASE ReconcileProviders
    BY <1>2, ReconcileProvidersKeeps
  <1>3. CASE ChangeProviderRef \/ DeleteApplication
    BY <1>3, UserKeeps
  <1>4. CASE \/ \E p \in Providers : WatchProvider(p)
             \/ \E s \in Secrets : WatchSecret(s)
             \/ Resync
    BY <1>4, WatchesKeep
  <1>5. CASE StartApplication
    BY <1>5, StartKeeps
  <1>6. CASE PreflightFails
    BY <1>6, PreflightKeeps
  <1>7. CASE Provision
    BY <1>7, ProvisionKeeps
  <1>8. CASE Cleanup
    BY <1>8, CleanupKeeps
  <1>9. CASE ProvisionFails \/ CleanupFails \/ Record \/ FailRequeue \/ SecretNotFound \/ Release
             \/ Restart
    BY <1>9, EndKeeps
  <1>10. CASE UNCHANGED vars
    <2>1. UNCHANGED <<provider, token, flow, changes, cached, cachedToken, app, appQueued,
                      appTimer, appStage, appWork, appFresh, mine, foreign, lastPK, faults,
                      repointed, unwatched>>
      BY <1>10 DEF vars, surroundings, cacheVars, applicationVars, serverVars, historyVars
    <2>2. SurroundingsOK' /\ ApplicationOK' /\ ServerOK' /\ HistoryOK'
      BY <2>1, TypeOKInParts
         DEF CleanupInv, SurroundingsOK, SurroundingsTypeOK, ApplicationOK, ServerOK, HistoryOK
    <2>3. PKsApart' /\ OneHost' /\ ReleasedClean'
      BY <2>1 DEF CleanupInv, PKsApart, OneHost, ReleasedClean
    <2> QED BY <2>2, <2>3, TypeOKInParts DEF CleanupInv
  <1> QED BY <1>1, <1>2, <1>3, <1>4, <1>5, <1>6, <1>7, <1>8, <1>9, <1>10
       DEF Next, ReconcileApplication

\* No step cleans up what is another's, or forgets what is its own.
LEMMA StepHitsItsOwn ==
  ASSUME CleanupInv, [Next]_vars
  PROVE  /\ Leaves /\ app.pk # 0 /\ ~repointed => CleanedUp
         /\ foreign' # foreign => repointed
  <1>1. ASSUME foreign' # foreign PROVE repointed
    <2>1. CASE Cleanup
      BY <1>1, <2>1, CleanupKeeps
    <2>2. CASE ~Cleanup
      <3>1. UNCHANGED foreign
        BY <2>2
           DEF Next, ChangeSurroundings, ReconcileProviders, ChangeProviderRef, DeleteApplication,
               UserWrites, WatchProvider, WatchSecret, Resync, ReconcileApplication,
               StartApplication, PreflightFails, Provision, ProvisionFails, Record, FailRequeue,
               SecretNotFound, WriteApplicationStatus, CleanupFails, Release, Restart,
               serverVars, vars
      <3> QED BY <1>1, <3>1
    <2> QED BY <2>1, <2>2
  <1>2. ASSUME Leaves, app.pk # 0, ~repointed PROVE CleanedUp
    <2>1. app \in Application
      BY DEF CleanupInv, TypeOK
    <2>2. CASE Release
      BY <1>2, <2>2 DEF Release, CleanupInv, ReleasedClean, CleanedUp, serverVars
    <2>3. CASE ~Release
      <3>1. \/ app' = app
            \/ \E p \in Providers : app' = [app EXCEPT !.ref = p]
            \/ app' = [app EXCEPT !.phase = "deleting"]
            \/ app' = [app EXCEPT !.ready = FALSE]
            \/ app' = [app EXCEPT !.ready = TRUE, !.pk = appWork.pk, !.at = appWork.host]
        BY <2>3
           DEF Next, ChangeSurroundings, ReconcileProviders, ChangeProviderRef, DeleteApplication,
               UserWrites, WriteApplication, WatchProvider, WatchSecret, Resync,
               ReconcileApplication, StartApplication, PreflightFails, Provision, Proceed,
               ProvisionFails, ReturnError, Record, FailRequeue, SecretNotFound,
               WriteApplicationStatus, Cleanup, CleanupFails, Restart, applicationVars, vars
      <3>2. app'.phase \in {app.phase, "deleting"}
        BY <2>1, <3>1 DEF Application
      <3> QED BY <1>2, <3>2 DEF Leaves
    <2> QED BY <2>2, <2>3
  <1> QED BY <1>1, <1>2

\* Whatever the caches lag behind, whatever fails, and however many providers
\* others have in the same Authentik (oidcapplication_controller.go:424-468):
\* the state has its types and the invariant of cleanup,
THEOREM CleanupIsAimed == Spec => []CleanupInv
  BY InitCleanupInv, StepCleanupInv, PTL DEF Spec

\* (oidcapplication_controller.go:83-114)
THEOREM ConnectionTypes == Spec => []TypeOK
  <1>1. CleanupInv => TypeOK
    BY DEF CleanupInv
  <1> QED BY <1>1, CleanupIsAimed, PTL

\* and as long as nothing is repointed an application goes only after its
\* provider, and nothing of others is deleted
\* (oidcapplication_controller.go:461-466).
THEOREM OnlyItsOwnIsCleanedUp == Spec => CleanupHitsItsOwn
  <1> DEFINE Hit == /\ Leaves /\ app.pk # 0 /\ ~repointed => CleanedUp
                    /\ foreign' # foreign => repointed
  <1>1. CleanupInv /\ [Next]_vars => [Hit]_vars
    BY StepHitsItsOwn
  <1> QED BY <1>1, CleanupIsAimed, PTL DEF Spec, CleanupHitsItsOwn
=============================================================================
