----------------------- MODULE AuthentikProviderProofs ------------------------
(***************************************************************************)
(* The AuthentikProvider controller keeps the promise of ProviderStatus,    *)
(* for every set of AuthentikProviders, Secrets, hosts and flows, whatever  *)
(* administrators do in the middle of a check.                              *)
(***************************************************************************)
EXTENDS AuthentikProviderReconciler, AuthentikProvidersProofs

-----------------------------------------------------------------------------
(* Types. *)

ProviderTypeOK == SurroundingsTypeOK /\ provider \in [Providers -> Provider]

CacheTypeOK ==
  /\ cached \in [Providers -> Provider]
  /\ cachedFresh \subseteq Providers /\ cachedToken \in [Secrets -> Tokens]

\* What the worker holds, and which copies are current.
WorkerTypeOK ==
  stage \in {"idle", "authFlow", "invalFlow", "write"} /\ work \in Work /\ fresh \in BOOLEAN

\* A flow that is looked up has a uid, if it is there.
LEMMA FlowBySlugType ==
  ASSUME SurroundingsTypeOK, NEW host \in Hosts, NEW slug \in Slugs
  PROVE  /\ FlowBySlug(host, slug) \in Uid \union {None}
         /\ FlowBySlug(host, slug) # None => FlowBySlug(host, slug) \in KnownUids(host, slug)
  <1>1. flow[host][slug].made \in Nat
    BY DEF SurroundingsTypeOK
  <1>2. UidOf(host, slug) \in Uid
    BY <1>1 DEF UidOf, Uid
  <1>3. UidOf(host, slug) \in KnownUids(host, slug)
    BY <1>1 DEF UidOf, KnownUids
  <1> QED BY <1>2, <1>3 DEF FlowBySlug

\* Known uids stay known: flows are made anew, never unmade.
LEMMA UidsStayKnown ==
  ASSUME SurroundingsTypeOK, SurroundingsTypeOK',
         NEW host \in Hosts, NEW slug \in Slugs,
         flow[host][slug].made <= flow'[host][slug].made
  PROVE  KnownUids(host, slug) \subseteq KnownUids(host, slug)'
  <1>1. flow[host][slug].made \in Nat /\ flow'[host][slug].made \in Nat
    BY DEF SurroundingsTypeOK
  <1>2. 0..flow[host][slug].made \subseteq 0..flow'[host][slug].made
    BY <1>1
  <1> QED BY <1>2 DEF KnownUids

\* A copy whose reason or whose status changes is still one.
LEMMA CopyTypes ==
  ASSUME NEW copy \in Provider
  PROVE  /\ \A reason \in Reasons : [copy EXCEPT !.status.reason = reason] \in Provider
         /\ \A status \in Status : [copy EXCEPT !.status = status] \in Provider
  BY DEF Provider, Status

-----------------------------------------------------------------------------
(* What the worker's steps do to its work. *)

\* A reconcile starts on the copy in the cache.
LEMMA StartEffect ==
  ASSUME StatusInv, NEW p \in Providers, Start(p)
  PROVE  /\ UNCHANGED <<surroundings, cacheVars, timers, faults, unwatched>>
         /\ queue' \subseteq queue
         /\ WorkerTypeOK'
         /\ \/ stage' = "idle" /\ fresh' = FALSE
            \/ /\ stage' \in {"authFlow", "write"}
               /\ work' \in Job /\ work'.name = p
               /\ fresh' = (p \in cachedFresh)
               /\ work'.copy.exists /\ work'.copy.spec = cached[p].spec
               /\ cached[p].exists
               /\ work'.copy.status.auth = cached[p].status.auth
               /\ work'.copy.status.inval = cached[p].status.inval
               /\ stage' = "write" => work'.copy.status.reason # "APIReachable"
  <1> DEFINE copy == cached[p]
             held == cachedToken[copy.spec.secret]
             Begun(reason) == [name |-> p, copy |-> [copy EXCEPT !.status.reason = reason],
                              token |-> held, auth |-> None]
  <1>1. copy \in Provider /\ held \in Tokens
    BY DEF StatusInv, TypeOK, Provider, ProviderSpec
  <1>2. copy.status \in Status /\ copy.status.reason \in Reasons
    BY <1>1 DEF Provider, Status
  <1>3. \A reason \in Reasons :
          LET new == [copy EXCEPT !.status.reason = reason] IN
          /\ new \in Provider /\ new.exists = copy.exists /\ new.spec = copy.spec
          /\ new.status.reason = reason
          /\ new.status.auth = copy.status.auth /\ new.status.inval = copy.status.inval
    BY <1>1, <1>2 DEF Provider, Status
  <1>4. \A reason \in Reasons : Begun(reason) \in Job
    BY <1>1, <1>3 DEF Job
  <1>5. \/ Stop
        \/ /\ copy.exists
           /\ fresh' = (p \in cachedFresh)
           /\ \/ stage' = "write" /\ work' = Begun("SecretNotFound")
              \/ stage' = "write" /\ work' = Begun("TokenEmpty")
              \/ stage' = "authFlow" /\ work' = Begun(copy.status.reason)
    BY DEF Start
  <1>6. /\ UNCHANGED <<surroundings, cacheVars, timers, faults, unwatched>>
        /\ queue' \subseteq queue
    BY DEF Start
  <1>7. "SecretNotFound" \in Reasons /\ "TokenEmpty" \in Reasons
    BY DEF Reasons
  <1>8. CASE Stop
    BY <1>6, <1>8 DEF Stop, WorkerTypeOK, Work
  <1>9. ASSUME NEW reason \in Reasons, work' = Begun(reason), copy.exists,
               fresh' = (p \in cachedFresh), stage' \in {"authFlow", "write"},
               stage' = "write" => reason # "APIReachable"
        PROVE  /\ WorkerTypeOK'
               /\ work' \in Job /\ work'.name = p
               /\ work'.copy.exists /\ work'.copy.spec = copy.spec
               /\ work'.copy.status.auth = copy.status.auth
               /\ work'.copy.status.inval = copy.status.inval
               /\ stage' = "write" => work'.copy.status.reason # "APIReachable"
    <2>1. work' \in Job /\ work'.name = p
      BY <1>4, <1>9
    <2>2. work'.copy = [copy EXCEPT !.status.reason = reason]
      BY <1>9
    <2>3. WorkerTypeOK'
      BY <1>9, <2>1 DEF WorkerTypeOK, Work
    <2> QED BY <1>3, <1>9, <2>1, <2>2, <2>3
  <1> HIDE DEF Begun
  <1> QED BY <1>2, <1>5, <1>6, <1>7, <1>8, <1>9

\* A failed check keeps the copy but for its reason.
LEMMA FailEffect ==
  ASSUME work \in Job, NEW reason \in Reasons \ {"APIReachable"}, Fail(reason)
  PROVE  /\ stage' = "write" /\ work' \in Job /\ work'.name = work.name
         /\ work'.copy.exists = work.copy.exists /\ work'.copy.spec = work.copy.spec
         /\ work'.copy.status.reason # "APIReachable"
         /\ work'.copy.status.auth = work.copy.status.auth
         /\ work'.copy.status.inval = work.copy.status.inval
  <1>1. work' = [work EXCEPT !.copy = [work.copy EXCEPT !.status.reason = reason]]
    BY DEF Fail, GoOn, Job
  <1>2. work.copy \in Provider
    BY DEF Job
  <1>3. [work.copy EXCEPT !.status.reason = reason] \in Provider
    BY <1>2, CopyTypes
  <1> QED BY <1>1, <1>2, <1>3 DEF Fail, GoOn, Job, Provider, Status

\* Looking up a flow either fails so, or finds a uid of the spec in hand.
LEMMA LookUpEffect ==
  ASSUME StatusInv, LookUpAuthorizationFlow \/ LookUpInvalidationFlow
  PROVE  /\ UNCHANGED <<surroundings, cacheVars, queue, timers, fresh>>
         /\ faults' \in 0..MaxFaults /\ unwatched' \in BOOLEAN
         /\ stage' \in {"invalFlow", "write"} /\ work' \in Job
         /\ FreshCopies' /\ LookedUp'
  <1> DEFINE spec == work.copy.spec
  <1>0. /\ work \in Job /\ work.copy \in Provider /\ work.copy.exists
        /\ stage # "idle" /\ stage # "write"
    BY DEF StatusInv, FreshCopies, LookUpAuthorizationFlow, LookUpInvalidationFlow, Job
  <1>1. spec \in ProviderSpec /\ spec.host \in Hosts /\ spec.auth \in Slugs /\ spec.inval \in Slugs
    BY <1>0 DEF Provider, ProviderSpec
  <1>2. UNCHANGED <<surroundings, cacheVars, queue, timers, fresh>>
    BY DEF LookUpAuthorizationFlow, LookUpInvalidationFlow
  <1>3. faults' \in 0..MaxFaults /\ unwatched' \in BOOLEAN
    <2>1. faults \in 0..MaxFaults /\ unwatched \in BOOLEAN
      BY DEF StatusInv, TypeOK
    <2>2. \/ UNCHANGED <<faults, unwatched>>
          \/ Fault /\ unwatched' = TRUE
      BY DEF LookUpAuthorizationFlow, LookUpInvalidationFlow, LookUpFails, LookUpSucceeds
    <2>3. Fault => faults' \in 0..MaxFaults
      BY <2>1, MaxFaultsAssumption DEF Fault
    <2>4. faults' \in 0..MaxFaults
      BY <2>1, <2>2, <2>3
    <2>5. unwatched' \in BOOLEAN
      BY <2>1, <2>2, Zenon
    <2> QED BY <2>4, <2>5
  <1>4. \A host, slug : KnownUids(host, slug)' = KnownUids(host, slug)
    BY <1>2 DEF KnownUids, surroundings
  <1>f. UNCHANGED <<provider, flow, cached, cachedFresh, fresh>>
    BY <1>2 DEF surroundings, cacheVars
  <1>5. ASSUME NEW slug, LookUpFails(slug)
        PROVE  /\ stage' \in {"invalFlow", "write"} /\ work' \in Job
               /\ FreshCopies' /\ LookedUp'
    <2>1. PICK reason \in {"FlowResolutionFailed", "FlowNotFound"} : Fail(reason)
      BY <1>5 DEF LookUpFails
    <2>2. reason \in Reasons \ {"APIReachable"}
      BY DEF Reasons
    <2>3. /\ stage' = "write" /\ work' \in Job /\ work'.name = work.name
          /\ work'.copy.exists = work.copy.exists /\ work'.copy.spec = work.copy.spec
          /\ work'.copy.status.reason # "APIReachable"
          /\ work'.copy.status.auth = work.copy.status.auth
          /\ work'.copy.status.inval = work.copy.status.inval
      BY <1>0, <2>1, <2>2, FailEffect
    <2>4. FreshCopies'
      BY <1>0, <1>f, <2>3 DEF StatusInv, FreshCopies
    <2> QED BY <2>3, <2>4 DEF LookedUp
  <1>6. ASSUME LookUpAuthorizationFlow, ~LookUpFails(spec.auth)
        PROVE  stage' = "invalFlow" /\ work' \in Job /\ FreshCopies' /\ LookedUp'
    <2>1. /\ stage' = "invalFlow"
          /\ work' = [work EXCEPT !.auth = Resolved(spec.auth)]
          /\ Resolved(spec.auth) # None
      BY <1>6 DEF LookUpAuthorizationFlow, LookUpSucceeds, GoOn
    <2>2. Resolved(spec.auth) \in Uid /\ Resolved(spec.auth) \in KnownUids(spec.host, spec.auth)
      BY <1>1, <2>1, FlowBySlugType DEF Resolved, StatusInv, TypeOK
    <2>3. /\ work' \in Job /\ work'.copy = work.copy /\ work'.name = work.name
          /\ work'.auth = Resolved(spec.auth)
      BY <1>0, <2>1, <2>2 DEF Job
    <2>4. FreshCopies'
      BY <1>0, <1>f, <2>1, <2>3 DEF StatusInv, FreshCopies
    <2>5. LookedUp'
      BY <1>4, <2>1, <2>2, <2>3 DEF LookedUp
    <2> QED BY <2>1, <2>3, <2>4, <2>5
  <1>7. ASSUME LookUpInvalidationFlow, ~LookUpFails(spec.inval)
        PROVE  stage' = "write" /\ work' \in Job /\ FreshCopies' /\ LookedUp'
    <2> DEFINE status == [reason |-> "APIReachable", auth |-> work.auth,
                          inval |-> Resolved(spec.inval)]
    <2>1. /\ stage = "invalFlow" /\ stage' = "write"
          /\ work' = [work EXCEPT !.copy.status = status]
          /\ Resolved(spec.inval) # None
      BY <1>7 DEF LookUpInvalidationFlow, LookUpSucceeds, GoOn
    <2>2. /\ Resolved(spec.inval) \in Uid
          /\ Resolved(spec.inval) \in KnownUids(spec.host, spec.inval)
      BY <1>1, <2>1, FlowBySlugType DEF Resolved, StatusInv, TypeOK
    <2>3. status \in Status
      BY <1>0, <2>2 DEF Job, Status, Reasons
    <2>4. /\ work' \in Job /\ work'.copy.spec = spec /\ work'.name = work.name
          /\ work'.copy.exists = work.copy.exists /\ work'.copy.status = status
      BY <1>0, <2>1, <2>3 DEF Job, Provider
    <2>5. work.auth \in KnownUids(spec.host, spec.auth)
      BY <2>1 DEF StatusInv, LookedUp
    <2>6. /\ work'.copy.status.reason = "APIReachable"
          /\ work'.copy.status.auth = work.auth
          /\ work'.copy.status.inval = Resolved(spec.inval)
      BY <2>4
    <2>7. FreshCopies'
      <3> HIDE DEF status
      <3> QED BY <1>0, <1>f, <2>1, <2>4, <2>6 DEF StatusInv, FreshCopies
    <2>8. LookedUp'
      <3> HIDE DEF spec, status
      <3>1. KnownUids(work.copy.spec.host, work.copy.spec.auth)' = KnownUids(spec.host, spec.auth)
        BY <1>f, <2>4 DEF KnownUids
      <3>2. KnownUids(work.copy.spec.host, work.copy.spec.inval)' = KnownUids(spec.host, spec.inval)
        BY <1>f, <2>4 DEF KnownUids
      <3> QED BY <2>1, <2>2, <2>5, <2>6, <3>1, <3>2 DEF LookedUp
    <2> QED BY <2>1, <2>4, <2>7, <2>8
  <1>8. /\ stage' \in {"invalFlow", "write"} /\ work' \in Job
        /\ FreshCopies' /\ LookedUp'
    BY <1>5, <1>6, <1>7 DEF LookUpAuthorizationFlow, LookUpInvalidationFlow
  <1> QED BY <1>2, <1>3, <1>8

\* Whoever writes objects, the copies that stay current show them.
LEMMA WrittenCopiesAge ==
  ASSUME StatusInv, UNCHANGED cached, cachedFresh' = cachedFresh \ Written
  PROVE  \A p \in cachedFresh' : cached'[p] = provider'[p]
  BY DEF StatusInv, TypeOK, FreshCopies, Written

\* A write either lands on the object as it was copied, or on nothing.
LEMMA WriteEffect ==
  ASSUME StatusInv, WriteStatus
  PROVE  /\ ProviderTypeOK' /\ CacheTypeOK' /\ FreshCopies' /\ LookedUp' /\ WorkerTypeOK'
         /\ queue' \subseteq Providers /\ timers' \subseteq Providers
         /\ faults' \in 0..MaxFaults /\ UNCHANGED unwatched
         /\ \/ UNCHANGED provider
            \/ /\ fresh /\ work \in Job
               /\ provider' = [provider EXCEPT ![work.name].status = work.copy.status]
  <1>1. stage = "write" /\ work \in Job /\ work.name \in Providers /\ work.copy.status \in Status
    BY DEF WriteStatus, StatusInv, FreshCopies, Job, Provider
  <1>2. UNCHANGED <<token, flow, changes, cached, cachedToken, unwatched>> /\ Stop
    BY DEF WriteStatus
  <1>3. WorkerTypeOK' /\ LookedUp'
    BY <1>2 DEF Stop, WorkerTypeOK, Work, LookedUp
  <1>4. faults' \in 0..MaxFaults
    <2>1. faults \in 0..MaxFaults
      BY DEF StatusInv, TypeOK
    <2>2. Fault => faults' \in 0..MaxFaults
      BY <2>1, MaxFaultsAssumption DEF Fault
    <2> QED BY <2>1, <2>2 DEF WriteStatus
  <1>5. SurroundingsTypeOK'
    BY <1>2 DEF StatusInv, TypeOK, SurroundingsTypeOK
  <1>6. CASE fresh /\ Publish(work.copy.status)
    <2>1. /\ provider' = [provider EXCEPT ![work.name].status = work.copy.status]
          /\ cachedFresh' = cachedFresh \ Written
          /\ timers' = timers \union {work.name} /\ UNCHANGED queue
      BY <1>6 DEF Publish
    <2>2. provider' \in [Providers -> Provider]
      BY <1>1, <2>1 DEF StatusInv, TypeOK, Provider
    <2>3. CacheTypeOK' /\ queue' \subseteq Providers /\ timers' \subseteq Providers
      BY <1>1, <1>2, <2>1 DEF StatusInv, TypeOK, CacheTypeOK
    <2>4. FreshCopies'
      BY <1>2, <2>1, WrittenCopiesAge DEF FreshCopies, Stop
    <2> QED BY <1>1, <1>2, <1>3, <1>4, <1>5, <1>6, <2>1, <2>2, <2>3, <2>4 DEF ProviderTypeOK
  <1>7. CASE queue' = queue \union {work.name} /\ UNCHANGED <<provider, cachedFresh, timers>>
    <2>1. ProviderTypeOK' /\ CacheTypeOK' /\ queue' \subseteq Providers /\ timers' \subseteq Providers
      BY <1>1, <1>2, <1>5, <1>7 DEF StatusInv, TypeOK, ProviderTypeOK, CacheTypeOK
    <2>2. FreshCopies'
      BY <1>2, <1>7 DEF StatusInv, FreshCopies, Stop
    <2> QED BY <1>2, <1>3, <1>4, <1>7, <2>1, <2>2
  <1> QED BY <1>6, <1>7 DEF WriteStatus

\* Administrators change what a check is about, but not what it has in hand.
LEMMA ChangeKeepsStatusInv ==
  ASSUME StatusInv, ChangeSurroundings
  PROVE  StatusInv'
  <1>1. /\ UNCHANGED <<cached, cachedToken, queue, timers, stage, work, faults>>
        /\ cachedFresh' = cachedFresh \ Written
        /\ Administrate(NewStatus)
    BY DEF ChangeSurroundings
  <1>2. /\ NewStatus \in Status /\ SurroundingsTypeOK
        /\ provider \in [Providers -> Objects(Status)]
    BY DEF NewStatus, Status, Reasons, StatusInv, TypeOK, Objects, Provider
  <1>3. /\ SurroundingsTypeOK' /\ provider' \in [Providers -> Objects(Status)]
        /\ \A h \in Hosts, s \in Slugs : flow[h][s].made <= flow'[h][s].made
    BY <1>1, <1>2, AdministrateEffect
  <1>4. provider' \in [Providers -> Provider]
    BY <1>3 DEF Objects, Provider
  <1>5. fresh' \in BOOLEAN /\ unwatched' \in BOOLEAN /\ (fresh' => fresh)
    <2>1. fresh \in BOOLEAN /\ unwatched \in BOOLEAN
      BY DEF StatusInv, TypeOK
    <2> QED BY <2>1, Zenon DEF ChangeSurroundings
  <1>6. fresh' => work.name \notin Written
    BY Zenon DEF ChangeSurroundings
  <1>7. TypeOK'
    BY <1>1, <1>3, <1>4, <1>5 DEF StatusInv, TypeOK
  <1>8. FreshCopies'
    <2>1. \A p \in cachedFresh' : cached'[p] = provider'[p]
      BY <1>1, WrittenCopiesAge
    <2>2. stage # "idle" => work \in Job /\ work.copy.exists /\ work.name \in Providers
      BY DEF StatusInv, FreshCopies, Job
    <2>3. stage # "idle" /\ fresh' => provider'[work.name] = provider[work.name]
      BY <1>6, <2>2 DEF Written
    <2> QED BY <1>1, <1>5, <2>1, <2>2, <2>3 DEF StatusInv, FreshCopies
  <1>9. LookedUp'
    <2> DEFINE spec == work.copy.spec
    <2>1. CASE stage = "idle"
      BY <1>1, <2>1 DEF LookedUp
    <2>2. CASE stage # "idle"
      <3>1. spec.host \in Hosts /\ spec.auth \in Slugs /\ spec.inval \in Slugs
        BY <2>2 DEF StatusInv, FreshCopies, Job, Provider, ProviderSpec
      <3>2. /\ KnownUids(spec.host, spec.auth) \subseteq KnownUids(spec.host, spec.auth)'
            /\ KnownUids(spec.host, spec.inval) \subseteq KnownUids(spec.host, spec.inval)'
        BY <3>1, <1>1, <1>2, <1>3, UidsStayKnown
      <3> QED BY <1>1, <3>2 DEF StatusInv, LookedUp
    <2> QED BY <2>1, <2>2
  <1> QED BY <1>7, <1>8, <1>9 DEF StatusInv

-----------------------------------------------------------------------------
(* The invariant. *)

\* At the start nothing is in hand and the cache is current.
LEMMA InitStatusInv == Init => StatusInv
  <1> SUFFICES ASSUME Init PROVE StatusInv
    OBVIOUS
  <1>1. NewStatus \in Status
    BY DEF NewStatus, Status, Reasons
  <1>2. SurroundingsTypeOK /\ provider \in [Providers -> Objects(Status)]
    BY <1>1, SurroundingsInitTypes DEF Init
  <1>3. SurroundingsTypeOK /\ provider \in [Providers -> Provider]
    BY <1>2 DEF Objects, Provider
  <1>4. TypeOK
    <2>1. token \in [Secrets -> Tokens]
      BY <1>3 DEF SurroundingsTypeOK
    <2>2. /\ fresh \in BOOLEAN /\ unwatched \in BOOLEAN
          /\ stage \in {"idle", "authFlow", "invalFlow", "write"} /\ work \in Work
      BY DEF Init, Work
    <2>3. faults \in 0..MaxFaults
      BY MaxFaultsAssumption DEF Init
    <2>4. queue \subseteq Providers /\ timers \subseteq Providers
      BY InitialAssumption DEF Init
    <2>5. /\ cached \in [Providers -> Provider] /\ cachedToken \in [Secrets -> Tokens]
          /\ cachedFresh \subseteq Providers
      BY <1>3, <2>1 DEF Init
    <2> QED BY <1>3, <2>2, <2>3, <2>4, <2>5 DEF TypeOK
  <1>5. FreshCopies /\ LookedUp
    BY DEF Init, FreshCopies, LookedUp
  <1> QED BY <1>4, <1>5 DEF StatusInv

\* Every step keeps it.
LEMMA StepStatusInv == StatusInv /\ [Next]_vars => StatusInv'
  <1> SUFFICES ASSUME StatusInv, [Next]_vars PROVE StatusInv'
    OBVIOUS
  <1> USE DEF surroundings, cacheVars, workerVars
  <1>1. CASE ChangeSurroundings
    BY <1>1, ChangeKeepsStatusInv
  <1>2. ASSUME NEW p \in Providers, WatchProvider(p) PROVE StatusInv'
    <2>1. TypeOK'
      BY <1>2 DEF WatchProvider, StatusInv, TypeOK, SurroundingsTypeOK
    <2>2. FreshCopies'
      <3>1. \A q \in cachedFresh' : cached'[q] = provider'[q]
        BY <1>2 DEF WatchProvider, StatusInv, TypeOK, FreshCopies
      <3> QED BY <1>2, <3>1 DEF WatchProvider, StatusInv, FreshCopies
    <2>3. LookedUp'
      BY <1>2 DEF WatchProvider, StatusInv, LookedUp, KnownUids
    <2> QED BY <2>1, <2>2, <2>3 DEF StatusInv
  <1>3. ASSUME NEW p \in Providers, Resync(p) PROVE StatusInv'
    <2>1. TypeOK'
      BY <1>3 DEF Resync, StatusInv, TypeOK, SurroundingsTypeOK
    <2> QED BY <1>3, <2>1 DEF Resync, StatusInv, FreshCopies, LookedUp, KnownUids
  <1>4. ASSUME NEW s \in Secrets, WatchSecret(s) PROVE StatusInv'
    <2>1. TypeOK'
      BY <1>4 DEF WatchSecret, StatusInv, TypeOK, SurroundingsTypeOK, SecretToProviders
    <2> QED BY <1>4, <2>1 DEF WatchSecret, StatusInv, FreshCopies, LookedUp, KnownUids
  <1>5. ASSUME NEW p \in Providers, Start(p) PROVE StatusInv'
    <2>1. /\ UNCHANGED <<surroundings, cacheVars, timers, faults, unwatched>>
          /\ queue' \subseteq queue /\ WorkerTypeOK'
      BY <1>5, StartEffect
    <2>2. TypeOK'
      BY <2>1 DEF StatusInv, TypeOK, SurroundingsTypeOK, WorkerTypeOK
    <2>3. \A q \in cachedFresh' : cached'[q] = provider'[q]
      BY <2>1 DEF StatusInv, FreshCopies
    <2>4. CASE stage' = "idle" /\ fresh' = FALSE
      BY <2>2, <2>3, <2>4 DEF StatusInv, FreshCopies, LookedUp
    <2>5. CASE ~(stage' = "idle" /\ fresh' = FALSE)
      <3>1. /\ stage' \in {"authFlow", "write"}
            /\ work' \in Job /\ work'.name = p
            /\ fresh' = (p \in cachedFresh)
            /\ work'.copy.exists /\ work'.copy.spec = cached[p].spec
            /\ cached[p].exists
            /\ work'.copy.status.auth = cached[p].status.auth
            /\ work'.copy.status.inval = cached[p].status.inval
            /\ stage' = "write" => work'.copy.status.reason # "APIReachable"
        BY <1>5, <2>5, StartEffect
      <3>2. FreshCopies'
        BY <2>1, <2>3, <3>1 DEF FreshCopies
      <3>3. LookedUp'
        BY <3>1 DEF LookedUp
      <3> QED BY <2>2, <3>2, <3>3 DEF StatusInv
    <2> QED BY <2>4, <2>5
  <1>6. CASE LookUpAuthorizationFlow \/ LookUpInvalidationFlow
    <2>1. /\ UNCHANGED <<surroundings, cacheVars, queue, timers, fresh>>
          /\ faults' \in 0..MaxFaults /\ unwatched' \in BOOLEAN
          /\ stage' \in {"invalFlow", "write"} /\ work' \in Job
          /\ FreshCopies' /\ LookedUp'
      BY <1>6, LookUpEffect
    <2>2. TypeOK'
      BY <2>1 DEF StatusInv, TypeOK, SurroundingsTypeOK, Work
    <2> QED BY <2>1, <2>2 DEF StatusInv
  <1>7. CASE WriteStatus
    <2>1. /\ ProviderTypeOK' /\ CacheTypeOK' /\ FreshCopies' /\ LookedUp' /\ WorkerTypeOK'
          /\ queue' \subseteq Providers /\ timers' \subseteq Providers
          /\ faults' \in 0..MaxFaults /\ UNCHANGED unwatched
      BY <1>7, WriteEffect
    <2>2. unwatched' \in BOOLEAN
      BY <2>1 DEF StatusInv, TypeOK
    <2> QED BY <2>1, <2>2 DEF StatusInv, TypeOK, ProviderTypeOK, CacheTypeOK, WorkerTypeOK
  <1>8. CASE Restart
    <2>1. /\ UNCHANGED <<provider, token, flow, changes, unwatched>>
          /\ Fault /\ Listed /\ Stop
      BY <1>8 DEF Restart
    <2>2. faults' \in 0..MaxFaults
      BY <2>1, MaxFaultsAssumption DEF StatusInv, TypeOK, Fault
    <2>3. TypeOK'
      BY <2>1, <2>2 DEF Listed, Stop, StatusInv, TypeOK, SurroundingsTypeOK, Work
    <2> QED BY <2>1, <2>3 DEF Listed, Stop, StatusInv, FreshCopies, LookedUp
  <1>9. CASE UNCHANGED vars
    <2>1. TypeOK'
      BY <1>9 DEF vars, StatusInv, TypeOK, SurroundingsTypeOK
    <2> QED BY <1>9, <2>1 DEF vars, StatusInv, FreshCopies, LookedUp, KnownUids
  <1> QED BY <1>1, <1>2, <1>3, <1>4, <1>5, <1>6, <1>7, <1>8, <1>9 DEF Next, Reconcile

\* A status about to be written is the outcome of a check of the copy in hand,
\* and a write that is not refused lands on what that copy shows
\* (authentikprovider_controller.go:56-124).
THEOREM StatusIsOfTheCopy == Spec => []StatusInv
  BY InitStatusInv, StepStatusInv, PTL DEF Spec

\* All of the state has its type (authentikprovider_controller.go:36-54).
THEOREM StatusTypes == Spec => []TypeOK
  <1>1. StatusInv => TypeOK
    BY DEF StatusInv
  <1> QED BY <1>1, StatusIsOfTheCopy, PTL

-----------------------------------------------------------------------------
(* The promise: every step of the controller is one that ProviderStatus      *)
(* allows, seen through Published.                                           *)

Shown == [p \in Providers |-> Published(provider[p])]

\* When one object changes, so does what is shown of it, and nothing else.
LEMMA ShownOne ==
  ASSUME provider \in [Providers -> Provider], NEW p \in Providers, NEW object,
         provider' = [provider EXCEPT ![p] = object]
  PROVE  Shown' = [Shown EXCEPT ![p] = Published(object)]
  BY DEF Shown

\* What is shown has the type of ProviderStatus.
LEMMA ShownType ==
  ASSUME provider \in [Providers -> Provider]
  PROVE  Shown \in [Providers -> [exists : BOOLEAN, spec : ProviderSpec, status : Promise!Status]]
  <1> SUFFICES ASSUME NEW p \in Providers
               PROVE  Published(provider[p]) \in
                        [exists : BOOLEAN, spec : ProviderSpec, status : Promise!Status]
    BY DEF Shown
  <1>1. (provider[p].status.reason = "APIReachable") \in BOOLEAN
    OBVIOUS
  <1>2. /\ provider[p].exists \in BOOLEAN /\ provider[p].spec \in ProviderSpec
        /\ provider[p].status.auth \in Uid \union {None}
        /\ provider[p].status.inval \in Uid \union {None}
    BY DEF Provider, Status
  <1>3. Promise!Uid = Uid
    BY DEF Promise!Uid, Uid
  <1> QED BY <1>1, <1>2, <1>3 DEF Published, Promise!Status

\* Records with one field replaced, spelt out.
LEMMA ObjectExcept ==
  ASSUME NEW E, NEW S, NEW T, NEW r \in [exists : E, spec : S, status : T]
  PROVE  /\ [r EXCEPT !.exists = FALSE] =
              [exists |-> FALSE, spec |-> r.spec, status |-> r.status]
         /\ \A status : [r EXCEPT !.status = status] =
                          [exists |-> r.exists, spec |-> r.spec, status |-> status]
  <1>1. \A exists : [r EXCEPT !.exists = exists] =
                      [exists |-> exists, spec |-> r.spec, status |-> r.status]
    OBVIOUS
  <1>2. \A status : [r EXCEPT !.status = status] =
                      [exists |-> r.exists, spec |-> r.spec, status |-> status]
    OBVIOUS
  <1> QED BY <1>1, <1>2, Zenon

LEMMA StatusExcept ==
  \A r \in Promise!Status :
    [r EXCEPT !.connected = FALSE] = [connected |-> FALSE, auth |-> r.auth, inval |-> r.inval]
  <1> SUFFICES ASSUME NEW r \in Promise!Status
               PROVE  [r EXCEPT !.connected = FALSE] =
                        [connected |-> FALSE, auth |-> r.auth, inval |-> r.inval]
    OBVIOUS
  <1>1. \A b : [r EXCEPT !.connected = b] = [connected |-> b, auth |-> r.auth, inval |-> r.inval]
    BY DEF Promise!Status
  <1> QED BY <1>1, Zenon

\* At the start nothing is shown as connected.
LEMMA InitKeepsPromise == Init => Promise!StatusInit
  <1> SUFFICES ASSUME Init PROVE Promise!StatusInit
    OBVIOUS
  <1>1. /\ token \in [Secrets -> InitialTokens]
        /\ flow = [h \in Hosts |-> [s \in Slugs |-> [there |-> TRUE, made |-> 0]]]
        /\ changes = 0
    BY DEF Init, SurroundingsInit
  <1>2. Shown = [p \in Providers |->
                   IF p \in DOMAIN Initial
                   THEN [exists |-> TRUE, spec |-> Initial[p], status |-> Promise!NewStatus]
                   ELSE [exists |-> FALSE, spec |-> CHOOSE spec \in ProviderSpecs[p] : TRUE,
                         status |-> Promise!NewStatus]]
    BY DEF Init, SurroundingsInit, Shown, Published, Object, NewStatus, Promise!NewStatus
  <1> QED BY <1>1, <1>2
       DEF Promise!StatusInit, Promise!SurroundingsInit, Promise!Object, Shown

\* What administrators do is what ProviderStatus has them do.
LEMMA AdministratorsKeepPromise ==
  ASSUME StatusInv, Administrate(NewStatus)
  PROVE  Promise!Administrate(Promise!NewStatus)
  <1> DEFINE Goal == Promise!Administrate(Promise!NewStatus)
  <1> SUFFICES Goal
    OBVIOUS
  <1>0. provider \in [Providers -> Provider]
    BY DEF StatusInv, TypeOK
  <1>1. \A p \in Providers : Shown[p].exists = provider[p].exists /\ Shown[p].spec = provider[p].spec
    BY DEF Shown, Published
  <1>2. ASSUME NEW p \in Providers, EditProvider(p) PROVE Goal
    <2>1. PICK spec \in ProviderSpecs[p] \ {provider[p].spec} :
            provider' = [provider EXCEPT ![p].spec = spec]
      BY <1>2 DEF EditProvider
    <2>2. Shown' = [Shown EXCEPT ![p] = Published([provider[p] EXCEPT !.spec = spec])]
      BY <1>0, <2>1, ShownOne
    <2>3. Published([provider[p] EXCEPT !.spec = spec]) = [Shown[p] EXCEPT !.spec = spec]
      BY <1>0 DEF Shown, Published, Provider
    <2>4. Shown' = [Shown EXCEPT ![p].spec = spec]
      BY <2>2, <2>3
    <2>5. Promise!EditProvider(p)
      BY <1>1, <1>2, <2>4 DEF EditProvider, Change, Promise!EditProvider, Promise!Change, Shown
    <2> QED BY <2>5 DEF Promise!Administrate
  <1>3. ASSUME NEW p \in Providers, DeleteProvider(p) PROVE Goal
    <2>1. Shown' = [Shown EXCEPT ![p] = Published([provider[p] EXCEPT !.exists = FALSE])]
      BY <1>0, <1>3, ShownOne DEF DeleteProvider
    <2>2. Published([provider[p] EXCEPT !.exists = FALSE]) = [Shown[p] EXCEPT !.exists = FALSE]
      <3>1. [provider[p] EXCEPT !.exists = FALSE] =
              [exists |-> FALSE, spec |-> provider[p].spec, status |-> provider[p].status]
        BY <1>0, ObjectExcept DEF Provider
      <3>2. [Shown[p] EXCEPT !.exists = FALSE] =
              [exists |-> FALSE, spec |-> Shown[p].spec, status |-> Shown[p].status]
        BY <1>0, ShownType, ObjectExcept
      <3>3. Shown[p] = Published(provider[p])
        BY DEF Shown
      <3> DEFINE gone == [exists |-> FALSE, spec |-> provider[p].spec,
                          status |-> provider[p].status]
      <3>4. gone.exists = FALSE /\ gone.spec = provider[p].spec /\ gone.status = provider[p].status
        OBVIOUS
      <3> HIDE DEF gone
      <3>5. /\ Shown[p].spec = provider[p].spec
            /\ Shown[p].status = [connected |-> provider[p].status.reason = "APIReachable",
                                  auth |-> provider[p].status.auth,
                                  inval |-> provider[p].status.inval]
        BY <3>3 DEF Published
      <3>6. Published(gone) = [exists |-> FALSE, spec |-> Shown[p].spec, status |-> Shown[p].status]
        BY <3>4, <3>5, Zenon DEF Published
      <3> QED BY <3>1, <3>2, <3>6, Zenon DEF gone
    <2>3. Shown' = [Shown EXCEPT ![p].exists = FALSE]
      BY <2>1, <2>2
    <2>4. Promise!DeleteProvider(p)
      BY <1>1, <1>3, <2>3 DEF DeleteProvider, Change, Promise!DeleteProvider, Promise!Change, Shown
    <2> QED BY <2>4 DEF Promise!Administrate
  <1>4. ASSUME NEW p \in Providers, RecreateProvider(p, NewStatus) PROVE Goal
    <2>1. PICK spec \in ProviderSpecs[p] :
            provider' = [provider EXCEPT ![p] = Object(spec, NewStatus)]
      BY <1>4 DEF RecreateProvider
    <2>2. Shown' = [Shown EXCEPT ![p] = Published(Object(spec, NewStatus))]
      BY <1>0, <2>1, ShownOne
    <2>3. Published(Object(spec, NewStatus)) = Promise!Object(spec, Promise!NewStatus)
      BY DEF Published, Object, NewStatus, Promise!Object, Promise!NewStatus
    <2>4. Promise!RecreateProvider(p, Promise!NewStatus)
      BY <1>1, <1>4, <2>2, <2>3
         DEF RecreateProvider, Change, Promise!RecreateProvider, Promise!Change, Shown
    <2> QED BY <2>4 DEF Promise!Administrate
  <1>5. CASE ChangeToken
    <2>1. Promise!ChangeToken
      BY <1>5 DEF ChangeToken, Change, Promise!ChangeToken, Promise!Change
    <2> QED BY <2>1 DEF Promise!Administrate
  <1>6. CASE ChangeFlow
    <2>1. Promise!ChangeFlow
      BY <1>6 DEF ChangeFlow, Change, Promise!ChangeFlow, Promise!Change
    <2> QED BY <2>1 DEF Promise!Administrate
  <1> QED BY <1>2, <1>3, <1>4, <1>5, <1>6 DEF Administrate

\* What a check publishes is connected with uids of the spec in force, or no
\* longer connected and otherwise as before.
LEMMA WriteKeepsPromise ==
  ASSUME StatusInv, WriteStatus
  PROVE  [Promise!Publish]_(Promise!surroundings)
  <1> DEFINE w == work.name
             status == work.copy.status
             object == provider[w]
  <1>0. UNCHANGED <<token, flow, changes>> /\ stage = "write"
    BY DEF WriteStatus
  <1>1. CASE UNCHANGED provider
    BY <1>0, <1>1 DEF Promise!surroundings
  <1>2. CASE ~UNCHANGED provider
    <2>1. /\ fresh /\ work \in Job
          /\ provider' = [provider EXCEPT ![w].status = status]
      BY <1>2, WriteEffect
    <2>2. /\ w \in Providers /\ status \in Status /\ object \in Provider
          /\ provider \in [Providers -> Provider] /\ object.status \in Status
      BY <2>1 DEF Job, Provider, StatusInv, TypeOK
    <2>3. /\ object.exists /\ object.spec = work.copy.spec
          /\ \/ status.reason = "APIReachable"
             \/ status.auth = object.status.auth /\ status.inval = object.status.inval
      BY <1>0, <2>1 DEF StatusInv, FreshCopies
    <2>4. Shown' = [Shown EXCEPT ![w] = Published([object EXCEPT !.status = status])]
      BY <2>1, <2>2, ShownOne
    <2>5. Published([object EXCEPT !.status = status]) =
            [exists |-> TRUE, spec |-> object.spec,
             status |-> [connected |-> status.reason = "APIReachable",
                         auth |-> status.auth, inval |-> status.inval]]
      BY <2>2, <2>3 DEF Published, Provider
    <2>6. Shown[w] = [exists |-> TRUE, spec |-> object.spec,
                      status |-> [connected |-> object.status.reason = "APIReachable",
                                  auth |-> object.status.auth, inval |-> object.status.inval]]
      BY <2>2, <2>3 DEF Shown, Published, Provider
    <2>s. Shown[w].exists /\ Shown[w].spec = object.spec
      BY <2>6
    <2> HIDE DEF w, status, object
    <2>7. CASE status.reason = "APIReachable"
      <3> DEFINE new == [connected |-> TRUE, auth |-> status.auth, inval |-> status.inval]
      <3>1. /\ status.auth \in KnownUids(object.spec.host, object.spec.auth)
            /\ status.inval \in KnownUids(object.spec.host, object.spec.inval)
        BY <1>0, <2>3, <2>7 DEF StatusInv, LookedUp, status
      <3>2. (status.reason = "APIReachable") = TRUE
        BY <2>7
      <3>3. Published([object EXCEPT !.status = status]) = [Shown[w] EXCEPT !.status = new]
        <4>1. \A any : [Shown[w] EXCEPT !.status = any] =
                [exists |-> Shown[w].exists, spec |-> Shown[w].spec, status |-> any]
          BY <2>2, ShownType, ObjectExcept
        <4>2. Shown[w].exists = TRUE /\ Shown[w].spec = object.spec
          BY <2>6
        <4>3. [Shown[w] EXCEPT !.status = new] =
                [exists |-> TRUE, spec |-> object.spec, status |-> new]
          BY <4>1, <4>2
        <4>4. [connected |-> status.reason = "APIReachable",
               auth |-> status.auth, inval |-> status.inval] = new
          BY <2>7
        <4> HIDE DEF new
        <4> QED BY <2>5, <4>3, <4>4
      <3>4. Shown' = [Shown EXCEPT ![w].status = new]
        BY <2>4, <3>3
      <3>5. \E auth \in KnownUids(Shown[w].spec.host, Shown[w].spec.auth),
               inval \in KnownUids(Shown[w].spec.host, Shown[w].spec.inval) :
              Shown' = [Shown EXCEPT ![w].status =
                          [connected |-> TRUE, auth |-> auth, inval |-> inval]]
        BY <2>s, <3>1, <3>4
      <3>6. Promise!Connect(w)
        BY <1>0, <2>s, <3>5, Zenon DEF Promise!Connect, KnownUids, Shown
      <3> QED BY <2>2, <3>6 DEF Promise!Publish
    <2>8. CASE status.reason # "APIReachable" /\ object.status.reason = "APIReachable"
      <3>1. (status.reason = "APIReachable") = FALSE
        BY <2>8
      <3>2. Shown[w].status.connected
        <4>1. Shown[w].status.connected = (object.status.reason = "APIReachable")
          BY <2>6
        <4> QED BY <2>8, <4>1
      <3> DEFINE old == [connected |-> FALSE, auth |-> status.auth, inval |-> status.inval]
      <3>3. [Shown[w].status EXCEPT !.connected = FALSE] = old
        <4>1. Shown[w].status \in Promise!Status
          BY <2>2, ShownType
        <4>2. [Shown[w].status EXCEPT !.connected = FALSE] =
                [connected |-> FALSE, auth |-> Shown[w].status.auth, inval |-> Shown[w].status.inval]
          BY <4>1, StatusExcept, Zenon
        <4>3. Shown[w].status.auth = status.auth /\ Shown[w].status.inval = status.inval
          BY <2>3, <2>6, <2>8
        <4> QED BY <4>2, <4>3
      <3>4. Published([object EXCEPT !.status = status]) = [Shown[w] EXCEPT !.status = old]
        <4>1. \A any : [Shown[w] EXCEPT !.status = any] =
                [exists |-> Shown[w].exists, spec |-> Shown[w].spec, status |-> any]
          BY <2>2, ShownType, ObjectExcept
        <4>2. Shown[w].exists = TRUE /\ Shown[w].spec = object.spec
          BY <2>6
        <4>3. [Shown[w] EXCEPT !.status = old] =
                [exists |-> TRUE, spec |-> object.spec, status |-> old]
          BY <4>1, <4>2
        <4>4. [connected |-> status.reason = "APIReachable",
               auth |-> status.auth, inval |-> status.inval] = old
          BY <2>8
        <4> HIDE DEF old
        <4> QED BY <2>5, <4>3, <4>4
      <3> HIDE DEF old
      <3>5. Shown' = [Shown EXCEPT ![w].status = old]
        BY <2>4, <3>4
      <3>6. Shown' = [Shown EXCEPT ![w].status.connected = FALSE]
        <4>1. [Shown EXCEPT ![w].status = old] =
                [Shown EXCEPT ![w].status = [Shown[w].status EXCEPT !.connected = FALSE]]
          BY <3>3, Zenon
        <4> QED BY <3>5, <4>1, Zenon
      <3>7. Promise!Disconnect(w)
        BY <1>0, <2>s, <3>2, <3>6, Zenon DEF Promise!Disconnect, Shown
      <3> QED BY <2>2, <3>7 DEF Promise!Publish
    <2>9. CASE status.reason # "APIReachable" /\ object.status.reason # "APIReachable"
      <3>1. Published([object EXCEPT !.status = status]) = Shown[w]
        BY <2>3, <2>5, <2>6, <2>9
      <3>2. Shown' = Shown
        BY <2>2, <2>4, <3>1 DEF Shown
      <3> QED BY <1>0, <3>2 DEF Promise!surroundings, Shown
    <2> QED BY <2>7, <2>8, <2>9
  <1> QED BY <1>1, <1>2

\* Every step maps to one of ProviderStatus or to none.
LEMMA StepKeepsPromise ==
  StatusInv /\ [Next]_vars =>
    [Promise!Publish \/ Promise!Administrate(Promise!NewStatus)]_(Promise!surroundings)
  <1> SUFFICES ASSUME StatusInv, [Next]_vars
               PROVE  [Promise!Publish \/ Promise!Administrate(Promise!NewStatus)]_(Promise!surroundings)
    OBVIOUS
  <1>1. CASE ChangeSurroundings
    BY <1>1, AdministratorsKeepPromise DEF ChangeSurroundings
  <1>2. CASE WriteStatus
    BY <1>2, WriteKeepsPromise
  <1>3. CASE UNCHANGED surroundings
    BY <1>3 DEF surroundings, Promise!surroundings
  <1>4. ChangeSurroundings \/ WriteStatus \/ UNCHANGED surroundings
    BY DEF Next, Reconcile, WatchProvider, WatchSecret, Resync, Start, Restart,
           LookUpAuthorizationFlow, LookUpInvalidationFlow, vars
  <1> QED BY <1>1, <1>2, <1>3, <1>4

\* The controller implements ProviderStatus: whatever was edited, deleted or
\* remade in the middle of a check, a status that says Connected has uids of the
\* flows the spec in force names (authentikprovider_controller.go:115-124).
THEOREM PromiseKept == Spec => KeepsPromise
  BY InitKeepsPromise, StepKeepsPromise, StatusIsOfTheCopy, PTL
     DEF Spec, KeepsPromise, Promise!StatusSpec
=============================================================================
