----------------------------- MODULE Connection -----------------------------
(***************************************************************************)
(* An OIDCApplication and the AuthentikProviders it may refer to.  The two  *)
(* controllers meet only in the status of the AuthentikProviders: the one   *)
(* of the OIDCApplications trusts the Connected condition and the flow uids *)
(* it finds there, in its informer cache.  Of the other controller this     *)
(* module knows what ProviderStatus promises and                            *)
(* AuthentikProviderReconciler keeps.                                       *)
(*                                                                          *)
(* Of the reconcile of an OIDCApplication this module keeps what depends on *)
(* that connection: where the API client comes from, the provider in        *)
(* Authentik with its flows, the status, and the cleanup that needs the     *)
(* connection once more.  OIDCApplicationReconciler has the rest.           *)
(*                                                                          *)
(* Abstracted: the finalizer is there from the start and the cache of the   *)
(* OIDCApplication is current; the provider in Authentik stands for the     *)
(* application, bindings and groups kept there with it, and goes with them  *)
(* in one step; an empty token counts as a refused one; what ends a         *)
(* reconcile early without regard to the connection (a missing HTTPRoute,   *)
(* no redirect URIs) is left out.                                           *)
(***************************************************************************)
EXTENDS ProviderStatus

CONSTANTS
  Foreign,   \* per host how many providers others have there
  MaxFaults  \* bound: failing calls and crashes

ASSUME ForeignAssumption == Foreign \in [Hosts -> Nat]
ASSUME MaxFaultsAssumption == MaxFaults \in Nat

VARIABLES
  cached,             \* the AuthentikProviders in the informer cache
  cachedToken,        \* what it knows of the token Secrets
  app,                \* the OIDCApplication
  appQueued, appTimer,
  appStage, appWork,  \* its running reconcile
  appFresh,           \* its copy has the current resourceVersion
  mine,               \* per host the provider named like the application
  foreign,            \* per host the pks of the other providers
  lastPK,             \* per host the last pk given out
  faults,
  repointed,          \* history: ref or a host has changed under a recorded pk
  unwatched           \* history: something has happened that no event tells of

cacheVars == <<cached, cachedToken>>
applicationVars == <<app, appQueued, appTimer, appStage, appWork, appFresh>>
serverVars == <<mine, foreign, lastPK>>
historyVars == <<repointed, unwatched>>
vars == <<surroundings, cacheVars, applicationVars, serverVars, faults, historyVars>>

\* pk: status.authentik.providerId, 0 while status.authentik is not set; at,
\* for the properties only: the host that gave it out.
Application ==
  [phase : {"live", "deleting", "gone"}, ref : Providers, ready : BOOLEAN,
   pk : Nat, at : Hosts \union {None}]

\* What the API client and the request are made of.
Job == [host : Hosts, token : Tokens,
        auth : Uid \union {None}, inval : Uid \union {None}, pk : Nat]
ApplicationWork == Job \union {None}

OAuthProvider == [pk : Nat, auth : Uid \union {None}, inval : Uid \union {None}]

TypeOK ==
  /\ StatusTypeOK
  /\ cached \in [Providers -> [exists : BOOLEAN, spec : ProviderSpec, status : Status]]
  /\ cachedToken \in [Secrets -> Tokens]
  /\ app \in Application /\ appWork \in ApplicationWork
  /\ appStage \in {"idle", "provision", "ready", "fail", "noSecret", "cleanup", "release"}
  /\ appQueued \in BOOLEAN /\ appTimer \in BOOLEAN /\ appFresh \in BOOLEAN
  /\ mine \in [Hosts -> OAuthProvider \union {None}]
  /\ foreign \in [Hosts -> SUBSET Nat] /\ lastPK \in [Hosts -> Nat]
  /\ faults \in 0..MaxFaults /\ repointed \in BOOLEAN /\ unwatched \in BOOLEAN

Init ==
  /\ StatusInit
  /\ cached = provider /\ cachedToken = token
  /\ \E p \in Providers :
       app = [phase |-> "live", ref |-> p, ready |-> FALSE, pk |-> 0, at |-> None]
  /\ appQueued = TRUE /\ appTimer = FALSE
  /\ appStage = "idle" /\ appWork = None /\ appFresh = FALSE
  /\ mine = [h \in Hosts |-> None]
  /\ foreign = [h \in Hosts |-> 1..Foreign[h]]
  /\ lastPK = Foreign
  /\ faults = 0 /\ repointed = FALSE /\ unwatched = FALSE

Fault == faults < MaxFaults /\ faults' = faults + 1

-----------------------------------------------------------------------------
(* The user. *)

\* An effective write to the object makes every copy of it old and, by For,
\* has it reconciled.
WriteApplication(object) ==
  /\ app' = object
  /\ appQueued' = (appQueued \/ object # app)

UserWrites(object) ==
  /\ Change
  /\ WriteApplication(object)
  /\ appFresh' = FALSE
  /\ UNCHANGED <<provider, token, flow, cacheVars, appTimer, appStage, appWork, serverVars,
                 faults>>

ChangeProviderRef ==
  /\ app.phase # "gone"
  /\ \E p \in Providers \ {app.ref} : UserWrites([app EXCEPT !.ref = p])
  /\ repointed' = (repointed \/ app.pk # 0 \/ appStage # "idle")
  /\ UNCHANGED unwatched

DeleteApplication ==
  /\ app.phase = "live"
  /\ UserWrites([app EXCEPT !.phase = "deleting"])
  /\ UNCHANGED historyVars

-----------------------------------------------------------------------------
(* The administrators, Authentik and the other controller. *)

\* What Authentik does with a provider whose flow is deleted is its own
\* business: it keeps the uid or deletes the provider.
FlowDeleted(h) ==
  /\ mine[h] # None
  /\ \E uid \in {mine[h].auth, mine[h].inval} :
       FlowExists(uid) /\ ~flow'[uid.host][uid.slug].there
  /\ mine' = [mine EXCEPT ![h] = None]

ChangeSurroundings ==
  /\ Administrate(NewStatus)
  /\ UNCHANGED mine \/ \E h \in Hosts : FlowDeleted(h)
  /\ repointed' = (repointed \/ \E p \in Providers :
                                  provider'[p].spec.host # provider[p].spec.host)
  /\ unwatched' = (unwatched \/ <<token, flow>>' # <<token, flow>>)
  /\ UNCHANGED <<cacheVars, applicationVars, foreign, lastPK, faults>>

ReconcileProviders ==
  Publish /\ UNCHANGED <<cacheVars, applicationVars, serverVars, faults, historyVars>>

-----------------------------------------------------------------------------
(* The watches and the timer. *)

\* Mutant: the watch of AuthentikProviders is missing.
NoApplications(p) == FALSE

\* mapProviderToApplications
ProviderToApplications(p) == app.phase # "gone" /\ app.ref = p

WatchProvider(p) ==
  /\ cached[p] # provider[p]
  /\ cached' = [cached EXCEPT ![p] = provider[p]]
  /\ appQueued' = (appQueued \/ ProviderToApplications(p))
  /\ UNCHANGED <<surroundings, cachedToken, app, appTimer, appStage, appWork, appFresh,
                 serverVars, faults, historyVars>>

\* The controller of the OIDCApplications does not watch these Secrets.
WatchSecret(s) ==
  /\ cachedToken[s] # token[s]
  /\ cachedToken' = [cachedToken EXCEPT ![s] = token[s]]
  /\ UNCHANGED <<surroundings, cached, applicationVars, serverVars, faults, historyVars>>

\* RequeueAfter: 30 seconds after a failure, 5 minutes after a good reconcile.
Resync ==
  /\ appTimer
  /\ appTimer' = FALSE
  /\ appQueued' = TRUE
  /\ UNCHANGED <<surroundings, cacheVars, app, appStage, appWork, appFresh, serverVars,
                 faults, historyVars>>

-----------------------------------------------------------------------------
(* Reconcile of the OIDCApplication. *)

Return == appStage' = "idle" /\ appWork' = None /\ appFresh' = FALSE

\* Mutant: the error is only logged.
ReturnNil == Return /\ UNCHANGED <<app, appQueued, appTimer>>

\* An error has the object reconciled again.
ReturnError == Return /\ appQueued' = TRUE /\ UNCHANGED <<app, appTimer>>

Proceed(next, w) ==
  /\ appStage' = next /\ appWork' = w
  /\ UNCHANGED <<app, appTimer, appFresh>>

\* What the reconcile reads through the cache before it calls Authentik.
Read ==
  LET p == cached[app.ref] IN
  [host |-> p.spec.host, token |-> cachedToken[p.spec.secret],
   auth |-> p.status.auth, inval |-> p.status.inval, pk |-> 0]

Connected(p) == cached[p].exists /\ cached[p].status.connected

CredentialsMissing == ~cached[app.ref].exists \/ Read.token = "absent"

\* Mutant: what cannot be reached is taken for cleaned up.
SilentCleanup ==
  IF app.pk = 0 \/ CredentialsMissing THEN "release" ELSE "cleanup"

\* Nothing to clean up when nothing was recorded; an error when the AuthentikProvider
\* or its token Secret cannot be read.
CleanupStage ==
  CASE app.pk = 0 -> "release"
    [] app.pk # 0 /\ CredentialsMissing -> "error"
    [] OTHER -> "cleanup"

\* ProviderNotFound, ProviderNotConnected and SecretNotFound before the rest.
LiveStage ==
  CASE ~Connected(app.ref) -> "fail"
    [] Connected(app.ref) /\ Read.token = "absent" -> "noSecret"
    [] OTHER -> "provision"

\* Mutant: the error is taken for a stage.
BeginAnyway(next) ==
  appStage' = next /\ appWork' = Read /\ appFresh' = TRUE /\ appQueued' = FALSE

Begin(next) ==
  IF next = "error"
  THEN Return /\ UNCHANGED appQueued
  ELSE appStage' = next /\ appWork' = Read /\ appFresh' = TRUE /\ appQueued' = FALSE

StartApplication ==
  /\ appStage = "idle" /\ appQueued
  /\ CASE app.phase = "gone" -> Return /\ appQueued' = FALSE
       [] app.phase = "deleting" -> Begin(CleanupStage)
       [] app.phase = "live" -> Begin(LiveStage)
  /\ UNCHANGED <<surroundings, cacheVars, app, appTimer, serverVars, faults, historyVars>>

\* The API refuses a wrong token and flows it does not know.
Accepted == appWork.token = "valid"
FlowsKnown == appWork.auth # None /\ appWork.inval # None
              /\ FlowExists(appWork.auth) /\ FlowExists(appWork.inval)

\* The groups, the signing key and the mappings come first: a refused token or
\* an outage is found there and recorded.
PreflightFails ==
  /\ appStage = "provision"
  /\ IF Accepted THEN Fault /\ unwatched' = TRUE ELSE UNCHANGED <<faults, unwatched>>
  /\ Proceed("fail", appWork)
  /\ UNCHANGED <<surroundings, cacheVars, appQueued, serverVars, repointed>>

\* ProviderNeedsUpdate, for the flows
ProviderNeedsUpdate(p) == p.auth # appWork.auth \/ p.inval # appWork.inval

Provision ==
  LET h == appWork.host
      old == mine[h]
      pk == IF old = None THEN lastPK[h] + 1 ELSE old.pk
      writes == old = None \/ ProviderNeedsUpdate(old)
  IN /\ appStage = "provision" /\ Accepted
     /\ writes => FlowsKnown
     /\ mine' = IF writes
                THEN [mine EXCEPT ![h] = [pk |-> pk, auth |-> appWork.auth, inval |-> appWork.inval]]
                ELSE mine
     /\ lastPK' = [lastPK EXCEPT ![h] = IF old = None THEN pk ELSE @]
     /\ Proceed("ready", [appWork EXCEPT !.pk = pk])
     /\ UNCHANGED <<surroundings, cacheVars, appQueued, foreign, faults, historyVars>>

\* Not recorded in the status: the error alone is returned.
ProvisionFails ==
  LET old == mine[appWork.host] IN
  /\ appStage = "provision" /\ Accepted
  /\ IF (old = None \/ ProviderNeedsUpdate(old)) /\ ~FlowsKnown
     THEN UNCHANGED faults
     ELSE Fault
  /\ ReturnError
  /\ UNCHANGED <<surroundings, cacheVars, serverVars, historyVars>>

\* Status().Update with the copy in hand; requeued by the timer, or at once.
WriteApplicationStatus(object, withTimer) ==
  /\ \/ /\ appFresh
        /\ app' = object
        /\ appQueued' = (appQueued \/ object # app \/ ~withTimer)
        /\ appTimer' = (appTimer \/ withTimer)
        /\ Return
        /\ UNCHANGED faults
     \/ /\ IF appFresh THEN Fault ELSE UNCHANGED faults
        /\ ReturnError
  /\ UNCHANGED <<surroundings, cacheVars, serverVars, historyVars>>

Record ==
  /\ appStage = "ready"
  /\ WriteApplicationStatus(
       [app EXCEPT !.ready = TRUE, !.pk = appWork.pk, !.at = appWork.host], TRUE)

FailRequeue ==
  /\ appStage = "fail"
  /\ WriteApplicationStatus([app EXCEPT !.ready = FALSE], TRUE)

\* Here the error is returned after the status was written.
SecretNotFound ==
  /\ appStage = "noSecret"
  /\ WriteApplicationStatus([app EXCEPT !.ready = FALSE], FALSE)

\* The pk from the status is deleted at the host the reference leads to now; a
\* 404 is taken for a success.
Cleanup ==
  LET h == appWork.host IN
  /\ appStage = "cleanup" /\ Accepted
  /\ mine' = [mine EXCEPT ![h] =
       IF @ # None THEN IF @.pk = app.pk THEN None ELSE @ ELSE None]
  /\ foreign' = [foreign EXCEPT ![h] = @ \ {app.pk}]
  /\ Proceed("release", appWork)
  /\ UNCHANGED <<surroundings, cacheVars, appQueued, lastPK, faults, historyVars>>

CleanupFails ==
  /\ appStage = "cleanup"
  /\ IF Accepted THEN Fault ELSE UNCHANGED faults
  /\ ReturnError
  /\ UNCHANGED <<surroundings, cacheVars, serverVars, historyVars>>

\* The finalizer is removed, and with it the object.
Release ==
  /\ appStage = "release"
  /\ \/ /\ appFresh
        /\ WriteApplication([app EXCEPT !.phase = "gone"])
        /\ Return
        /\ UNCHANGED <<appTimer, faults>>
     \/ /\ IF appFresh THEN Fault ELSE UNCHANGED faults
        /\ ReturnError
  /\ UNCHANGED <<surroundings, cacheVars, serverVars, historyVars>>

ReconcileApplication ==
  \/ StartApplication
  \/ PreflightFails \/ Provision \/ ProvisionFails
  \/ Record \/ FailRequeue \/ SecretNotFound
  \/ Cleanup \/ CleanupFails \/ Release

-----------------------------------------------------------------------------
(* Crashes. *)

\* The first lists of the informers enqueue every object.
Restart ==
  /\ Fault
  /\ cached' = provider /\ cachedToken' = token
  /\ Return /\ appQueued' = TRUE /\ appTimer' = FALSE
  /\ UNCHANGED <<surroundings, app, serverVars, historyVars>>

Next ==
  \/ ChangeSurroundings \/ ReconcileProviders
  \/ ChangeProviderRef \/ DeleteApplication
  \/ \E p \in Providers : WatchProvider(p)
  \/ \E s \in Secrets : WatchSecret(s)
  \/ Resync
  \/ ReconcileApplication
  \/ Restart

Spec == Init /\ [][Next]_vars

\* The worker and the watches go on.  The timer counts only after something that
\* no event tells of.
FairSpec ==
  /\ Spec
  /\ WF_vars(ReconcileApplication)
  /\ \A p \in Providers : WF_vars(WatchProvider(p))
  /\ \A s \in Secrets : WF_vars(WatchSecret(s))
  /\ WF_vars(unwatched /\ Resync)

-----------------------------------------------------------------------------
(* Properties.  In the long run each rests on the promise of the other       *)
(* controller.                                                               *)

Provisioned ==
  LET spec == provider[app.ref].spec
      m == mine[spec.host]
  IN /\ m # None /\ m.pk = app.pk
     /\ m.auth = FlowBySlug(spec.host, spec.auth)
     /\ m.inval = FlowBySlug(spec.host, spec.inval)

\* Once nobody changes anything the application is Ready if its AuthentikProvider
\* works and not Ready if it does not, and a Ready one has a provider in the
\* Authentik the reference leads to, with the flows that are there now
\* (oidcapplication_controller.go:83-114, 528-541).
ApplicationSettles ==
  StatusSettles =>
    <>[](app.phase = "live" =>
           /\ app.ready <=> Reachable(app.ref)
           /\ app.ready => Provisioned)

\* A deleted application goes away, unless what cleanup needs of its
\* AuthentikProvider is missing (oidcapplication_controller.go:424-450).
DeletionSettles ==
  <>[](app.phase = "deleting" =>
         \/ ~provider[app.ref].exists
         \/ token[provider[app.ref].spec.secret] # "valid")

CleanedUp == mine'[app.at] = None \/ mine'[app.at].pk # app.pk
Leaves == app.phase = "deleting" /\ app'.phase = "gone"

\* As long as the reference and the hosts stay what they were, an application
\* does not go away before the provider recorded in its status, and cleanup
\* deletes nothing that belongs to others (oidcapplication_controller.go:461-466).
CleanupHitsItsOwn ==
  [][/\ Leaves /\ app.pk # 0 /\ ~repointed => CleanedUp
     /\ foreign' # foreign => repointed]_vars

\* What the comment at oidcapplication_controller.go:430-433 promises: the
\* finalizer goes only after the provider recorded in the status.
NothingOrphaned == [][Leaves /\ app.pk # 0 => CleanedUp]_vars

-----------------------------------------------------------------------------
(* The inductive invariant behind CleanupHitsItsOwn, in parts. *)

\* What is the application's own got its pk after all that others have there.
PKsApart ==
  /\ \A h \in Hosts : foreign[h] \subseteq 1..Foreign[h] /\ lastPK[h] >= Foreign[h]
  /\ \A h \in Hosts : mine[h] # None => mine[h].pk > Foreign[h]
  /\ appStage = "ready" => appWork.pk > Foreign[appWork.host]
  /\ app.pk # 0 => app.at \in Hosts /\ app.pk > Foreign[app.at]

\* As long as nothing is repointed cache, request and status mean one host.
OneHost ==
  /\ appStage # "idle" => appWork \in Job
  /\ ~repointed =>
       /\ \A p \in Providers : cached[p].spec.host = provider[p].spec.host
       /\ appStage # "idle" => appWork.host = provider[app.ref].spec.host
       /\ app.pk # 0 => app.at = provider[app.ref].spec.host

\* The finalizer is about to go: what the status records is gone from there.
ReleasedClean ==
  appStage = "release" /\ app.pk # 0 /\ ~repointed =>
    mine[app.at] = None \/ mine[app.at].pk # app.pk

CleanupInv == TypeOK /\ PKsApart /\ OneHost /\ ReleasedClean
=============================================================================
