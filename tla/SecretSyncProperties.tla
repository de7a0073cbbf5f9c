------------------------- MODULE SecretSyncProperties -------------------------
(***************************************************************************)
(* What reconcileSecrets promises to others, to the Secrets' readers and to *)
(* the status.                                                              *)
(***************************************************************************)
EXTENDS SecretSync

OperatorActs == outside' = outside

\* Whatever the caches say, the operator never deletes a Secret it does not
\* control, and never changes one that another resource controls.
ForeignKept ==
  [][ OperatorActs =>
        \A n \in Names : store[n] # None /\ store[n].owner # "app" =>
          /\ store'[n] # None
          /\ store[n].owner = "other" => store'[n] = store[n] ]_vars

Holds(k) == \E n \in Names : Owned(store[n]) /\ store[n].data[k] = "rendered"

\* Where an entry is to be taken over from: the Secret of the desired name if the
\* application controls it, else the one the status names.
Source(obj) ==
  LET desired == ApplicationName(obj.spec) IN
  IF desired # None /\ Owned(store[desired]) THEN desired ELSE obj.secretName

Has(name, k) == name # None /\ Owned(store[name]) /\ store[name].data[k] = "rendered"

\* The caches are right about the object and about the Secrets it refers to.
InView ==
  seenFresh /\ \A n \in {ApplicationName(seen.spec), seen.secretName} \ {None} : Current(n)

\* An entry made of the client secret, which Authentik may never tell again, is
\* found where it is: in the Secret of the desired name or, after a rename, in
\* the one the status names, whatever was written, deleted, failed or taken over
\* by others before (oidcapplication_secrets.go:113-144).
EntryFound ==
  \A k \in Keys :
    object.spec.template[k] = "secret" /\ InView /\ Has(Source(object), k)
      => ApplicationData(seen)[k] = "rendered"

InHand(k) ==
  pc # "idle" /\ loc.object.spec.template[k] = "secret" /\ loc.application[k] = "rendered"

\* An entry made of the client secret that a reconcile has in hand is not lost on
\* the way from one Secret to another, whatever fails or is edited on the way: it
\* is left somewhere, if the cache is right about the Secret it goes to when that
\* is written (oidcapplication_secrets.go:79-96).
EntryKept ==
  [][ \A k \in Keys :
        outside' = 0 /\ InHand(k) /\ loc.sound
        /\ (pc = "writeApplication" => Current(loc.object.spec.name)) /\ Holds(k)
          => Holds(k)' ]_vars

\* The Secrets are exactly those the spec asks for, and the status says so.
InPlace ==
  LET s == object.spec IN
  /\ object.secretName = ApplicationName(s)
  /\ Templated(s) =>
       store[s.name] = [owner |-> "app", role |-> "application", data |->
         [k \in Keys |-> IF s.template[k] = "secret" THEN "rendered" ELSE s.template[k]]]
  /\ s.routes =>
       store[EnvoyName] = [owner |-> "app", role |-> "envoy", data |->
         [NoData EXCEPT ![ClientKey] = "raw"]]
  /\ \A n \in Names \ DesiredNames(s) :
       Owned(store[n]) => store[n].role # "application" /\ n # EnvoyName

\* What Authentik does not tell is in the Secrets it is taken over from.
Retained ==
  LET s == object.spec IN
  /\ \A k \in Keys : s.template[k] = "secret" => Has(Source(object), k)
  /\ s.routes => Owned(store[EnvoyName]) /\ store[EnvoyName].data[ClientKey] = "raw"

Refused == \E n \in DesiredNames(object.spec) : ~Controllable(store[n])

\* Once others are quiet, the Secrets and the status end up as the spec says,
\* unless another resource holds a name or Authentik omits a client secret that
\* is neither in the Secret of the desired name nor in the one the status names:
\* no reconcile with an old cache is the last word, a rename carries what
\* Authentik omits over to the new Secret, a crash between a write, a deletion
\* and the status blocks nothing, and nothing stale is left.
Settles == <>[](Refused \/ (omits /\ ~Retained) \/ InPlace)

-----------------------------------------------------------------------------
(* The inductive invariant behind the safety properties, in parts. *)

\* What the watch has yet to deliver ends in what is there.
CacheCatchesUp ==
  /\ \A n \in Names : Current(n) => cache[n] = store[n]
  /\ \A i \in DOMAIN pending :
       LET n == pending[i].name IN
       (\A j \in DOMAIN pending : j > i => pending[j].name # n) => pending[i].secret = store[n]

\* The running reconcile has a copy of the object and deletes nothing it names.
StageRight ==
  pc # "idle" =>
    /\ loc.object \in Object
    /\ (loc.named \union loc.found) \intersect DesiredNames(loc.object.spec) = {}
    /\ pc = "writeApplication" => Templated(loc.object.spec)
    /\ pc = "writeEnvoy" => loc.object.spec.routes

\* Once written, and from a current copy, the entries in hand are there.
EntriesWritten ==
  pc \in {"writeEnvoy", "listStale", "deleteStale", "record"} /\ loc.sound /\ outside = 0 =>
    \A k \in Keys : InHand(k) =>
      LET secret == store[loc.object.spec.name] IN
      Owned(secret) /\ secret.data[k] = "rendered"

SyncInv == TypeOK /\ CacheCatchesUp /\ StageRight /\ EntriesWritten
=============================================================================
