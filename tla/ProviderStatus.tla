--------------------------- MODULE ProviderStatus ---------------------------
(***************************************************************************)
(* What the status of an AuthentikProvider promises to its reader, the      *)
(* OIDCApplication controller: whether the operator is connected, and the   *)
(* uids of the flows.                                                       *)
(*                                                                          *)
(* At any moment the status may turn to not connected, and the uids then    *)
(* stay; it turns to connected only with uids that belong to the spec of    *)
(* that moment.  So a status is always that of some check in the past,      *)
(* never a mixture of two.                                                  *)
(***************************************************************************)
EXTENDS AuthentikProviders

Status == [connected : BOOLEAN, auth : Uid \union {None}, inval : Uid \union {None}]
NewStatus == [connected |-> FALSE, auth |-> None, inval |-> None]

StatusTypeOK ==
  /\ SurroundingsTypeOK
  /\ provider \in [Providers -> [exists : BOOLEAN, spec : ProviderSpec, status : Status]]

StatusInit == SurroundingsInit(NewStatus)

Disconnect(p) ==
  /\ provider[p].exists /\ provider[p].status.connected
  /\ provider' = [provider EXCEPT ![p].status.connected = FALSE]
  /\ UNCHANGED <<token, flow, changes>>

\* With the flows that the slugs name, or named before.
Connect(p) ==
  LET spec == provider[p].spec
      uids(slug) == {[host |-> spec.host, slug |-> slug, made |-> n] :
                       n \in 0..flow[spec.host][slug].made}
  IN /\ provider[p].exists
     /\ \E auth \in uids(spec.auth), inval \in uids(spec.inval) :
          provider' = [provider EXCEPT ![p].status =
                         [connected |-> TRUE, auth |-> auth, inval |-> inval]]
     /\ UNCHANGED <<token, flow, changes>>

Publish == \E p \in Providers : Connect(p) \/ Disconnect(p)

StatusSpec == StatusInit /\ [][Publish \/ Administrate(NewStatus)]_surroundings

\* Connected says what a check would find now, with the uids it would find.
Reported(p) ==
  provider[p].exists =>
    /\ provider[p].status.connected <=> Reachable(p)
    /\ Reachable(p) => CurrentUids(p)

\* The promise in the long run.
StatusSettles == <>[](\A p \in Providers : Reported(p))
=============================================================================
