------------------------------ MODULE Registry ------------------------------
(***************************************************************************)
(* The tables beside the pool, and the dialer: SOCKS5 proxies and the      *)
(* backends that refer to them, settings, client keys, usage logs and      *)
(* hourly statistics, the models of backends, and the handshake with a     *)
(* proxy.  They share no state, so nothing is gained by interleaving them: *)
(* part says which one moves, and the others stay as they begin.           *)
(***************************************************************************)
EXTENDS Egress, Settings, ClientKeys, UsageLogs, Catalog, Handshake

ASSUME RegistryAssumption ==
  /\ MaxCreated \in Nat /\ MaxKeys \in Nat
  /\ NoProxy \notin Proxy /\ NoBackend \notin Reference
  /\ Direct \notin Dialer /\ NoKey \notin ClientKey
  /\ NoKey \notin Admission

VARIABLE part

Parts == {"egress", "settings", "keys", "logs", "catalog", "handshake"}

vars == <<part, egressVars, settingsVars, keysVars, usageLogsVars,
          catalogVars, handshakeVars>>

TypeOK ==
  /\ part \in Parts
  /\ EgressTypeOK /\ SettingsTypeOK /\ KeysTypeOK
  /\ UsageLogsTypeOK /\ CatalogTypeOK /\ HandshakeTypeOK

Init ==
  /\ part \in Parts
  /\ EgressInit /\ SettingsInit /\ KeysInit
  /\ UsageLogsInit /\ CatalogInit /\ HandshakeInit

MoveEgress ==
  /\ part = "egress" /\ EgressNext
  /\ UNCHANGED <<part, settingsVars, keysVars, usageLogsVars, catalogVars,
                 handshakeVars>>

MoveSettings ==
  /\ part = "settings" /\ SettingsNext
  /\ UNCHANGED <<part, egressVars, keysVars, usageLogsVars, catalogVars,
                 handshakeVars>>

MoveKeys ==
  /\ part = "keys" /\ KeysNext
  /\ UNCHANGED <<part, egressVars, settingsVars, usageLogsVars, catalogVars,
                 handshakeVars>>

MoveUsageLogs ==
  /\ part = "logs" /\ UsageLogsNext
  /\ UNCHANGED <<part, egressVars, settingsVars, keysVars, catalogVars,
                 handshakeVars>>

MoveCatalog ==
  /\ part = "catalog" /\ CatalogNext
  /\ UNCHANGED <<part, egressVars, settingsVars, keysVars, usageLogsVars,
                 handshakeVars>>

MoveHandshake ==
  /\ part = "handshake" /\ HandshakeNext
  /\ UNCHANGED <<part, egressVars, settingsVars, keysVars, usageLogsVars,
                 catalogVars>>

Next ==
  \/ MoveEgress \/ MoveSettings \/ MoveKeys \/ MoveUsageLogs \/ MoveCatalog
  \/ MoveHandshake

Spec == Init /\ [][Next]_vars
=============================================================================
