--------------------------- MODULE Registry_proofs ---------------------------
(***************************************************************************)
(* Proofs about Registry, a part at a time: each part has an inductive     *)
(* invariant of its own, and a step of one part leaves the others' alone.  *)
(* Those of UsageLogs and Handshake have modules of their own.             *)
(***************************************************************************)
EXTENDS Registry, UsageLogs_proofs, Handshake_proofs

-----------------------------------------------------------------------------
(* Egress.  A proxy's id is the number of its insertion, a reference names *)
(* an id that was handed out, and a client dials what its key says.        *)

ProxiesSound ==
  \A p \in Ids : proxies[p] # NoProxy => proxies[p].serial = p /\ p <= created

SoundReference(ref) ==
  ref.proxy # 0 => ref.meant = ref.proxy /\ ref.proxy <= created

TableSound ==
  \A b \in Backends : table[b] # NoBackend => SoundReference(table[b])

WritersSound == \A w \in Writers : SoundReference(writer[w].ref)

ClientOf(address, password) ==
  [key |-> <<address, password>>,
   dial |-> [address |-> address, password |-> password]]

ClientsSound ==
  \A c \in clients : \E a \in Addresses, s \in Passwords : c = ClientOf(a, s)

EgressInv ==
  /\ EgressTypeOK /\ ProxiesSound /\ TableSound /\ WritersSound
  /\ ClientsSound /\ DialsAsRead

USE RegistryAssumption

LEMMA EgressStarts == EgressInit => EgressInv
  BY DEF EgressInit, EgressInv, EgressTypeOK, ProxiesSound, TableSound,
         WritersSound, ClientsSound, DialsAsRead, SoundReference, Ids,
         IdleWriter, WriterType, NoReference, Reference, IdleRequest,
         RequestType

LEMMA CreateProxyKeeps == EgressInv /\ CreateProxy => EgressInv'
  <1> SUFFICES ASSUME EgressInv, CreateProxy PROVE EgressInv'
    OBVIOUS
  <1> USE DEF EgressInv
  <1>1. PICK a \in Addresses, s \in Passwords, enabled \in BOOLEAN :
          proxies' = [proxies EXCEPT ![created + 1] =
            [address |-> a, password |-> s, enabled |-> enabled,
             serial |-> created']]
    BY DEF CreateProxy, NextId
  <1>2. /\ created' = created + 1 /\ created + 1 \in Ids
        /\ created \in Nat /\ created < MaxCreated
    BY DEF CreateProxy, EgressTypeOK, Ids
  <1>3. [address |-> a, password |-> s, enabled |-> enabled,
         serial |-> created'] \in Proxy
    BY <1>2 DEF Proxy, Ids
  <1>4. proxies' \in [Ids -> Proxy \cup {NoProxy}]
    BY <1>1, <1>3 DEF EgressTypeOK
  <1>5. UNCHANGED <<table, writer, request, clients>>
    BY DEF CreateProxy
  <1>6. EgressTypeOK'
    BY <1>2, <1>4, <1>5 DEF EgressTypeOK
  <1>7. ProxiesSound'
    BY <1>1, <1>2 DEF ProxiesSound, EgressTypeOK, Ids
  <1>8. TableSound' /\ WritersSound'
    BY <1>2, <1>5 DEF TableSound, WritersSound, SoundReference, EgressTypeOK,
                      Reference, WriterType
  <1>9. ClientsSound' /\ DialsAsRead'
    BY <1>5 DEF ClientsSound, DialsAsRead
  <1> QED
    BY <1>6, <1>7, <1>8, <1>9

LEMMA UpdateProxyKeeps == EgressInv /\ UpdateProxy => EgressInv'
  <1> SUFFICES ASSUME EgressInv, UpdateProxy PROVE EgressInv'
    OBVIOUS
  <1> USE DEF EgressInv
  <1>1. PICK p \in Ids, a \in Addresses, s \in Passwords,
             enabled \in BOOLEAN :
          /\ proxies[p] # NoProxy
          /\ proxies' = [proxies EXCEPT ![p] =
               [address |-> a, password |-> s, enabled |-> enabled,
                serial |-> proxies[p].serial]]
    BY DEF UpdateProxy
  <1>2. UNCHANGED <<created, table, writer, request, clients>>
    BY DEF UpdateProxy
  <1>3. [address |-> a, password |-> s, enabled |-> enabled,
         serial |-> proxies[p].serial] \in Proxy
    BY <1>1 DEF Proxy, EgressTypeOK
  <1>4. proxies' \in [Ids -> Proxy \cup {NoProxy}]
    BY <1>1, <1>3 DEF EgressTypeOK
  <1>5. EgressTypeOK'
    BY <1>2, <1>4 DEF EgressTypeOK
  <1>6. ProxiesSound'
    BY <1>1, <1>2 DEF ProxiesSound, EgressTypeOK
  <1>7. TableSound' /\ WritersSound' /\ ClientsSound' /\ DialsAsRead'
    BY <1>2 DEF TableSound, WritersSound, ClientsSound, DialsAsRead,
                SoundReference
  <1> QED
    BY <1>5, <1>6, <1>7

LEMMA DeleteProxyKeeps == EgressInv /\ DeleteProxy => EgressInv'
  <1> SUFFICES ASSUME EgressInv, DeleteProxy PROVE EgressInv'
    OBVIOUS
  <1> USE DEF EgressInv
  <1>1. PICK p \in Ids :
          /\ proxies' = [proxies EXCEPT ![p] = NoProxy]
          /\ table' = [b \in Backends |->
               IF table[b] # NoBackend /\ table[b].proxy = p
               THEN NoReference ELSE table[b]]
    BY DEF DeleteProxy, Unbound
  <1>2. UNCHANGED <<created, writer, request, clients>>
    BY DEF DeleteProxy
  <1>3. proxies' \in [Ids -> Proxy \cup {NoProxy}]
    BY <1>1 DEF EgressTypeOK
  <1>4. NoReference \in Reference
    BY DEF NoReference, Reference
  <1>5. table' \in [Backends -> Reference \cup {NoBackend}]
    BY <1>1, <1>4 DEF EgressTypeOK
  <1>6. EgressTypeOK'
    BY <1>2, <1>3, <1>5 DEF EgressTypeOK
  <1>7. ProxiesSound'
    BY <1>1, <1>2 DEF ProxiesSound, EgressTypeOK
  <1>8. TableSound'
    BY <1>1, <1>2 DEF TableSound, SoundReference, NoReference
  <1>9. WritersSound' /\ ClientsSound' /\ DialsAsRead'
    BY <1>2 DEF WritersSound, ClientsSound, DialsAsRead, SoundReference
  <1> QED
    BY <1>6, <1>7, <1>8, <1>9

LEMMA RestartEgressKeeps == EgressInv /\ RestartEgress => EgressInv'
  <1> SUFFICES ASSUME EgressInv, RestartEgress PROVE EgressInv'
    OBVIOUS
  <1>1. IdleWriter \in WriterType /\ IdleRequest \in RequestType
    BY DEF IdleWriter, WriterType, NoReference, Reference, IdleRequest,
           RequestType
  <1> QED
    BY <1>1 DEF EgressInv, RestartEgress, EgressTypeOK, ProxiesSound,
         TableSound, WritersSound, ClientsSound, DialsAsRead, SoundReference,
         IdleWriter, NoReference, IdleRequest

\* A reference that is accepted is one of the invariant's.
LEMMA ValidIsSound ==
  ASSUME EgressInv, NEW ref \in Reference, ValidReference(ref)
  PROVE  SoundReference(ref)
  BY DEF EgressInv, ValidReference, SoundReference, NoReference, ProxiesSound,
         Ids

\* A handler that takes a sound reference for existing names.
LEMMA TakesKeeps ==
  ASSUME EgressInv, NEW w \in Writers, NEW op \in {"insert", "update"},
         NEW on \in SUBSET Backends, NEW ref \in Reference,
         SoundReference(ref), Takes(w, op, on, ref)
  PROVE  EgressInv'
  <1> USE DEF EgressInv
  <1>1. /\ writer' = [writer EXCEPT ![w] = [op |-> op, on |-> on, ref |-> ref]]
        /\ UNCHANGED <<proxies, created, table, request, clients>>
    BY DEF Takes
  <1>2. [op |-> op, on |-> on, ref |-> ref] \in WriterType
    BY DEF WriterType
  <1>3. writer' \in [Writers -> WriterType]
    BY <1>1, <1>2 DEF EgressTypeOK
  <1>4. EgressTypeOK'
    BY <1>1, <1>3 DEF EgressTypeOK
  <1>5. WritersSound'
    BY <1>1 DEF WritersSound, SoundReference, EgressTypeOK
  <1>6. ProxiesSound' /\ TableSound' /\ ClientsSound' /\ DialsAsRead'
    BY <1>1 DEF ProxiesSound, TableSound, ClientsSound, DialsAsRead,
                SoundReference
  <1> QED
    BY <1>4, <1>5, <1>6

LEMMA CheckCreateKeeps ==
  ASSUME EgressInv, NEW w \in Writers, CheckCreate(w)
  PROVE  EgressInv'
  <1>1. PICK b \in Backends, ref \in Reference :
          ValidReference(ref) /\ Takes(w, "insert", {b}, ref)
    BY DEF CheckCreate
  <1> QED
    BY <1>1, ValidIsSound, TakesKeeps

LEMMA CheckEditKeeps ==
  ASSUME EgressInv, NEW w \in Writers, CheckEdit(w)
  PROVE  EgressInv'
  <1>1. PICK b \in Backends, ref \in Reference :
          ValidReference(ref) /\ Takes(w, "update", {b}, ref)
    BY DEF CheckEdit
  <1> QED
    BY <1>1, ValidIsSound, TakesKeeps

LEMMA CopyRowKeeps ==
  ASSUME EgressInv, NEW w \in Writers, CopyRow(w)
  PROVE  EgressInv'
  <1>1. PICK b \in Backends :
          table[b] # NoBackend /\ Takes(w, "update", {b}, table[b])
    BY DEF CopyRow
  <1>2. table[b] \in Reference /\ SoundReference(table[b])
    BY <1>1 DEF EgressInv, EgressTypeOK, TableSound
  <1> QED
    BY <1>1, <1>2, TakesKeeps

LEMMA CheckImportKeeps ==
  ASSUME EgressInv, NEW w \in Writers, CheckImport(w)
  PROVE  EgressInv'
  <1>1. PICK on \in SUBSET Backends, ref \in Reference :
          ValidReference(ref) /\ Takes(w, "insert", on, ref)
    BY DEF CheckImport
  <1> QED
    BY <1>1, ValidIsSound, TakesKeeps

\* A writer that is done, with the rows of some names replaced by its own.
LEMMA WritesKeep ==
  ASSUME EgressInv, NEW w \in Writers, Done(w), NEW on \in SUBSET Backends,
         table' = Written(w, on) \/ UNCHANGED table
  PROVE  EgressInv'
  <1> USE DEF EgressInv
  <1>1. /\ writer' = [writer EXCEPT ![w] = IdleWriter]
        /\ UNCHANGED <<proxies, created, request, clients>>
    BY DEF Done
  <1>2. IdleWriter \in WriterType /\ SoundReference(IdleWriter.ref)
    BY DEF IdleWriter, WriterType, NoReference, Reference, SoundReference
  <1>3. writer' \in [Writers -> WriterType]
    BY <1>1, <1>2 DEF EgressTypeOK
  <1>4. writer[w].ref \in Reference
    BY DEF EgressTypeOK, WriterType
  <1>5. table' \in [Backends -> Reference \cup {NoBackend}]
    BY <1>4 DEF EgressTypeOK, Written
  <1>6. EgressTypeOK'
    BY <1>1, <1>3, <1>5 DEF EgressTypeOK
  <1>7. WritersSound'
    BY <1>1, <1>2 DEF WritersSound, SoundReference, EgressTypeOK
  <1>8. TableSound'
    BY <1>1 DEF TableSound, WritersSound, SoundReference, Written, EgressTypeOK
  <1>9. ProxiesSound' /\ ClientsSound' /\ DialsAsRead'
    BY <1>1 DEF ProxiesSound, ClientsSound, DialsAsRead
  <1> QED
    BY <1>6, <1>7, <1>8, <1>9

LEMMA WriterKeeps ==
  ASSUME EgressInv, NEW w \in Writers,
         WriteRow(w) \/ InsertRows(w) \/ GiveUp(w)
  PROVE  EgressInv'
  <1>1. writer[w].on \in SUBSET Backends
    BY DEF EgressInv, EgressTypeOK, WriterType
  <1>2. Done(w) /\ (table' = Written(w, writer[w].on) \/ UNCHANGED table)
    BY DEF WriteRow, InsertRows, Inserted, GiveUp
  <1> QED
    BY <1>1, <1>2, WritesKeep

\* A step of a request that leaves the clients sound and dials as was read.
LEMMA RequestKeeps ==
  ASSUME EgressInv, NEW r \in Requests, NEW new \in RequestType,
         request' = [request EXCEPT ![r] = new],
         UNCHANGED <<proxies, created, table, writer>>,
         ClientsSound',
         new.at = "dialled" =>
           /\ new.dial = Direct <=> new.ref = 0
           /\ new.dial # Direct =>
                /\ new.proxy # NoProxy /\ new.proxy.enabled
                /\ new.dial = [address |-> new.proxy.address,
                               password |-> new.proxy.password]
  PROVE  EgressInv'
  <1> USE DEF EgressInv
  <1>1. request' \in [Requests -> RequestType]
    BY DEF EgressTypeOK
  <1>2. \A c \in clients' : c.dial \in Dialer
    BY DEF ClientsSound, ClientOf, Dialer
  <1>3. EgressTypeOK'
    BY <1>1, <1>2 DEF EgressTypeOK
  <1>4. \A q \in Requests : request'[q] = IF q = r THEN new ELSE request[q]
    BY DEF EgressTypeOK
  <1>5. DialsAsRead'
    BY <1>4 DEF DialsAsRead
  <1>6. ProxiesSound' /\ TableSound' /\ WritersSound'
    BY DEF ProxiesSound, TableSound, WritersSound, SoundReference
  <1> QED
    BY <1>3, <1>5, <1>6

LEMMA ReadBackendKeeps ==
  ASSUME EgressInv, NEW r \in Requests, ReadBackend(r)
  PROVE  EgressInv'
  <1>1. PICK b \in Backends :
          /\ table[b] # NoBackend
          /\ request' = [request EXCEPT ![r] =
               [at |-> "read", ref |-> table[b].proxy, dial |-> Direct,
                proxy |-> IF table[b].proxy \in Ids
                          THEN proxies[table[b].proxy] ELSE NoProxy]]
          /\ UNCHANGED <<proxies, created, table, writer, clients>>
    BY DEF ReadBackend
  <1> DEFINE ref == table[b].proxy
             joined == IF ref \in Ids THEN proxies[ref] ELSE NoProxy
             new == [at |-> "read", ref |-> ref, dial |-> Direct,
                     proxy |-> joined]
  <1>2. ref \in 0 .. MaxCreated /\ joined \in Proxy \cup {NoProxy}
    BY <1>1 DEF EgressInv, EgressTypeOK, Reference
  <1>3. new \in RequestType
    BY <1>2 DEF RequestType
  <1>4. ClientsSound'
    BY <1>1 DEF EgressInv, ClientsSound
  <1>5. request' = [request EXCEPT ![r] = new]
    BY <1>1
  <1>6. new.at # "dialled"
    OBVIOUS
  <1> HIDE DEF new
  <1> QED
    BY <1>1, <1>3, <1>4, <1>5, <1>6, RequestKeeps

\* What a dialled request has become.
LEMMA DialledRequest ==
  ASSUME EgressInv, NEW r \in Requests, NEW dial \in Dialer \cup {Direct},
         Dials(r, dial)
  PROVE  \E new \in RequestType :
           /\ request' = [request EXCEPT ![r] = new]
           /\ new.at = "dialled" /\ new.dial = dial
           /\ new.ref = request[r].ref /\ new.proxy = request[r].proxy
  <1> DEFINE new == [request[r] EXCEPT !.at = "dialled", !.dial = dial]
  <1>1. request[r] \in RequestType
    BY DEF EgressInv, EgressTypeOK
  <1>2. /\ new.at = "dialled" /\ new.dial = dial
        /\ new.ref = request[r].ref /\ new.proxy = request[r].proxy
    BY <1>1 DEF RequestType
  <1>3. new \in RequestType
    BY <1>1 DEF RequestType
  <1>4. request' = [request EXCEPT ![r] = new]
    BY DEF Dials, EgressInv, EgressTypeOK
  <1> HIDE DEF new
  <1> QED
    BY <1>2, <1>3, <1>4

LEMMA DialDirectKeeps ==
  ASSUME EgressInv, NEW r \in Requests, DialDirect(r)
  PROVE  EgressInv'
  <1>1. PICK new \in RequestType :
          /\ request' = [request EXCEPT ![r] = new]
          /\ new.at = "dialled" /\ new.dial = Direct
          /\ new.ref = request[r].ref /\ new.proxy = request[r].proxy
    BY DialledRequest DEF DialDirect
  <1>2. ClientsSound' /\ UNCHANGED <<proxies, created, table, writer>>
    BY DEF EgressInv, ClientsSound, DialDirect
  <1>3. request[r].ref = 0
    BY DEF DialDirect
  <1> QED
    BY <1>1, <1>2, <1>3, RequestKeeps

\* The client of the cache or a new one: it dials what the proxy says.
LEMMA ClientForDials ==
  ASSUME EgressInv, NEW proxy \in Proxy
  PROVE  ClientFor(proxy) = ClientOf(proxy.address, proxy.password)
  <1> DEFINE cached == {c \in clients : c.key = Key(proxy)}
  <1>1. \A c \in cached : c = ClientOf(proxy.address, proxy.password)
    BY DEF EgressInv, ClientsSound, ClientOf, Key
  <1>2. CASE cached = {}
    BY <1>2 DEF ClientFor, ClientOf, Key
  <1>3. CASE cached # {}
    <2>1. (CHOOSE c \in cached : TRUE) \in cached
      BY <1>3
    <2>2. ClientFor(proxy) = CHOOSE c \in cached : TRUE
      BY <1>3 DEF ClientFor
    <2> QED
      BY <1>1, <2>1, <2>2
  <1> QED
    BY <1>2, <1>3

LEMMA DialProxyKeeps ==
  ASSUME EgressInv, NEW r \in Requests, DialProxy(r)
  PROVE  EgressInv'
  <1> DEFINE proxy == request[r].proxy
             client == ClientOf(proxy.address, proxy.password)
  <1>1. proxy \in Proxy /\ proxy # NoProxy /\ proxy.enabled
    BY DEF DialProxy, Usable, EgressInv, EgressTypeOK, RequestType
  <1>2. ClientFor(proxy) = client
    BY <1>1, ClientForDials
  <1>3. clients' = clients \cup {client} /\ Dials(r, client.dial)
    BY <1>2 DEF DialProxy
  <1>4. /\ client.dial \in Dialer
        /\ client.dial = [address |-> proxy.address, password |-> proxy.password]
    BY <1>1 DEF ClientOf, Dialer, Proxy
  <1>5. ClientsSound'
    BY <1>1, <1>3 DEF EgressInv, ClientsSound, Proxy
  <1>6. PICK new \in RequestType :
          /\ request' = [request EXCEPT ![r] = new]
          /\ new.at = "dialled" /\ new.dial = client.dial
          /\ new.ref = request[r].ref /\ new.proxy = proxy
    BY <1>3, <1>4, DialledRequest
  <1>7. request[r].ref # 0 /\ UNCHANGED <<proxies, created, table, writer>>
    BY DEF DialProxy
  <1>8. client.dial # Direct
    BY <1>4
  <1> HIDE DEF client
  <1> QED
    BY <1>1, <1>4, <1>5, <1>6, <1>7, <1>8, RequestKeeps

LEMMA EndKeeps ==
  ASSUME EgressInv, NEW r \in Requests, RefuseDial(r) \/ EndAttempt(r)
  PROVE  EgressInv'
  <1>1. /\ request' = [request EXCEPT ![r] = IdleRequest]
        /\ UNCHANGED <<proxies, created, table, writer, clients>>
    BY DEF RefuseDial, EndAttempt
  <1>2. IdleRequest \in RequestType /\ IdleRequest.at # "dialled"
    BY DEF IdleRequest, RequestType
  <1>3. ClientsSound'
    BY <1>1 DEF EgressInv, ClientsSound
  <1> QED
    BY <1>1, <1>2, <1>3, RequestKeeps

LEMMA EgressKeeps == EgressInv /\ EgressNext => EgressInv'
  <1> SUFFICES ASSUME EgressInv, EgressNext PROVE EgressInv'
    OBVIOUS
  <1>1. CASE CreateProxy \/ UpdateProxy \/ DeleteProxy \/ RestartEgress
    BY <1>1, CreateProxyKeeps, UpdateProxyKeeps, DeleteProxyKeeps,
       RestartEgressKeeps
  <1>2. CASE \E w \in Writers :
               \/ CheckCreate(w) \/ CheckEdit(w) \/ CopyRow(w)
               \/ CheckImport(w)
               \/ WriteRow(w) \/ InsertRows(w) \/ GiveUp(w)
    BY <1>2, CheckCreateKeeps, CheckEditKeeps, CopyRowKeeps,
       CheckImportKeeps, WriterKeeps
  <1>3. CASE \E r \in Requests :
               \/ ReadBackend(r) \/ DialDirect(r) \/ DialProxy(r)
               \/ RefuseDial(r) \/ EndAttempt(r)
    BY <1>3, ReadBackendKeeps, DialDirectKeeps, DialProxyKeeps, EndKeeps
  <1> QED
    BY <1>1, <1>2, <1>3 DEF EgressNext

\* A row that is there has the id it was inserted with.
LEMMA RefsSound == EgressInv => RefsKeepTheirProxy
  <1> SUFFICES ASSUME EgressInv,
                      NEW ref \in References \cup {writer[w].ref : w \in Writers},
                      ref.proxy # 0, proxies[ref.proxy] # NoProxy
               PROVE  proxies[ref.proxy].serial = ref.meant
    BY DEF RefsKeepTheirProxy
  <1>1. SoundReference(ref)
    BY DEF EgressInv, TableSound, WritersSound, References
  <1>2. ref \in Reference
    BY DEF EgressInv, EgressTypeOK, References, WriterType
  <1>3. ref.proxy \in Ids
    BY <1>2 DEF Reference, Ids
  <1> QED
    BY <1>1, <1>3 DEF EgressInv, ProxiesSound, SoundReference

LEMMA EgressStays == EgressInv /\ UNCHANGED egressVars => EgressInv'
  BY DEF EgressInv, egressVars, EgressTypeOK, ProxiesSound, TableSound,
         WritersSound, ClientsSound, DialsAsRead, SoundReference

\* Only the UPDATE or the INSERT of a writer changes both the table and a
\* writer.
LEMMA ImportStep ==
  ASSUME EgressInv, EgressNext, NEW w \in Writers, writer[w].op = "insert",
         writer'[w] # writer[w], table' # table
  PROVE  \A b \in writer[w].on : table[b] = NoBackend /\ table'[b] # NoBackend
  <1>1. PICK v \in Writers : WriteRow(v) \/ InsertRows(v)
    BY DEF EgressNext, CreateProxy, UpdateProxy, DeleteProxy, RestartEgress,
           CheckCreate, CheckEdit, CopyRow, CheckImport, Takes, GiveUp,
           ReadBackend, DialDirect, DialProxy, RefuseDial, EndAttempt
  <1>2. writer' = [writer EXCEPT ![v] = IdleWriter]
    BY <1>1 DEF WriteRow, InsertRows, Done
  <1>3. writer \in [Writers -> WriterType]
    BY DEF EgressInv, EgressTypeOK
  <1>4. v = w
    BY <1>2, <1>3
  <1>5. table' = Inserted(w)
    BY <1>1, <1>4 DEF WriteRow, InsertRows
  <1>6. /\ \A b \in writer[w].on : table[b] = NoBackend
        /\ table' = Written(w, writer[w].on)
    BY <1>5 DEF Inserted
  <1>7. writer[w].ref \in Reference /\ writer[w].on \in SUBSET Backends
    BY <1>3 DEF WriterType
  <1> QED
    BY <1>6, <1>7 DEF Written

-----------------------------------------------------------------------------
(* Client keys.  An admission names an id that was handed out.             *)

KeysSound == \A k \in KeyIds : keys[k] # NoKey => k <= minted

Admissions == usage \cup ({caller[c] : c \in Callers} \ {NoKey})

AdmissionsSound == \A u \in Admissions : u.id <= minted

KeysInv == KeysTypeOK /\ KeysSound /\ AdmissionsSound /\ UsageIsTheKeys

LEMMA KeysStart == KeysInit => KeysInv
  BY DEF KeysInit, KeysInv, KeysTypeOK, KeysSound, AdmissionsSound,
         Admissions, UsageIsTheKeys, KeyIds

LEMMA CreateKeyKeeps == KeysInv /\ CreateKey => KeysInv'
  <1> SUFFICES ASSUME KeysInv, CreateKey PROVE KeysInv'
    OBVIOUS
  <1> USE DEF KeysInv
  <1>1. PICK token \in Tokens, enabled \in BOOLEAN :
          /\ \A k \in KeyIds : keys[k] # NoKey => keys[k].token # token
          /\ keys' = [keys EXCEPT ![minted + 1] =
               [token |-> token, enabled |-> enabled]]
    BY DEF CreateKey, NextKeyId
  <1>2. /\ minted' = minted + 1 /\ minted + 1 \in KeyIds /\ minted \in Nat
        /\ UNCHANGED <<caller, editor, usage>>
    BY DEF CreateKey, KeysTypeOK, KeyIds
  <1> DEFINE new == [token |-> token, enabled |-> enabled]
  <1>3. new \in ClientKey /\ new.token = token
    BY DEF ClientKey
  <1>4. \A k \in KeyIds : keys'[k] = IF k = minted + 1 THEN new ELSE keys[k]
    BY <1>1, <1>2 DEF KeysTypeOK
  <1>5. keys' \in [KeyIds -> ClientKey \cup {NoKey}]
    BY <1>1, <1>3 DEF KeysTypeOK
  <1> HIDE DEF new
  <1>6. KeysTypeOK'
    BY <1>2, <1>5 DEF KeysTypeOK, KeyIds
  <1>7. KeysSound'
    BY <1>2, <1>4 DEF KeysSound, KeyIds
  <1>8. Admissions' = Admissions /\ Admissions \subseteq Admission
    BY <1>2 DEF Admissions, KeysTypeOK
  <1>9. \A u \in Admissions : u.id \in KeyIds /\ u.id <= minted
    BY <1>8 DEF Admission, AdmissionsSound
  <1>10. AdmissionsSound'
    BY <1>2, <1>8, <1>9 DEF AdmissionsSound, KeyIds
  <1>11. \A u \in Admissions : keys'[u.id] # NoKey => keys'[u.id].token = u.token
    BY <1>2, <1>4, <1>9 DEF UsageIsTheKeys, Admissions, KeyIds
  <1>12. \A j, k \in KeyIds :
           keys'[j] # NoKey /\ keys'[k] # NoKey
             /\ keys'[j].token = keys'[k].token => j = k
    BY <1>1, <1>3, <1>4 DEF UsageIsTheKeys
  <1>13. UsageIsTheKeys'
    BY <1>8, <1>11, <1>12 DEF UsageIsTheKeys, Admissions
  <1> QED
    BY <1>6, <1>7, <1>10, <1>13

\* What most steps have in common: each key is gone or has its old token,
\* and each admission is an old one or that of a key in the table.
KeysStep ==
  /\ KeysTypeOK' /\ UNCHANGED minted
  /\ \A k \in KeyIds :
       keys'[k] # NoKey => keys[k] # NoKey /\ keys'[k].token = keys[k].token
  /\ \A u \in Admissions' :
       u \in Admissions \/ (keys[u.id] # NoKey /\ keys[u.id].token = u.token)

LEMMA KeysStepKeeps == KeysInv /\ KeysStep => KeysInv'
  <1> SUFFICES ASSUME KeysInv, KeysStep PROVE KeysInv'
    OBVIOUS
  <1> USE DEF KeysInv, KeysStep
  <1>1. KeysSound'
    BY DEF KeysSound
  <1>2. \A u \in Admissions' : u.id \in KeyIds
    BY DEF Admissions, KeysTypeOK, Admission
  <1>3. AdmissionsSound'
    BY <1>2 DEF AdmissionsSound, KeysSound
  <1>4. \A u \in Admissions' : keys[u.id] # NoKey => keys[u.id].token = u.token
    BY DEF UsageIsTheKeys, Admissions
  <1>5. \A u \in Admissions' :
          keys'[u.id] # NoKey => keys'[u.id].token = u.token
    BY <1>2, <1>4
  <1>6. \A j, k \in KeyIds :
          keys'[j] # NoKey /\ keys'[k] # NoKey
            /\ keys'[j].token = keys'[k].token => j = k
    BY DEF UsageIsTheKeys
  <1>7. UsageIsTheKeys'
    BY <1>5, <1>6 DEF UsageIsTheKeys, Admissions
  <1> QED
    BY <1>1, <1>3, <1>7

LEMMA WriteKeyKeeps ==
  ASSUME KeysInv, NEW e \in Editors, WriteKey(e)
  PROVE  KeysInv'
  <1> USE DEF KeysInv
  <1>1. PICK new \in ClientKey :
          keys' = IF keys[editor[e]] = NoKey THEN keys
                  ELSE [keys EXCEPT ![editor[e]] =
                          UpdatedKey(keys[editor[e]], new)]
    BY DEF WriteKey
  <1>2. /\ editor' = [editor EXCEPT ![e] = 0]
        /\ UNCHANGED <<minted, caller, usage>>
    BY DEF WriteKey
  <1>3. \A old \in ClientKey :
          /\ UpdatedKey(old, new) \in ClientKey
          /\ UpdatedKey(old, new).token = old.token
    BY DEF UpdatedKey, ClientKey
  <1>4. editor[e] \in KeyIds
    BY DEF WriteKey, KeysTypeOK, KeyIds
  <1>5. keys[editor[e]] # NoKey => keys[editor[e]] \in ClientKey
    BY <1>4 DEF KeysTypeOK
  <1>6. keys' \in [KeyIds -> ClientKey \cup {NoKey}]
    BY <1>1, <1>3, <1>5 DEF KeysTypeOK
  <1>7. \A k \in KeyIds :
          keys'[k] # NoKey => keys[k] # NoKey /\ keys'[k].token = keys[k].token
    BY <1>1, <1>3, <1>5 DEF KeysTypeOK
  <1>8. editor' \in [Editors -> 0 .. MaxKeys]
    BY <1>2 DEF KeysTypeOK
  <1>9. KeysTypeOK'
    BY <1>2, <1>6, <1>8 DEF KeysTypeOK
  <1>10. Admissions' = Admissions
    BY <1>2 DEF Admissions
  <1> QED
    BY <1>2, <1>7, <1>9, <1>10, KeysStepKeeps DEF KeysStep

LEMMA DeleteKeyKeeps == KeysInv /\ DeleteKey => KeysInv'
  <1> SUFFICES ASSUME KeysInv, DeleteKey PROVE KeysInv'
    OBVIOUS
  <1>1. PICK k \in KeyIds : keys' = [keys EXCEPT ![k] = NoKey]
    BY DEF DeleteKey
  <1>2. UNCHANGED <<minted, caller, editor, usage>>
    BY DEF DeleteKey
  <1>3. KeysTypeOK'
    BY <1>1, <1>2 DEF KeysInv, KeysTypeOK
  <1>4. \A j \in KeyIds :
          keys'[j] # NoKey => keys[j] # NoKey /\ keys'[j].token = keys[j].token
    BY <1>1 DEF KeysInv, KeysTypeOK
  <1>5. Admissions' = Admissions
    BY <1>2 DEF Admissions
  <1> QED
    BY <1>2, <1>3, <1>4, <1>5, KeysStepKeeps DEF KeysStep

LEMMA AuthenticateKeeps ==
  ASSUME KeysInv, NEW c \in Callers, Authenticate(c)
  PROVE  KeysInv'
  <1>1. PICK k \in KeyIds :
          /\ keys[k] # NoKey
          /\ caller' = [caller EXCEPT ![c] = [id |-> k, token |-> keys[k].token]]
          /\ UNCHANGED <<keys, minted, editor, usage>>
    BY DEF Authenticate
  <1> DEFINE new == [id |-> k, token |-> keys[k].token]
  <1>2. keys[k].token \in Tokens
    BY <1>1 DEF KeysInv, KeysTypeOK, ClientKey
  <1>3. new \in Admission /\ new.id = k /\ new.token = keys[k].token
    BY <1>2 DEF Admission
  <1>4. caller' \in [Callers -> Admission \cup {NoKey}]
    BY <1>1, <1>3 DEF KeysInv, KeysTypeOK
  <1>5. KeysTypeOK'
    BY <1>1, <1>4 DEF KeysInv, KeysTypeOK
  <1>6. \A u \in Admissions' : u \in Admissions \/ u = new
    BY <1>1 DEF Admissions, KeysInv, KeysTypeOK
  <1> HIDE DEF new
  <1> QED
    BY <1>1, <1>3, <1>5, <1>6, KeysStepKeeps DEF KeysStep

\* Steps that admit nobody and change no key.
LEMMA KeyReadersKeep ==
  ASSUME KeysInv,
         \/ \E c \in Callers : LogUsage(c)
         \/ \E e \in Editors : ReadKey(e)
         \/ RestartKeys
  PROVE  KeysInv'
  <1> USE DEF KeysInv
  <1>1. UNCHANGED <<keys, minted>>
    BY DEF LogUsage, ReadKey, RestartKeys
  <1>2. CASE \E c \in Callers : LogUsage(c)
    <2>1. PICK c \in Callers : LogUsage(c)
      BY <1>2
    <2>2. caller[c] \in Admission
      BY <2>1 DEF LogUsage, KeysTypeOK
    <2>3. KeysTypeOK'
      BY <2>1, <2>2 DEF LogUsage, KeysTypeOK
    <2>4. Admissions' \subseteq Admissions
      BY <2>1 DEF LogUsage, Admissions, KeysTypeOK
    <2> QED
      BY <1>1, <2>3, <2>4, KeysStepKeeps DEF KeysStep
  <1>3. CASE \E e \in Editors : ReadKey(e)
    <2>1. PICK e \in Editors, k \in KeyIds :
            /\ editor' = [editor EXCEPT ![e] = k]
            /\ UNCHANGED <<keys, minted, caller, usage>>
      BY <1>3 DEF ReadKey
    <2>2. k \in 0 .. MaxKeys
      BY DEF KeyIds
    <2>3. KeysTypeOK'
      BY <2>1, <2>2 DEF KeysTypeOK
    <2>4. Admissions' = Admissions
      BY <2>1 DEF Admissions
    <2> QED
      BY <1>1, <2>3, <2>4, KeysStepKeeps DEF KeysStep
  <1>4. CASE RestartKeys
    <2>1. KeysTypeOK'
      BY <1>4 DEF RestartKeys, KeysTypeOK
    <2>2. Admissions' \subseteq Admissions
      BY <1>4 DEF RestartKeys, Admissions
    <2> QED
      BY <1>1, <2>1, <2>2, KeysStepKeeps DEF KeysStep
  <1> QED
    BY <1>2, <1>3, <1>4

LEMMA KeysKeep == KeysInv /\ KeysNext => KeysInv'
  BY CreateKeyKeeps, DeleteKeyKeeps, WriteKeyKeeps, AuthenticateKeeps,
     KeyReadersKeep DEF KeysNext

LEMMA KeysStay == KeysInv /\ UNCHANGED keysVars => KeysInv'
  BY DEF KeysInv, keysVars, KeysTypeOK, KeysSound, AdmissionsSound,
         Admissions, UsageIsTheKeys

-----------------------------------------------------------------------------
(* Settings.  While handlers do not overlap at most one is at work, and a  *)
(* field of which a restart would make something else is one that it still *)
(* has to assign.  Whatever the table has was accepted, so neither a       *)
(* reload nor a restart passes a row over.                                 *)

USE SettingsAssumption

OneAtWork ==
  \A g, h \in Handlers :
    g # h => handler[g] = IdleHandler \/ handler[h] = IdleHandler

\* What is left in the payload for a handler to assign.
ToApply(h, k) ==
  /\ handler[h].at = "applying"
  /\ handler[h].payload[k] # Unset
  /\ \E i \in handler[h].next .. Len(Fields) : Fields[i] = k

Follows(k) == Trimmed(k, cfg[k]) = Trimmed(k, Loaded[k])

FieldsFollow ==
  \A k \in Keys : Follows(k) \/ \E h \in Handlers : ToApply(h, k)

PayloadsStored ==
  \A h \in Handlers : handler[h].at = "applying" =>
    \A k \in Keys : handler[h].payload[k] # Unset =>
      settings[k] = handler[h].payload[k]

\* Overlapping handlers or not: a key that was never saved is never applied.
UnsetIsDefault ==
  \A k \in Keys : settings[k] = Unset =>
    /\ cfg[k] = Default
    /\ \A h \in Handlers :
         handler[h].at = "applying" => handler[h].payload[k] = Unset

ReceivedFresh ==
  \A h \in Handlers : handler[h].at = "received" => handler[h].next = 1

SettingsInv ==
  /\ SettingsTypeOK /\ ReceivedFresh /\ UnsetIsDefault
  /\ ~overlapped => OneAtWork /\ FieldsFollow /\ PayloadsStored

LEMMA KeysAreFields ==
  /\ Len(Fields) \in Nat
  /\ \A i \in 1 .. Len(Fields) : Fields[i] \in Keys
  /\ \A k \in Keys : \E i \in 1 .. Len(Fields) : Fields[i] = k
  BY DEF Keys

LEMMA FieldsLeft ==
  ASSUME NEW L \in Nat
  PROVE  /\ \A n \in 1 .. L : n \in Nat /\ n + 1 \in 1 .. L + 1
         /\ \A n \in 1 .. L : \A i \in n .. L : i # n => i \in n + 1 .. L
         /\ \A n \in 1 .. L + 1 : n > L => n .. L = {}
  OBVIOUS

LEMMA IdleIsHandler ==
  /\ IdleHandler \in HandlerType
  /\ IdleHandler.at = "idle"
  BY KeysAreFields DEF IdleHandler, HandlerType, NoPayload, Payload

\* Every row is taken.
LEMMA AllIsTaken ==
  ASSUME settings \in Payload
  PROVE  \A unchecked : Taken(unchecked) = settings
  BY DEF Payload, Taken

LEMMA LoadedIs ==
  ASSUME settings \in Payload
  PROVE  /\ Loaded = [k \in Keys |-> IF settings[k] = Unset THEN Default
                                    ELSE settings[k]]
         /\ Loaded \in [Keys -> Values \cup {Default}]
  <1>1. Loaded = [k \in Keys |-> IF settings[k] = Unset THEN Default
                                 ELSE settings[k]]
    BY AllIsTaken DEF Loaded
  <1> QED
    BY <1>1 DEF Payload

\* Assigning a text and using it is using the text.
LEMMA TrimmedOnce ==
  ASSUME NEW k \in Keys, NEW text \in Values
  PROVE  /\ Trimmed(k, text) \in Values \cup {Default}
         /\ Trimmed(k, Trimmed(k, text)) = Trimmed(k, text)
  BY DEF Trimmed

LEMMA SettingsStart == SettingsInit => SettingsInv
  <1> SUFFICES ASSUME SettingsInit PROVE SettingsInv
    OBVIOUS
  <1>1. settings \in Payload
    BY DEF SettingsInit, NoPayload, Payload
  <1>2. SettingsTypeOK
    BY <1>1, LoadedIs, IdleIsHandler DEF SettingsInit, SettingsTypeOK
  <1>3. \A k \in Keys : cfg[k] = Default
    BY <1>1, LoadedIs DEF SettingsInit, NoPayload
  <1>4. \A h \in Handlers : handler[h] = IdleHandler
    BY DEF SettingsInit
  <1>5. FieldsFollow
    BY DEF SettingsInit, FieldsFollow, Follows
  <1> QED
    BY <1>2, <1>3, <1>4, <1>5, IdleIsHandler
    DEF SettingsInv, ReceivedFresh, UnsetIsDefault, OneAtWork, PayloadsStored

LEMMA ReceiveUpdateKeeps ==
  ASSUME SettingsInv, NEW h \in Handlers, ReceiveUpdate(h)
  PROVE  SettingsInv'
  <1> USE DEF SettingsInv
  <1>1. PICK payload \in Payload :
          handler' = [handler EXCEPT ![h] =
                        [at |-> "received", payload |-> payload, next |-> 1]]
    BY DEF ReceiveUpdate
  <1>2. /\ handler[h] = IdleHandler
        /\ overlapped' = (overlapped \/ ~Alone(h))
        /\ UNCHANGED <<settings, cfg>>
    BY DEF ReceiveUpdate
  <1> DEFINE new == [at |-> "received", payload |-> payload, next |-> 1]
  <1>3. new \in HandlerType
    BY KeysAreFields DEF HandlerType
  <1>4. \A g \in Handlers : handler'[g] = IF g = h THEN new ELSE handler[g]
    BY <1>1 DEF SettingsTypeOK
  <1>5. new.at = "received" /\ new.next = 1
    OBVIOUS
  <1>6. handler' = [g \in Handlers |-> IF g = h THEN new ELSE handler[g]]
    BY <1>1 DEF SettingsTypeOK
  <1> HIDE DEF new
  <1>7. SettingsTypeOK'
    BY <1>2, <1>3, <1>6 DEF SettingsTypeOK
  <1>8. ReceivedFresh'
    BY <1>4, <1>5 DEF ReceivedFresh
  <1>9. UnsetIsDefault'
    BY <1>2, <1>4, <1>5 DEF UnsetIsDefault
  <1>10. ASSUME ~overlapped' PROVE OneAtWork' /\ FieldsFollow' /\ PayloadsStored'
    <2>1. \A g \in Handlers \ {h} : handler[g] = IdleHandler
      BY <1>2, <1>10 DEF Alone
    <2>2. OneAtWork'
      BY <1>4, <2>1 DEF OneAtWork
    <2>3. \A k \in Keys : Follows(k)
      BY <1>2, <1>10, <2>1, IdleIsHandler DEF FieldsFollow, ToApply
    <2>4. FieldsFollow'
      <3>1. \A k \in Keys : cfg'[k] = cfg[k] /\ Loaded'[k] = Loaded[k]
        BY <1>2 DEF Loaded, Taken
      <3>2. \A k \in Keys : Follows(k)'
        BY <2>3, <3>1 DEF Follows
      <3> QED
        BY <3>2 DEF FieldsFollow
    <2>5. PayloadsStored
      BY <1>2, <1>10
    <2>6. PayloadsStored'
      BY <1>2, <1>4, <1>5, <2>5 DEF PayloadsStored
    <2> QED
      BY <2>2, <2>4, <2>6
  <1> QED
    BY <1>7, <1>8, <1>9, <1>10

LEMMA SaveFailsKeeps ==
  ASSUME SettingsInv, NEW h \in Handlers,
         SaveFails(h) \/ Answer(h)
  PROVE  SettingsInv'
  <1> USE DEF SettingsInv
  <1>1. /\ handler' = [handler EXCEPT ![h] = IdleHandler]
        /\ UNCHANGED <<settings, cfg, overlapped>>
    BY DEF SaveFails, AfterFailure, Answer
  <1>2. \A g \in Handlers : handler'[g] = IF g = h THEN IdleHandler ELSE handler[g]
    BY <1>1 DEF SettingsTypeOK
  <1>3. SettingsTypeOK'
    BY <1>1, IdleIsHandler DEF SettingsTypeOK
  <1>4. ReceivedFresh' /\ UnsetIsDefault'
    BY <1>1, <1>2, IdleIsHandler DEF ReceivedFresh, UnsetIsDefault
  <1>5. ASSUME ~overlapped' PROVE OneAtWork' /\ FieldsFollow' /\ PayloadsStored'
    <2>1. OneAtWork /\ FieldsFollow /\ PayloadsStored
      BY <1>1, <1>5
    <2>2. OneAtWork' /\ PayloadsStored'
      BY <1>1, <1>2, <2>1, IdleIsHandler DEF OneAtWork, PayloadsStored
    <2>3. handler[h].at # "applying" \/ handler[h].next > Len(Fields)
      BY DEF SaveFails, Answer
    <2>4. handler[h].next \in 1 .. Len(Fields) + 1
      BY DEF SettingsTypeOK, HandlerType
    <2>5. \A k \in Keys : ~ToApply(h, k)
      BY <2>3, <2>4, KeysAreFields, FieldsLeft DEF ToApply
    <2>6. \A k \in Keys : \A g \in Handlers \ {h} : ToApply(g, k) => ToApply(g, k)'
      BY <1>2 DEF ToApply
    <2>7. FieldsFollow'
      BY <1>1, <2>1, <2>5, <2>6 DEF FieldsFollow, Follows, Loaded, Taken
    <2> QED
      BY <2>2, <2>7
  <1> QED
    BY <1>3, <1>4, <1>5

\* A handler whose payload is in the table, with every field before it.
LEMMA SaveSettingsKeeps ==
  ASSUME SettingsInv, NEW h \in Handlers, SaveSettings(h)
  PROVE  SettingsInv'
  <1> USE DEF SettingsInv
  <1> DEFINE payload == handler[h].payload
             new == [handler[h] EXCEPT !.at = "applying"]
  <1>1. /\ handler[h].at = "received"
        /\ settings' = Stored(payload)
        /\ handler' = [handler EXCEPT ![h].at = "applying"]
        /\ UNCHANGED <<cfg, overlapped>>
    BY DEF SaveSettings
  <1>2. handler[h] \in HandlerType /\ payload \in Payload
    BY DEF SettingsTypeOK, HandlerType
  <1>3. handler' = [handler EXCEPT ![h] = new]
    BY <1>1 DEF SettingsTypeOK
  <1>4. /\ new \in HandlerType /\ new.at = "applying"
        /\ new.payload = payload /\ new.next = 1
    BY <1>1, <1>2 DEF HandlerType, ReceivedFresh
  <1> HIDE DEF new
  <1>5. \A g \in Handlers : handler'[g] = IF g = h THEN new ELSE handler[g]
    BY <1>3 DEF SettingsTypeOK
  <1>6. \A k \in Keys : settings'[k] = IF payload[k] = Unset
                                       THEN settings[k] ELSE payload[k]
    BY <1>1 DEF Stored
  <1>7. SettingsTypeOK'
    <2>1. settings' \in Payload
      BY <1>1, <1>2 DEF Stored, SettingsTypeOK, Payload
    <2> QED
      BY <1>1, <1>3, <1>4, <2>1 DEF SettingsTypeOK
  <1>8. ReceivedFresh'
    BY <1>4, <1>5 DEF ReceivedFresh
  <1>9. UnsetIsDefault'
    BY <1>1, <1>4, <1>5, <1>6 DEF UnsetIsDefault
  <1>10. ASSUME ~overlapped' PROVE OneAtWork' /\ FieldsFollow' /\ PayloadsStored'
    <2>1. OneAtWork /\ FieldsFollow
      BY <1>1, <1>10
    <2>2. \A g \in Handlers \ {h} : handler[g] = IdleHandler
      BY <1>1, <2>1, IdleIsHandler DEF OneAtWork
    <2>3. OneAtWork'
      BY <1>5, <2>2 DEF OneAtWork
    <2>4. PayloadsStored'
      BY <1>4, <1>5, <1>6, <2>2, IdleIsHandler DEF PayloadsStored
    <2>5. \A k \in Keys : Follows(k)
      BY <1>1, <2>1, <2>2, IdleIsHandler DEF FieldsFollow, ToApply
    <2>6. ASSUME NEW k \in Keys, payload[k] # Unset PROVE ToApply(h, k)'
      <3>1. \E i \in 1 .. Len(Fields) : Fields[i] = k
        BY KeysAreFields
      <3>2. handler'[h].at = "applying" /\ handler'[h].next = 1
        BY <1>4, <1>5
      <3>3. handler'[h].payload[k] # Unset
        BY <1>4, <1>5, <2>6
      <3> QED
        BY <3>1, <3>2, <3>3 DEF ToApply
    <2>7. ASSUME NEW k \in Keys, payload[k] = Unset PROVE Follows(k)'
      <3>1. Loaded'[k] = Loaded[k]
        BY <1>6, <2>7 DEF Loaded, Taken
      <3> QED
        BY <1>1, <2>5, <3>1 DEF Follows
    <2>8. FieldsFollow'
      BY <2>6, <2>7 DEF FieldsFollow
    <2> QED
      BY <2>3, <2>4, <2>8
  <1> QED
    BY <1>7, <1>8, <1>9, <1>10

\* A reload that begins alone ends what overlapping left: it assigns every
\* field the table has, and the others are the default already.
LEMMA ReceiveReloadKeeps ==
  ASSUME SettingsInv, NEW h \in Handlers, ReceiveReload(h)
  PROVE  SettingsInv'
  <1> USE DEF SettingsInv
  <1> DEFINE new == [at |-> "applying", payload |-> settings, next |-> 1]
  <1>0. Taken(ReloadUnchecked) = settings
    BY AllIsTaken DEF SettingsTypeOK
  <1>1. /\ handler[h] = IdleHandler
        /\ handler' = [handler EXCEPT ![h] = new]
        /\ overlapped' = ~Alone(h)
        /\ UNCHANGED <<settings, cfg>>
    BY <1>0 DEF ReceiveReload
  <1>2. new \in HandlerType
    BY KeysAreFields DEF HandlerType, SettingsTypeOK
  <1>3. \A g \in Handlers : handler'[g] = IF g = h THEN new ELSE handler[g]
    BY <1>1 DEF SettingsTypeOK
  <1>4. new.at = "applying" /\ new.payload = settings /\ new.next = 1
    OBVIOUS
  <1> HIDE DEF new
  <1>5. SettingsTypeOK'
    BY <1>1, <1>2 DEF SettingsTypeOK
  <1>6. ReceivedFresh'
    BY <1>3, <1>4 DEF ReceivedFresh
  <1>7. UnsetIsDefault'
    BY <1>1, <1>3, <1>4 DEF UnsetIsDefault
  <1>8. ASSUME ~overlapped' PROVE OneAtWork' /\ FieldsFollow' /\ PayloadsStored'
    <2>1. \A g \in Handlers \ {h} : handler[g] = IdleHandler
      BY <1>1, <1>8 DEF Alone
    <2>2. OneAtWork'
      BY <1>3, <2>1 DEF OneAtWork
    <2>3. PayloadsStored'
      BY <1>1, <1>3, <1>4, <2>1, IdleIsHandler DEF PayloadsStored
    <2>4. ASSUME NEW k \in Keys, settings[k] # Unset PROVE ToApply(h, k)'
      <3>1. \E i \in 1 .. Len(Fields) : Fields[i] = k
        BY KeysAreFields
      <3>2. handler'[h] = new
        BY <1>3
      <3> QED
        BY <1>4, <2>4, <3>1, <3>2 DEF ToApply
    <2>5. ASSUME NEW k \in Keys, settings[k] = Unset PROVE Follows(k)'
      <3>1. Loaded'[k] = Loaded[k] /\ cfg'[k] = cfg[k]
        BY <1>1 DEF Loaded, Taken
      <3>2. Loaded[k] = Default /\ cfg[k] = Default
        BY <2>5, LoadedIs DEF SettingsTypeOK, UnsetIsDefault
      <3> QED
        BY <3>1, <3>2 DEF Follows
    <2>6. FieldsFollow'
      BY <2>4, <2>5 DEF FieldsFollow
    <2> QED
      BY <2>2, <2>3, <2>6
  <1> QED
    BY <1>5, <1>6, <1>7, <1>8

\* The field a handler assigns is as in the table, when it is alone.
LEMMA ApplyFieldKeeps ==
  ASSUME SettingsInv, NEW h \in Handlers, ApplyField(h)
  PROVE  SettingsInv'
  <1> USE DEF SettingsInv
  <1> DEFINE n == handler[h].next
             key == Fields[n]
             value == handler[h].payload[key]
             assigned == Trimmed(key, value)
             new == [handler[h] EXCEPT !.next = n + 1]
  <1>1. /\ handler[h].at = "applying"
        /\ n <= Len(Fields)
        /\ cfg' = IF value = Unset THEN cfg ELSE [cfg EXCEPT ![key] = assigned]
        /\ handler' = [handler EXCEPT ![h].next = n + 1]
        /\ UNCHANGED <<settings, overlapped>>
    BY DEF ApplyField
  <1>2. handler[h] \in HandlerType
    BY DEF SettingsTypeOK
  <1>3. n \in 1 .. Len(Fields) /\ key \in Keys
    BY <1>1, <1>2, KeysAreFields DEF HandlerType
  <1>4. value \in Values \cup {Unset}
    BY <1>2, <1>3 DEF HandlerType, Payload
  <1>5. handler' = [handler EXCEPT ![h] = new]
    BY <1>1 DEF SettingsTypeOK
  <1>6. /\ new \in HandlerType /\ new.at = "applying"
        /\ new.payload = handler[h].payload /\ new.next = n + 1
    BY <1>1, <1>2, <1>3, KeysAreFields, FieldsLeft DEF HandlerType
  <1> HIDE DEF new
  <1>7. \A g \in Handlers : handler'[g] = IF g = h THEN new ELSE handler[g]
    BY <1>5 DEF SettingsTypeOK
  <1>8. \A k \in Keys : cfg'[k] = IF k = key /\ value # Unset
                                  THEN assigned ELSE cfg[k]
    BY <1>1, <1>3 DEF SettingsTypeOK
  <1>9. SettingsTypeOK'
    <2>1. cfg' \in [Keys -> Values \cup {Default}]
      <3>1. value # Unset => assigned \in Values \cup {Default}
        BY <1>3, <1>4, TrimmedOnce
      <3> HIDE DEF assigned, value
      <3> QED
        BY <1>1, <1>3, <3>1 DEF SettingsTypeOK
    <2> QED
      BY <1>1, <1>5, <1>6, <2>1 DEF SettingsTypeOK
  <1>10. ReceivedFresh'
    BY <1>6, <1>7 DEF ReceivedFresh
  <1>11. UnsetIsDefault'
    <2>1. settings[key] = Unset => value = Unset
      BY <1>1, <1>3 DEF UnsetIsDefault
    <2> QED
      BY <1>1, <1>6, <1>7, <1>8, <2>1 DEF UnsetIsDefault
  <1>12. ASSUME ~overlapped' PROVE OneAtWork' /\ FieldsFollow' /\ PayloadsStored'
    <2>1. OneAtWork /\ FieldsFollow /\ PayloadsStored
      BY <1>1, <1>12
    <2>2. \A g \in Handlers \ {h} : handler[g] = IdleHandler
      BY <1>1, <2>1, IdleIsHandler DEF OneAtWork
    <2>3. OneAtWork'
      BY <1>7, <2>2 DEF OneAtWork
    <2>4. PayloadsStored'
      BY <1>1, <1>6, <1>7, <2>1 DEF PayloadsStored
    <2>5. ASSUME NEW k \in Keys, k = key, value # Unset PROVE Follows(k)'
      <3>1. settings[k] = value
        BY <1>1, <2>1, <2>5 DEF PayloadsStored
      <3>2. Loaded'[k] = value
        <4>1. Loaded[k] = value
          BY <2>5, <3>1, LoadedIs DEF SettingsTypeOK
        <4> QED
          BY <1>1, <4>1 DEF Loaded, Taken
      <3>3. cfg'[k] = Trimmed(k, value)
        BY <1>8, <2>5
      <3>4. Trimmed(k, Trimmed(k, value)) = Trimmed(k, value)
        BY <1>4, <2>5, TrimmedOnce
      <3> QED
        BY <3>2, <3>3, <3>4 DEF Follows
    <2>6. ASSUME NEW k \in Keys, ToApply(h, k), ~(k = key /\ value # Unset)
          PROVE  ToApply(h, k)'
      <3>1. PICK i \in n .. Len(Fields) : Fields[i] = k
        BY <2>6 DEF ToApply
      <3>2. i # n
        BY <2>6, <3>1 DEF ToApply
      <3>3. i \in n + 1 .. Len(Fields)
        BY <1>3, <3>1, <3>2, KeysAreFields, FieldsLeft
      <3>4. handler'[h] = new
        BY <1>7
      <3> QED
        BY <1>6, <2>6, <3>1, <3>3, <3>4 DEF ToApply
    <2>7. ASSUME NEW k \in Keys, Follows(k),
                 ~(k = key /\ value # Unset)
          PROVE  Follows(k)'
      <3>1. cfg'[k] = cfg[k]
        BY <1>8, <2>7
      <3>2. Loaded'[k] = Loaded[k]
        BY <1>1 DEF Loaded, Taken
      <3> QED
        BY <2>7, <3>1, <3>2 DEF Follows
    <2>8. \A k \in Keys : Follows(k) \/ ToApply(h, k)
      BY <2>1, <2>2, IdleIsHandler DEF FieldsFollow, ToApply
    <2>9. FieldsFollow'
      BY <2>5, <2>6, <2>7, <2>8 DEF FieldsFollow
    <2> QED
      BY <2>3, <2>4, <2>9
  <1> QED
    BY <1>9, <1>10, <1>11, <1>12

LEMMA RestartSettingsKeeps == SettingsInv /\ RestartSettings => SettingsInv'
  <1> SUFFICES ASSUME SettingsInv, RestartSettings PROVE SettingsInv'
    OBVIOUS
  <1> USE DEF SettingsInv
  <1>1. /\ cfg' = Loaded /\ settings' = settings
        /\ handler' = [h \in Handlers |-> IdleHandler]
        /\ overlapped' = FALSE
    BY DEF RestartSettings
  <1>2. SettingsTypeOK'
    BY <1>1, LoadedIs, IdleIsHandler DEF SettingsTypeOK
  <1>3. \A h \in Handlers : handler'[h] = IdleHandler
    BY <1>1
  <1>4. \A k \in Keys : Follows(k)'
    BY <1>1 DEF Loaded, Taken, Follows
  <1>5. \A k \in Keys : settings[k] = Unset => Loaded[k] = Default
    BY LoadedIs DEF SettingsTypeOK
  <1> QED
    BY <1>1, <1>2, <1>3, <1>4, <1>5, IdleIsHandler
    DEF ReceivedFresh, UnsetIsDefault, OneAtWork, FieldsFollow, PayloadsStored

LEMMA SettingsKeep == SettingsInv /\ SettingsNext => SettingsInv'
  BY ReceiveUpdateKeeps, SaveSettingsKeeps, SaveFailsKeeps, ReceiveReloadKeeps,
     ApplyFieldKeeps, RestartSettingsKeeps DEF SettingsNext

LEMMA SettingsStay == SettingsInv /\ UNCHANGED settingsVars => SettingsInv'
  BY DEF SettingsInv, settingsVars, SettingsTypeOK, ReceivedFresh,
         UnsetIsDefault, OneAtWork, FieldsFollow, Follows, ToApply, Loaded,
         Taken, PayloadsStored

LEMMA SettledIsLoaded == SettingsInv => ConfigFollowsTable
  <1> SUFFICES ASSUME SettingsInv, ~overlapped,
                      \A h \in Handlers : handler[h] = IdleHandler
               PROVE  InUse(cfg) = InUse(Loaded)
    BY DEF ConfigFollowsTable
  <1>1. \A k \in Keys : Follows(k)
    BY IdleIsHandler DEF SettingsInv, FieldsFollow, ToApply
  <1> QED
    BY <1>1 DEF InUse, Follows

HIDE SettingsAssumption

-----------------------------------------------------------------------------
(* Catalog. *)

LEMMA CatalogStarts == CatalogInit => CatalogTypeOK
  BY DEF CatalogInit, CatalogTypeOK, NoOffer, Offer

LEMMA CatalogKeeps == CatalogTypeOK /\ CatalogNext => CatalogTypeOK'
  <1> SUFFICES ASSUME CatalogTypeOK, NEW b \in Offers,
                      EditOffer(b) \/ ChangeStatus(b)
               PROVE  CatalogTypeOK'
    BY DEF CatalogNext
  <1>1. CASE EditOffer(b)
    BY <1>1 DEF EditOffer, CatalogTypeOK
  <1>2. CASE ChangeStatus(b)
    <2>1. [offers[b] EXCEPT !.normal = ~@] \in Offer
      BY DEF CatalogTypeOK, Offer
    <2> QED
      BY <1>2, <2>1 DEF ChangeStatus, CatalogTypeOK
  <1> QED
    BY <1>1, <1>2

LEMMA CatalogStays == CatalogTypeOK /\ UNCHANGED catalogVars => CatalogTypeOK'
  BY DEF CatalogTypeOK, catalogVars

LEMMA CatalogAgrees == CatalogTypeOK => ListedIsServed
  <1> SUFFICES ASSUME CatalogTypeOK, NEW b \in Offers, NEW m \in Models,
                      offers[b].normal
               PROVE  /\ m \in PublicModels(offers[b]) => b \in CandidatesFor(m)
                      /\ b \in CandidatesFor(m) /\ m \notin PublicModels(offers[b]) =>
                           \/ m \in Upstreams(offers[b])
                           \/ \E pattern \in offers[b].models \ Models :
                                MatchPattern(pattern, m)
    BY DEF ListedIsServed
  <1>1. m \in offers[b].models => SupportsModel(offers[b], m)
    BY DEF SupportsModel, MatchPattern
  <1>2. m \in PublicModels(offers[b]) => b \in CandidatesFor(m)
    BY <1>1 DEF PublicModels, CandidatesFor, SupportsBackendModel
  <1>3. ASSUME b \in CandidatesFor(m), m \notin PublicModels(offers[b])
        PROVE  SupportsModel(offers[b], m)
    BY <1>3 DEF PublicModels, CandidatesFor, SupportsBackendModel
  <1>4. ASSUME NEW pattern \in offers[b].models, MatchPattern(pattern, m)
        PROVE  pattern = m \/ pattern \notin Models
    BY <1>4, CatalogAssumption DEF MatchPattern
  <1>5. m \in offers[b].models /\ m \notin PublicModels(offers[b]) =>
          m \in Upstreams(offers[b])
    BY DEF PublicModels
  <1> QED
    BY <1>2, <1>3, <1>4, <1>5 DEF SupportsModel

-----------------------------------------------------------------------------
(* The specification. *)

IInv ==
  /\ part \in Parts
  /\ EgressInv /\ SettingsInv /\ KeysInv
  /\ UsageLogsInv /\ CatalogTypeOK /\ HandshakeInv

LEMMA Starts == Init => IInv
  BY EgressStarts, SettingsStart, KeysStart, UsageLogsStart, CatalogStarts,
     HandshakeStarts DEF Init, IInv

LEMMA Keeps == IInv /\ [Next]_vars => IInv'
  <1> SUFFICES ASSUME IInv, [Next]_vars PROVE IInv'
    OBVIOUS
  <1>1. EgressInv'
    BY EgressKeeps, EgressStays
    DEF IInv, Next, MoveEgress, MoveSettings, MoveKeys, MoveUsageLogs,
        MoveCatalog, MoveHandshake, vars
  <1>2. SettingsInv'
    BY SettingsKeep, SettingsStay
    DEF IInv, Next, MoveEgress, MoveSettings, MoveKeys, MoveUsageLogs,
        MoveCatalog, MoveHandshake, vars
  <1>3. KeysInv'
    BY KeysKeep, KeysStay
    DEF IInv, Next, MoveEgress, MoveSettings, MoveKeys, MoveUsageLogs,
        MoveCatalog, MoveHandshake, vars
  <1>4. UsageLogsInv'
    BY UsageLogsKeep, UsageLogsStay
    DEF IInv, Next, MoveEgress, MoveSettings, MoveKeys, MoveUsageLogs,
        MoveCatalog, MoveHandshake, vars
  <1>5. CatalogTypeOK'
    BY CatalogKeeps, CatalogStays
    DEF IInv, Next, MoveEgress, MoveSettings, MoveKeys, MoveUsageLogs,
        MoveCatalog, MoveHandshake, vars
  <1>6. HandshakeInv'
    BY HandshakeKeeps, HandshakeStays
    DEF IInv, Next, MoveEgress, MoveSettings, MoveKeys, MoveUsageLogs,
        MoveCatalog, MoveHandshake, vars
  <1>7. part' \in Parts
    BY DEF IInv, Next, MoveEgress, MoveSettings, MoveKeys, MoveUsageLogs,
           MoveCatalog, MoveHandshake, vars
  <1> QED
    BY <1>1, <1>2, <1>3, <1>4, <1>5, <1>6, <1>7 DEF IInv

\* The inductive invariant, for any number of proxies, backends, settings,
\* keys and requests at work on them.
THEOREM Invariant == Spec => []IInv
  BY Starts, Keeps, PTL DEF Spec

\* What the tables, the client cache, the configuration, the handlers and a
\* connection to a proxy hold is of the kind the code declares.
THEOREM TypeCorrect == Spec => []TypeOK
  <1>1. IInv => TypeOK
    BY DEF IInv, TypeOK, EgressInv, SettingsInv, KeysInv, UsageLogsInv,
           HandshakeInv
  <1> QED
    BY <1>1, Invariant, PTL

\* Proxy ids are never reused, so that no backend's traffic moves to a proxy
\* its administrator did not choose, whatever stale rows are written back.
THEOREM RefsKeepProxy == Spec => []RefsKeepTheirProxy
  <1>1. IInv => RefsKeepTheirProxy
    BY RefsSound DEF IInv
  <1> QED
    BY <1>1, Invariant, PTL

\* An attempt goes out as the rows read for it say: directly only without a
\* proxy_id, and never with the credentials of an older client in the cache.
THEOREM DialsFollowRead == Spec => []DialsAsRead
  <1>1. IInv => DialsAsRead
    BY DEF IInv, EgressInv
  <1> QED
    BY <1>1, Invariant, PTL

\* An import makes all of its rows visible in one step, and none of them in
\* the place of a backend created since the names were checked.
THEOREM ImportsAreWhole == Spec => ImportWhole
  <1>1. IInv /\ [Next]_vars =>
          [\A w \in Writers :
             writer[w].op = "insert" /\ writer'[w] # writer[w] /\ table' # table =>
               \A b \in writer[w].on :
                 table[b] = NoBackend /\ table'[b] # NoBackend]_egressVars
    <2> SUFFICES ASSUME IInv, [Next]_vars, ~UNCHANGED egressVars
                 PROVE  EgressInv /\ EgressNext
      BY ImportStep
    <2> QED
      BY DEF IInv, Next, MoveEgress, MoveSettings, MoveKeys, MoveUsageLogs,
             MoveCatalog, MoveHandshake, vars
  <1> QED
    BY <1>1, Invariant, PTL DEF Spec, ImportWhole

\* Once all updates and reloads have answered, whoever uses the configuration
\* gets from it what a restart would give, whatever blanks the texts of the
\* table have around them, unless they overlapped and no reload ran alone
\* since.
THEOREM ConfigFollows == Spec => []ConfigFollowsTable
  <1>1. IInv => ConfigFollowsTable
    BY SettledIsLoaded DEF IInv
  <1> QED
    BY <1>1, Invariant, PTL

\* A key's usage is of requests admitted with its token: ids are not reused
\* and no update changes the token, though an edit may overlap a deletion.
THEOREM UsageBelongs == Spec => []UsageIsTheKeys
  <1>1. IInv => UsageIsTheKeys
    BY DEF IInv, KeysInv
  <1> QED
    BY <1>1, Invariant, PTL


\* The statistics of an hour count every row once that was ever stored of a
\* request that began in it, whatever was cleared since, and carry the name
\* the last of these rows did, for any number of requests in flight.
THEOREM HourlyFollows == Spec => []HourlyIsHistory
  <1>1. IInv => HourlyIsHistory
    BY DEF IInv, UsageLogsInv
  <1> QED
    BY <1>1, Invariant, PTL

\* Clearing a range of time is exact but for the seconds at its ends, for
\* any rows and any range.
THEOREM ClearsAreExact == Spec => []ClearsByTheSecond
  <1>1. IInv => ClearsByTheSecond
    BY ClearedBySeconds DEF IInv
  <1> QED
    BY <1>1, Invariant, PTL

\* GET /v1/models and the selection of candidates agree on what a backend
\* serves, for any models, mappings and patterns.
THEOREM ListAgrees == Spec => []ListedIsServed
  <1>1. IInv => ListedIsServed
    BY CatalogAgrees DEF IInv
  <1> QED
    BY <1>1, Invariant, PTL

\* The handshake reads its own bytes and none of the target's, in whatever
\* pieces they come and however long a bound name is.
THEOREM TunnelsAreClean == Spec => []TunnelStartsClean
  <1>1. IInv => TunnelStartsClean
    BY CleanInStep DEF IInv
  <1> QED
    BY <1>1, Invariant, PTL

\* The dialer and a conforming proxy never wait for each other.
THEOREM NobodyStandsOff == Spec => []NoStandoff
  <1>1. IInv => NoStandoff
    BY CleanInStep DEF IInv
  <1> QED
    BY <1>1, Invariant, PTL
=============================================================================
