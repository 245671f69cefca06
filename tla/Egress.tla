------------------------------- MODULE Egress -------------------------------
(***************************************************************************)
(* The SOCKS5 proxies, the backends that refer to them by proxy_id, and    *)
(* the HTTP clients the proxy service keeps for them.                      *)
(*                                                                         *)
(* A handler that writes a backend checks the reference it was given, or   *)
(* copies the row, and writes later: a proxy may be edited or deleted in   *)
(* between.  A request reads a backend joined with its proxy and dials     *)
(* later, too.  Backends are named by the unique name they are inserted    *)
(* with; their deletion is BackendPool's, their other columns are left     *)
(* out, and so is a proxy's name, which only makes more cache keys.        *)
(***************************************************************************)
EXTENDS Integers

CONSTANTS
  Backends,    \* names of backends
  Addresses,   \* host and port of a proxy
  Passwords,   \* and its credentials
  Writers,     \* handlers that write backends
  Requests,    \* turns of proxied requests
  MaxCreated,  \* proxies ever created
  NoProxy, NoBackend, Direct

VARIABLES
  proxies,  \* the socks_proxies table
  created,  \* how many proxies were ever inserted: the AUTOINCREMENT
  table,    \* the backends table
  writer,   \* what each writer has checked or copied
  request,  \* what each request has read and dialled
  clients   \* Service.proxyClients

egressVars == <<proxies, created, table, writer, request, clients>>

Ids == 1 .. MaxCreated

\* serial is history: which insertion made the row.
Proxy == [address : Addresses, password : Passwords, enabled : BOOLEAN,
          serial : 1 .. MaxCreated]

\* meant is history: the serial of the proxy the administrator chose.
Reference == [proxy : 0 .. MaxCreated, meant : 0 .. MaxCreated]
NoReference == [proxy |-> 0, meant |-> 0]

Dialer == [address : Addresses, password : Passwords]

WriterType == [op : {"idle", "insert", "update"},
               on : SUBSET Backends, ref : Reference]
IdleWriter == [op |-> "idle", on |-> {}, ref |-> NoReference]

RequestType == [at : {"idle", "read", "dialled"}, ref : 0 .. MaxCreated,
                proxy : Proxy \cup {NoProxy}, dial : Dialer \cup {Direct}]
IdleRequest == [at |-> "idle", ref |-> 0, proxy |-> NoProxy, dial |-> Direct]

EgressTypeOK ==
  /\ proxies \in [Ids -> Proxy \cup {NoProxy}]
  /\ created \in 0 .. MaxCreated
  /\ table \in [Backends -> Reference \cup {NoBackend}]
  /\ writer \in [Writers -> WriterType]
  /\ request \in [Requests -> RequestType]
  /\ \A c \in clients : c.dial \in Dialer

EgressInit ==
  /\ proxies = [p \in Ids |-> NoProxy]
  /\ created = 0
  /\ table = [b \in Backends |-> NoBackend]
  /\ writer = [w \in Writers |-> IdleWriter]
  /\ request = [r \in Requests |-> IdleRequest]
  /\ clients = {}

-----------------------------------------------------------------------------
(* Proxies.                                                                *)

\* Mutated form: without AUTOINCREMENT the highest id in use is counted on.
NextIdInUse ==
  LET used == {p \in Ids : proxies[p] # NoProxy}
  IN  CHOOSE p \in Ids : p - 1 \in used \cup {0} /\ \A q \in used : q < p

\* The id the INSERT is given.
NextId == created + 1

\* HandleCreateSocksProxy.
CreateProxy ==
  /\ created < MaxCreated
  /\ created' = created + 1
  /\ \E a \in Addresses, s \in Passwords, enabled \in BOOLEAN :
       proxies' = [proxies EXCEPT ![NextId] =
         [address |-> a, password |-> s, enabled |-> enabled,
          serial |-> created']]
  /\ UNCHANGED <<table, writer, request, clients>>

\* HandleUpdateSocksProxy: the payload replaces every column.  A row that is
\* deleted after it was read is not brought back.
UpdateProxy ==
  /\ \E p \in Ids, a \in Addresses, s \in Passwords, enabled \in BOOLEAN :
       /\ proxies[p] # NoProxy
       /\ proxies' = [proxies EXCEPT ![p] =
            [address |-> a, password |-> s, enabled |-> enabled,
             serial |-> proxies[p].serial]]
  /\ UNCHANGED <<created, table, writer, request, clients>>

\* Mutated form: an unbound backend is marked with an id that is none.
UnboundMarked(ref) == [ref EXCEPT !.proxy = -1]

\* SET proxy_id = 0
Unbound(ref) == NoReference

\* HandleDeleteSocksProxy: one transaction unbinds the backends and deletes
\* the row.
DeleteProxy ==
  /\ \E p \in Ids :
       /\ proxies[p] # NoProxy
       /\ proxies' = [proxies EXCEPT ![p] = NoProxy]
       /\ table' = [b \in Backends |->
            IF table[b] # NoBackend /\ table[b].proxy = p THEN Unbound(table[b])
            ELSE table[b]]
  /\ UNCHANGED <<created, writer, request, clients>>

-----------------------------------------------------------------------------
(* Backends.                                                               *)

\* validateSocksProxyReference.
ValidReference(ref) ==
  \/ ref = NoReference
  \/ /\ ref.proxy \in Ids
     /\ proxies[ref.proxy] # NoProxy
     /\ ref.meant = proxies[ref.proxy].serial

Takes(w, op, on, ref) ==
  /\ writer[w] = IdleWriter
  /\ writer' = [writer EXCEPT ![w] = [op |-> op, on |-> on, ref |-> ref]]
  /\ UNCHANGED <<proxies, created, table, request, clients>>

\* HandleCreateBackend up to its INSERT.
CheckCreate(w) ==
  \E b \in Backends, ref \in Reference :
    ValidReference(ref) /\ Takes(w, "insert", {b}, ref)

\* HandleUpdateBackend up to its UPDATE.
CheckEdit(w) ==
  \E b \in Backends, ref \in Reference :
    /\ table[b] # NoBackend
    /\ ValidReference(ref)
    /\ Takes(w, "update", {b}, ref)

\* A console handler's copy of the row.
CopyRow(w) ==
  \E b \in Backends :
    /\ table[b] # NoBackend
    /\ Takes(w, "update", {b}, table[b])

\* validateBackendImportPayload: the names are new, the references valid.
CheckImport(w) ==
  \E on \in SUBSET Backends \ {{}}, ref \in Reference :
    /\ \A b \in on : table[b] = NoBackend
    /\ ValidReference(ref)
    /\ Takes(w, "insert", on, ref)

Done(w) ==
  /\ writer' = [writer EXCEPT ![w] = IdleWriter]
  /\ UNCHANGED <<proxies, created, request, clients>>

Written(w, on) ==
  [b \in Backends |-> IF b \in on THEN writer[w].ref ELSE table[b]]

\* UpdateBackend.
WriteRow(w) ==
  /\ writer[w].op = "update"
  /\ table' = Written(w, writer[w].on)
  /\ Done(w)

\* Mutated form: the rows are inserted without a transaction around them.
InsertedFree(w) ==
  Written(w, {b \in writer[w].on : table[b] = NoBackend})

\* The names are UNIQUE: the first INSERT that fails rolls everything back.
Inserted(w) ==
  IF \A b \in writer[w].on : table[b] = NoBackend
  THEN Written(w, writer[w].on)
  ELSE table

\* CreateBackend and ImportBackends.
InsertRows(w) ==
  /\ writer[w].op = "insert"
  /\ table' = Inserted(w)
  /\ Done(w)

\* The statement fails, or the client has left.
GiveUp(w) ==
  /\ writer[w] # IdleWriter
  /\ Done(w)
  /\ UNCHANGED table

-----------------------------------------------------------------------------
(* Requests.                                                               *)

\* ListBackends: one LEFT JOIN.
ReadBackend(r) ==
  /\ request[r].at = "idle"
  /\ \E b \in Backends :
       /\ table[b] # NoBackend
       /\ LET ref == table[b].proxy
          IN  request' = [request EXCEPT ![r] =
                [at |-> "read", ref |-> ref, dial |-> Direct,
                 proxy |-> IF ref \in Ids THEN proxies[ref] ELSE NoProxy]]
  /\ UNCHANGED <<proxies, created, table, writer, clients>>

\* Mutated form: the password is not part of the key.
KeyWithoutPassword(proxy) == <<proxy.address>>

\* socksProxyKey.
Key(proxy) == <<proxy.address, proxy.password>>

\* The client of the cache, or else a new one with the proxy's dialer.
ClientFor(proxy) ==
  LET cached == {c \in clients : c.key = Key(proxy)}
  IN  IF cached # {} THEN CHOOSE c \in cached : TRUE
      ELSE [key |-> Key(proxy), dial |-> [address |-> proxy.address,
                                          password |-> proxy.password]]

Dials(r, dial) ==
  request' = [request EXCEPT ![r].at = "dialled", ![r].dial = dial]

\* clientForBackend, for a backend without a proxy.
DialDirect(r) ==
  /\ request[r].at = "read"
  /\ request[r].ref = 0
  /\ Dials(r, Direct)
  /\ UNCHANGED <<proxies, created, table, writer, clients>>

Usable(r) == request[r].proxy # NoProxy /\ request[r].proxy.enabled

DialProxy(r) ==
  /\ request[r].at = "read"
  /\ request[r].ref # 0
  /\ Usable(r)
  /\ LET client == ClientFor(request[r].proxy)
     IN  clients' = clients \cup {client} /\ Dials(r, client.dial)
  /\ UNCHANGED <<proxies, created, table, writer>>

\* "backend socks5 proxy not found", "... is disabled": the attempt fails.
RefuseDial(r) ==
  /\ request[r].at = "read"
  /\ request[r].ref # 0
  /\ ~Usable(r)
  /\ request' = [request EXCEPT ![r] = IdleRequest]
  /\ UNCHANGED <<proxies, created, table, writer, clients>>

EndAttempt(r) ==
  /\ request[r].at = "dialled"
  /\ request' = [request EXCEPT ![r] = IdleRequest]
  /\ UNCHANGED <<proxies, created, table, writer, clients>>

\* The process starts again: the tables are what is left.
RestartEgress ==
  /\ writer' = [w \in Writers |-> IdleWriter]
  /\ request' = [r \in Requests |-> IdleRequest]
  /\ clients' = {}
  /\ UNCHANGED <<proxies, created, table>>

EgressNext ==
  \/ CreateProxy \/ UpdateProxy \/ DeleteProxy \/ RestartEgress
  \/ \E w \in Writers :
       \/ CheckCreate(w) \/ CheckEdit(w) \/ CopyRow(w) \/ CheckImport(w)
       \/ WriteRow(w) \/ InsertRows(w) \/ GiveUp(w)
  \/ \E r \in Requests :
       \/ ReadBackend(r) \/ DialDirect(r) \/ DialProxy(r) \/ RefuseDial(r)
       \/ EndAttempt(r)

-----------------------------------------------------------------------------

References == {table[b] : b \in Backends} \ {NoBackend}

\* A backend goes out through the proxy its administrator chose or through
\* none.  A whole-row write from a stale copy, or one that checked its
\* reference before the proxy was deleted, may leave a reference to no proxy
\* behind, but never to another one that was created since.
RefsKeepTheirProxy ==
  \A ref \in References \cup {writer[w].ref : w \in Writers} :
    ref.proxy # 0 /\ proxies[ref.proxy] # NoProxy =>
      proxies[ref.proxy].serial = ref.meant

\* A request goes out the way its backend said when it was read: directly
\* only where proxy_id was 0, else through the enabled proxy with the
\* address and the password read then, however the proxy was edited before
\* or since.  A client kept for older credentials is never used.
DialsAsRead ==
  \A r \in Requests :
    LET read == request[r].proxy  dial == request[r].dial IN
    request[r].at = "dialled" =>
      /\ dial = Direct <=> request[r].ref = 0
      /\ dial # Direct =>
           /\ read # NoProxy /\ read.enabled
           /\ dial = [address |-> read.address, password |-> read.password]

\* The rows of an import become visible together or not at all, and none of
\* them replaces a backend that was created after the names were checked.
ImportWhole ==
  [][\A w \in Writers :
       writer[w].op = "insert" /\ writer'[w] # writer[w] /\ table' # table =>
         \A b \in writer[w].on :
           table[b] = NoBackend /\ table'[b] # NoBackend]_egressVars
=============================================================================
