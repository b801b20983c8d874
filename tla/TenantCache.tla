----------------------------- MODULE TenantCache -----------------------------
(* Which tenant a host belongs to: the rows of tenants, the entries Redis   *)
(* keeps of them for five minutes, requests that fill it (core/middleware   *)
(* and core/dependencies), administrators of a tenant, who invalidate it    *)
(* (routers/admin/tenant), and the platform's, who do not                   *)
(* (services/superadmin).                                                   *)
EXTENDS Integers

CONSTANTS
  Tenants,
  Hosts,
  Readers,        \* requests that resolve a host
  Editors,        \* requests of tenants' administrators
  Ttl,            \* _TENANT_CACHE_TTL, in ticks; a request takes one tick at most
  MaxTime,
  MaxUpdates,
  NoHost

ASSUME CacheAssumption ==
  /\ Ttl \in Nat \ {0} /\ MaxTime \in Nat /\ MaxUpdates \in Nat
  /\ NoHost \notin Hosts

VARIABLES
  tenants,        \* the rows: two domains, and a stamp for everything else
  cache,          \* of each host: what Redis keeps, and how long it has to live
  reader, editor, \* control points and copies
  now, updates,
  replaced,       \* history: when each tenant's row with each stamp was changed
  bypassed        \* history: an update without invalidation, or that lost its race

cacheVars == <<tenants, cache, reader, editor, now, updates, replaced, bypassed>>

Domains == Hosts \cup {NoHost}
Stamps == 0..MaxUpdates
TenantRow == [custom : Domains, sub : Domains, stamp : Stamps]
NoEntry == [tenant |-> NoHost, stamp |-> 0, ttl |-> 0]
Entry == [tenant : Tenants, stamp : Stamps, ttl : 0..Ttl] \cup {NoEntry}

NoReader == [pc |-> "idle", host |-> NoHost, entry |-> NoEntry, late |-> FALSE]
NoEditor == [pc |-> "idle", tenant |-> NoHost, keys |-> {}]

CacheInit ==
  /\ tenants \in [Tenants -> [custom : Domains, sub : Domains, stamp : {0}]]
  /\ \A t, u \in Tenants : t # u /\ tenants[t].custom # NoHost =>
       tenants[t].custom # tenants[u].custom
  /\ cache = [h \in Hosts |-> NoEntry]
  /\ reader = [r \in Readers |-> NoReader]
  /\ editor = [e \in Editors |-> NoEditor]
  /\ now = 0 /\ updates = 0
  /\ replaced = [t \in Tenants |-> [s \in Stamps |-> MaxTime]]   \* never
  /\ bypassed = FALSE

\* The rows a SELECT by host finds; subdomain has no unique index.
Owners(h) == {t \in Tenants : h \in {tenants[t].custom, tenants[t].sub}}

Cached(h) == cache[h] # NoEntry

-----------------------------------------------------------------------------
(* Readers.                                                                 *)

\* Faulty variant: a hit starts the five minutes again.
AfterHitExtended(h) == [cache EXCEPT ![h].ttl = Ttl]

AfterHit(h) == cache

HitCache(h) ==
  /\ Cached(h)
  /\ cache' = AfterHit(h)
  /\ UNCHANGED <<tenants, reader, editor, now, updates, replaced, bypassed>>

\* A miss, and the SELECT; no row is a 404, and two rows are an error.
SelectTenant(r, h) ==
  /\ reader[r].pc = "idle" /\ ~Cached(h)
  /\ \E t \in Owners(h) :
       /\ Owners(h) = {t}
       /\ reader' = [reader EXCEPT ![r] =
            [pc |-> "store", host |-> h, late |-> FALSE,
             entry |-> [tenant |-> t, stamp |-> tenants[t].stamp, ttl |-> Ttl]]]
  /\ UNCHANGED <<tenants, cache, editor, now, updates, replaced, bypassed>>

StoreTenant(r) ==
  /\ reader[r].pc = "store"
  /\ cache' = [cache EXCEPT ![reader[r].host] = reader[r].entry]
  /\ reader' = [reader EXCEPT ![r] = NoReader]
  /\ UNCHANGED <<tenants, editor, now, updates, replaced, bypassed>>

ReaderFails(r) ==
  /\ reader[r].pc = "store"
  /\ reader' = [reader EXCEPT ![r] = NoReader]
  /\ UNCHANGED <<tenants, cache, editor, now, updates, replaced, bypassed>>

-----------------------------------------------------------------------------
(* Writers.                                                                 *)

Holds(t) == \E r \in Readers : reader[r].pc = "store" /\ reader[r].entry.tenant = t

Update(t, custom, sub) ==
  /\ updates < MaxUpdates
  /\ updates' = updates + 1
  /\ tenants' = [tenants EXCEPT ![t] = [custom |-> custom, sub |-> sub, stamp |-> updates + 1]]
  /\ replaced' = [replaced EXCEPT ![t][tenants[t].stamp] = now]

\* PATCH /settings and /branding, neither of them a domain: a commit, the row
\* read again, and the entries of its domains deleted.
CommitSettings(e, t) ==
  /\ editor[e].pc = "idle"
  /\ Update(t, tenants[t].custom, tenants[t].sub)
  /\ editor' = [editor EXCEPT ![e] = [pc |-> "refresh", tenant |-> t, keys |-> {}]]
  /\ bypassed' = (bypassed \/ Holds(t))
  /\ UNCHANGED <<cache, reader, now>>

\* Faulty variant: only the custom domain's entry is deleted.
KeysOfCustom(t) == {tenants[t].custom} \cap Hosts

KeysOf(t) == {tenants[t].custom, tenants[t].sub} \cap Hosts

RefreshTenant(e) ==
  /\ editor[e].pc = "refresh"
  /\ editor' = [editor EXCEPT ![e] =
       [pc |-> "invalidate", tenant |-> @.tenant, keys |-> KeysOf(@.tenant)]]
  /\ UNCHANGED <<tenants, cache, reader, now, updates, replaced, bypassed>>

InvalidateTenant(e) ==
  /\ editor[e].pc = "invalidate"
  /\ cache' = [h \in Hosts |-> IF h \in editor[e].keys THEN NoEntry ELSE cache[h]]
  /\ editor' = [editor EXCEPT ![e] = NoEditor]
  /\ UNCHANGED <<tenants, reader, now, updates, replaced, bypassed>>

EditorFails(e) ==
  /\ editor[e].pc # "idle"
  /\ editor' = [editor EXCEPT ![e] = NoEditor]
  /\ bypassed' = TRUE
  /\ UNCHANGED <<tenants, cache, reader, now, updates, replaced>>

\* PATCH /superadmin/tenants: domains too, and no invalidation.
UpdateTenant(t, custom, sub) ==
  /\ custom # NoHost => \A u \in Tenants \ {t} : tenants[u].custom # custom
  /\ Update(t, custom, sub)
  /\ bypassed' = TRUE
  /\ UNCHANGED <<cache, reader, editor, now>>

-----------------------------------------------------------------------------
\* A tick, which no request outlasts twice.
Tick ==
  /\ now < MaxTime - 1
  /\ \A r \in Readers : ~reader[r].late
  /\ now' = now + 1
  /\ cache' = [h \in Hosts |-> IF cache[h].ttl <= 1 THEN NoEntry
                               ELSE [cache[h] EXCEPT !.ttl = @ - 1]]
  /\ reader' = [r \in Readers |-> [reader[r] EXCEPT !.late = reader[r].pc = "store"]]
  /\ UNCHANGED <<tenants, editor, updates, replaced, bypassed>>

CacheNext ==
  \/ \E h \in Hosts : HitCache(h) \/ \E r \in Readers : SelectTenant(r, h)
  \/ \E r \in Readers : StoreTenant(r) \/ ReaderFails(r)
  \/ \E e \in Editors : (\E t \in Tenants : CommitSettings(e, t)) \/ RefreshTenant(e)
                        \/ InvalidateTenant(e) \/ EditorFails(e)
  \/ \E t \in Tenants, custom, sub \in Domains : UpdateTenant(t, custom, sub)
  \/ Tick

CacheSpec == CacheInit /\ [][CacheNext]_cacheVars

-----------------------------------------------------------------------------
(* The properties.                                                          *)

CacheTypeOK ==
  /\ tenants \in [Tenants -> TenantRow]
  /\ cache \in [Hosts -> Entry]
  /\ reader \in [Readers -> [pc : {"idle", "store"}, host : Domains, entry : Entry,
                             late : BOOLEAN]]
  /\ editor \in [Editors -> [pc : {"idle", "refresh", "invalidate"},
                             tenant : Tenants \cup {NoHost}, keys : SUBSET Hosts]]
  /\ now \in 0..MaxTime /\ updates \in 0..MaxUpdates
  /\ replaced \in [Tenants -> [Stamps -> 0..MaxTime]] /\ bypassed \in BOOLEAN

\* No request is answered with a row that was changed longer ago than an entry
\* and a request live together: so much the expiry makes good, for readers that
\* store late, updates that invalidate nothing and domains that moved
\* (core/middleware.py:70, services/superadmin.py:104).
StaleNoLongerThanTtl ==
  \A h \in Hosts :
    Cached(h) => now < replaced[cache[h].tenant][cache[h].stamp] + Ttl + 1

\* A tenant's administrator sees an update at once: no entry keeps an older row,
\* but for the moment between commit and invalidation, unless a reader held the
\* row at the commit, the invalidation was lost or the platform's administrator
\* updated the tenant (routers/admin/tenant.py:51, 92).
UpdatesShowAtOnce ==
  ~bypassed =>
    \A h \in Hosts : Cached(h) =>
      LET t == cache[h].tenant
      IN  \/ cache[h].stamp = tenants[t].stamp
          \/ \E e \in Editors : editor[e].pc # "idle" /\ editor[e].tenant = t
==============================================================================
