---------------------------- MODULE ReferenceData ----------------------------
(***************************************************************************)
(* ReferenceDataService: the options behind the deal tags, a cache of the  *)
(* whole table in each app instance with a time to live, a cache inside    *)
(* each request, and writes that clear only their own instance.  Requests  *)
(* interleave at their awaits; a table is named by its number of commits.  *)
(***************************************************************************)
EXTENDS Nulls, Sequences, FiniteSets, Integers, TLC
CONSTANTS
    Requests,      \* [kind, on, scope, write, tags] of each request
    Casts,         \* which of them come, together
    Options,       \* the table at the start: id -> [domain, set, key, label, active]
    Ttl,           \* REFERENCE_DATA_CACHE_TTL_SECONDS, 0 to disable
    MaxTime        \* bound on the clock

\* uq_enum_options_domain_set_key
KeysUnique(table) == \A i, k \in DOMAIN table :
    table[i].domain = table[k].domain /\ table[i].set = table[k].set
        /\ table[i].key = table[k].key => i = k

ASSUME ReferenceAssumption ==
    /\ KeysUnique(Options)
    /\ \A r \in DOMAIN Requests : Requests[r].kind \in {"read", "write", "validate"}
    /\ Ttl \in Nat

VARIABLES
    now,       \* time.monotonic() of every instance
    tables,    \* the committed tables, oldest first
    cache,     \* per instance [at, table] or None
    at,        \* where each request is
    held,      \* the table a request has read, 0 before it has
    since,     \* per request: the newest table and the answered requests when it began
    reply      \* per request what it answered, or None

refVars == <<now, tables, cache, at, held, since, reply>>

Newest == Len(tables)
On(r) == Requests[r].on
----------------------------------------------------------------------------
\* The filters of the repository, as its WHERE clause has them.
ListOptions(table, scope) ==
    {table[i] : i \in {k \in DOMAIN table :
        /\ scope.domain # None => table[k].domain = scope.domain
        /\ scope.sets # {} => table[k].set \in scope.sets
        /\ ~scope.inactive => table[k].active}}

\* The filters over the cached table.
SharedOptions_NoSets(table, scope) ==
    {table[i] : i \in {k \in DOMAIN table :
        /\ scope.domain = None \/ table[k].domain = scope.domain
        /\ table[k].set \in scope.sets
        /\ scope.inactive \/ table[k].active}}
SharedOptions(table, scope) ==
    {table[i] : i \in {k \in DOMAIN table :
        /\ scope.domain = None \/ table[k].domain = scope.domain
        /\ scope.sets = {} \/ table[k].set \in scope.sets
        /\ scope.inactive \/ table[k].active}}

\* Every tag of the request is an active key of its set.
Valid(table, request) ==
    \A t \in request.tags :
        \E o \in ListOptions(table, [domain |-> request.scope.domain, sets |-> {t.set},
                                    inactive |-> FALSE]) : o.key = t.key

\* get_label_map and apply_reference_labels: an unknown or retired key has no label.
LabelFor(options, set, key) ==
    LET found == {o \in options : o.set = set /\ o.key = key}
    IN  IF found = {} THEN None ELSE (CHOOSE o \in found : TRUE).label

Fresh_AtHit(entry) == entry # None
\* The age of an entry counts from the end of its fetch.
Fresh(entry) == entry # None /\ now - entry.at < Ttl

Written(table, write) ==
    IF write.id \in DOMAIN table THEN [table EXCEPT ![write.id] = write.fields @@ @]
                                 ELSE write.id :> write.fields @@ table

Moves(r, from, to) == at[r] = from /\ at' = [at EXCEPT ![r] = to]
Replies(r, what) == reply' = [reply EXCEPT ![r] = what]

RefInit ==
    /\ now = 0
    /\ tables = <<Options>>
    /\ cache = [i \in {On(r) : r \in DOMAIN Requests} |-> None]
    /\ \E cast \in Casts :
          at = [r \in DOMAIN Requests |-> IF r \in cast THEN "new" ELSE "absent"]
    /\ held = [r \in DOMAIN Requests |-> 0]
    /\ since = [r \in DOMAIN Requests |-> [table |-> 1, after |-> {}]]
    /\ reply = [r \in DOMAIN Requests |-> None]

BeginRequest(r) ==
    /\ Moves(r, "new", Requests[r].kind)
    /\ since' = [since EXCEPT ![r] =
           [table |-> Newest, after |-> {q \in DOMAIN Requests : at[q] = "done"}]]
    /\ UNCHANGED <<now, tables, cache, held, reply>>

\* _list_shared_options with a fresh entry: no await in between.
ReadCached(r) ==
    /\ Fresh(cache[On(r)])
    /\ Moves(r, "read", "done")
    /\ Replies(r, [table |-> cache[On(r)].table, time |-> now,
                   options |-> SharedOptions(tables[cache[On(r)].table], Requests[r].scope)])
    /\ UNCHANGED <<now, tables, cache, held, since>>

\* _shared_table on a miss: the table is read,
FetchTable(r) ==
    /\ ~Fresh(cache[On(r)])
    /\ Moves(r, "read", "fetched")
    /\ held' = [held EXCEPT ![r] = Newest]
    /\ UNCHANGED <<now, tables, cache, since, reply>>

\* and whenever the answer arrives, stored over whatever is there.
StoreTable(r) ==
    /\ Moves(r, "fetched", "done")
    /\ cache' = [cache EXCEPT ![On(r)] = [at |-> now, table |-> held[r]]]
    /\ Replies(r, [table |-> held[r], time |-> now,
                   options |-> SharedOptions(tables[held[r]], Requests[r].scope)])
    /\ UNCHANGED <<now, tables, held, since>>

ValidateTags_Shared(r) ==
    /\ Moves(r, "validate", "done")
    /\ LET table == IF cache[On(r)] = None THEN Newest ELSE cache[On(r)].table
       IN  Replies(r, [table |-> table,
                       ok |-> Valid(tables[table], Requests[r])])
    /\ UNCHANGED <<now, tables, cache, held, since>>
\* validate_active_option for each tag of a write, through the request's own cache: one
\* query per set, and the whole write is refused when a key is not active.
ValidateTags(r) ==
    /\ Moves(r, "validate", "done")
    /\ Replies(r, [table |-> Newest,
                   ok |-> Valid(tables[Newest], Requests[r])])
    /\ UNCHANGED <<now, tables, cache, held, since>>

\* repository.create and update commit and then read the row again,
WriteOption(r) ==
    LET table == Written(tables[Newest], Requests[r].write)
    IN  /\ Moves(r, "write", "committed")
        /\ KeysUnique(table)
        /\ tables' = Append(tables, table)
        /\ held' = [held EXCEPT ![r] = Newest + 1]
        /\ UNCHANGED <<now, cache, since, reply>>

\* or the database refuses a key that its set has already, and the request fails.
RefuseOption(r) ==
    /\ Moves(r, "write", "refused")
    /\ ~KeysUnique(Written(tables[Newest], Requests[r].write))
    /\ UNCHANGED <<now, tables, cache, held, since, reply>>

Fetching(i) == {f \in DOMAIN Requests : On(f) = i /\ at[f] = "fetched"}

ClearCaches_Not(r) ==
    /\ Moves(r, "committed", "done")
    /\ Replies(r, [table |-> held[r], during |-> Fetching(On(r))])
    /\ UNCHANGED <<now, tables, cache, held, since>>
\* and only then the caches of this instance are cleared.
ClearCaches(r) ==
    /\ Moves(r, "committed", "done")
    /\ cache' = [cache EXCEPT ![On(r)] = None]
    /\ Replies(r, [table |-> held[r], during |-> Fetching(On(r))])
    /\ UNCHANGED <<now, tables, held, since>>

TickRef ==
    /\ now < MaxTime
    /\ now' = now + 1
    /\ UNCHANGED <<tables, cache, at, held, since, reply>>

RefNext ==
    \/ TickRef
    \/ \E r \in DOMAIN Requests :
        \/ BeginRequest(r) \/ ReadCached(r) \/ FetchTable(r) \/ StoreTable(r)
        \/ ValidateTags(r) \/ WriteOption(r) \/ RefuseOption(r) \/ ClearCaches(r)

RefSpec == RefInit /\ [][RefNext]_refVars
----------------------------------------------------------------------------
IsRead(r) == at[r] = "done" /\ Requests[r].kind = "read"
IsWrite(r) == at[r] = "done" /\ Requests[r].kind = "write"

\* A table that was superseded when it was shown had been fetched by a read of the same
\* instance, which stored it less than the time to live before.
StaleAtMostTtl ==
    \A r \in DOMAIN Requests : IsRead(r) /\ reply[r].table < Newest =>
        \E f \in DOMAIN Requests :
            /\ IsRead(f) /\ On(f) = On(r) /\ held[f] = reply[r].table
            /\ f = r \/ reply[r].time - reply[f].time \in 0 .. Ttl - 1

SeesWrites(r) == IsRead(r) => \A w \in since[r].after :
    IsWrite(w) /\ On(r) = On(w) /\ reply[w].during = {} => reply[r].table >= held[w]
\* A read that begins after a write of its own instance was answered shows that write,
\* unless a fetch that had read an older table was under way when the caches were
\* cleared.
WriterSeesItsWrite == \A r \in DOMAIN Requests : SeesWrites(r)

\* What the comment on the clearing says: clearing after the commit is enough for a
\* concurrent read not to cache what was there before it.
NoPreCommitCache ==
    \A r \in DOMAIN Requests : IsRead(r) => \A w \in since[r].after :
        IsWrite(w) /\ On(r) = On(w) => reply[r].table >= held[w]

SeesCommits(r) ==
    at[r] = "done" /\ Requests[r].kind = "validate" => reply[r].table >= since[r].table
\* A write is validated against the options committed by the time it began or later,
\* whatever the shared caches of the instances hold: a retired key is refused and a new
\* one admitted.
ValidationSeesCommits == \A r \in DOMAIN Requests : SeesCommits(r)

\* The cached path answers what the uncached one would on the same table, for every
\* scope, and within a domain labels a tag exactly when its option is in scope.
CacheFiltersAgree ==
    \A r \in DOMAIN Requests : IsRead(r) =>
        LET same == ListOptions(tables[reply[r].table], Requests[r].scope)
        IN  /\ reply[r].options = same
            /\ Requests[r].scope.domain # None =>
                 \A o \in same : LabelFor(reply[r].options, o.set, o.key) = o.label

\* Where a request is fits its kind; what it holds and began with is a committed table.
RequestKept(r) ==
    /\ at[r] \in {"read", "fetched"} => Requests[r].kind = "read"
    /\ at[r] \in {"write", "committed", "refused"} => Requests[r].kind = "write"
    /\ at[r] = "validate" => Requests[r].kind = "validate"
    /\ held[r] \in 0 .. Newest
    /\ at[r] \in {"fetched", "committed"} => held[r] \in 1 .. Newest
    /\ since[r].table \in 1 .. Newest
    /\ since[r].after \subseteq {q \in DOMAIN Requests : at[q] = "done"}

\* A table shown at a time was fetched by a read of that instance.
Fetched(i, table, time, age) ==
    \E f \in DOMAIN Requests :
        IsRead(f) /\ On(f) = i /\ held[f] = table /\ time - reply[f].time \in 0 .. age

CacheKept(i) == cache[i] # None =>
    /\ cache[i].at \in 0 .. now
    /\ cache[i].table \in 1 .. Newest
    /\ Fetched(i, cache[i].table, cache[i].at, 0)

ReadKept(r) == IsRead(r) =>
    /\ reply[r].table \in 1 .. Newest
    /\ reply[r].time \in Nat
    /\ \/ held[r] = reply[r].table
       \/ Fetched(On(r), reply[r].table, reply[r].time, Ttl - 1)
    /\ reply[r].options = SharedOptions(tables[reply[r].table], Requests[r].scope)

\* Once a write cleared its instance with no fetch under way, nothing there is older.
ClearedFor(w) == IsWrite(w) /\ reply[w].during = {} =>
    /\ cache[On(w)] # None => cache[On(w)].table >= held[w]
    /\ \A f \in Fetching(On(w)) : held[f] >= held[w]

CacheTyped ==
    /\ now \in Nat
    /\ Newest \in Nat \ {0} /\ tables \in Seq({tables[n] : n \in 1 .. Newest})
    /\ DOMAIN cache = {On(r) : r \in DOMAIN Requests}
    /\ DOMAIN at = DOMAIN Requests /\ DOMAIN held = DOMAIN Requests
    /\ DOMAIN since = DOMAIN Requests /\ DOMAIN reply = DOMAIN Requests
    /\ \A n \in 1 .. Newest : KeysUnique(tables[n])

\* The inductive invariant of the caches.
CacheInv ==
    /\ CacheTyped
    /\ \A i \in DOMAIN cache : CacheKept(i)
    /\ \A r \in DOMAIN Requests : /\ RequestKept(r) /\ ReadKept(r) /\ ClearedFor(r)
                                 /\ SeesWrites(r) /\ SeesCommits(r)

\* The shared cache of options: nothing it answers is older than its time to live, a writer
\* reads its own write, validation reads the table, and filtering the cache is filtering the
\* table. (ReferenceDataService)
CacheSafety ==
    /\ StaleAtMostTtl
    /\ WriterSeesItsWrite
    /\ ValidationSeesCommits
    /\ CacheFiltersAgree
=============================================================================
