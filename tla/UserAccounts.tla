----------------------------- MODULE UserAccounts -----------------------------
(***************************************************************************)
(* Who a request acts for, and the rows a user owns: get_current_user, the *)
(* API keys and the saved searches.  Several requests of a user are open   *)
(* at once; each reads in one statement and writes in a later one, and the *)
(* unique index on (user, resource, name) decides between two saves.       *)
(***************************************************************************)
EXTENDS Nulls, FiniteSetsExt, Integers
CONSTANTS
    Visits,        \* request -> [key, user, op, on, fields]; key None is a Clerk token
    Crowds,        \* which of them are open together
    KeyRing,       \* the keys before: key -> its owner
    SearchesAt,    \* the searches before: id -> [user, resource, name, filters]
    SearchIds,     \* every id a search may get
    Removables      \* the users another system may soft-delete

Ask(v) == Visits[v]
SearchFields == {"user", "resource", "name", "filters"}

\* The unique index holds of the searches before; a PATCH may carry a name and filters.
ASSUME AccountAssumption ==
    /\ IsFiniteSet(SearchIds) /\ SearchIds \subseteq Nat \ {0} /\ None \notin SearchIds
    /\ DOMAIN SearchesAt = SearchIds
    /\ \A id \in SearchIds : SearchesAt[id] # None => DOMAIN SearchesAt[id] = SearchFields
    /\ \A i, k \in SearchIds :
         /\ SearchesAt[i] # None /\ SearchesAt[k] # None
         /\ SearchesAt[i].user = SearchesAt[k].user
         /\ SearchesAt[i].resource = SearchesAt[k].resource
         /\ SearchesAt[i].name = SearchesAt[k].name
         => i = k
    /\ \A v \in DOMAIN Visits :
         /\ Ask(v).op = "patch" => DOMAIN Ask(v).fields \subseteq {"name", "filters"}
         /\ Ask(v).key # None => Ask(v).key \in DOMAIN KeyRing

VARIABLES
    searches,    \* users.saved_searches: id -> [user, resource, name, filters] or None
    revoked,     \* the keys whose revoked_at is set
    removed,     \* the users whose is_deleted is set
    visit,       \* each request: [at, user, row, copy, reply, wrote]
    barred       \* history: [keys, users] revoked and removed when each request began

accountVars == <<searches, revoked, removed, visit, barred>>
----------------------------------------------------------------------------
Field(v, f) == IF f \in DOMAIN Ask(v).fields THEN Ask(v).fields[f] ELSE visit[v].copy[f]
Kept == {id \in SearchIds : searches[id] # None}

\* uq_saved_searches_user_resource_name.
SameName(row) == {id \in Kept : /\ searches[id].user = row.user
                                  /\ searches[id].resource = row.resource
                                  /\ searches[id].name = row.name}
Clash_Preflight(id, row) ==
    \E k \in SameName(row) \ {id} : \A v \in DOMAIN visit : visit[v].row # k
Clash(id, row) == SameName(row) \ {id} # {}

\* get_active_by_hash.
ActiveKey_AnyRow(key) == TRUE
ActiveKey(key) == key \notin revoked

\* A user whose is_deleted is set is not found.
IsRemoved_Ignored(user) == FALSE
IsRemoved(user) == user \in removed

\* get_by_id_for_user: another user's row is as good as missing.
Owned_ById(id, user) == id \in Kept
Owned(id, user) == id \in Kept /\ searches[id].user = user

Reply(v, code) == visit' = [visit EXCEPT ![v].at = "done", ![v].reply = code]
Proceed(v, where) == visit' = [visit EXCEPT ![v].at = where]
AtOp(v, op) == visit[v].at = "op" /\ Ask(v).op = op

AccountInit ==
    /\ searches = SearchesAt
    /\ revoked = {} /\ removed = {}
    /\ \E crowd \in Crowds : visit = [v \in DOMAIN Visits |->
                   [at |-> IF v \in crowd THEN "new" ELSE "absent", user |-> None, row |-> None,
                    copy |-> None, reply |-> None, wrote |-> FALSE]]
    /\ barred = [v \in DOMAIN Visits |-> [keys |-> {}, users |-> {}]]
----------------------------------------------------------------------------
Begin(v) ==
    /\ visit[v].at = "new" /\ Proceed(v, "key")
    /\ barred' = [barred EXCEPT ![v] = [keys |-> revoked, users |-> removed]]
    /\ UNCHANGED <<searches, revoked, removed>>

\* The header of an API key is looked at first; a token names its user by the clerk id.
ResolveKey(v) ==
    /\ visit[v].at = "key"
    /\ LET owner == IF Ask(v).key = None THEN Ask(v).user ELSE KeyRing[Ask(v).key]
       IN  IF Ask(v).key # None /\ ~ActiveKey(Ask(v).key) THEN Reply(v, 401)
           ELSE visit' = [visit EXCEPT ![v].at = "user", ![v].user = owner]
    /\ UNCHANGED <<searches, revoked, removed, barred>>

ResolveUser(v) ==
    /\ visit[v].at = "user"
    /\ IF IsRemoved(visit[v].user) THEN Reply(v, 401) ELSE Proceed(v, "op")
    /\ UNCHANGED <<searches, revoked, removed, barred>>

\* After the rollback of a taken name a create has the values of its payload to build the
\* error from; a PATCH has the loaded row, which the rollback expired.
AfterClash_Expired(v) == "expired"
AfterClash(v) == IF Ask(v).op = "create" THEN "clash" ELSE "expired"

CreateSearch(v) ==
    /\ AtOp(v, "create")
    /\ LET row == [user |-> visit[v].user, resource |-> Ask(v).fields.resource,
                   name |-> Ask(v).fields.name, filters |-> Ask(v).fields.filters]
           taken == {k \in SearchIds : k \in Kept \/ \E w \in DOMAIN visit : visit[w].row = k}
           id == Max({0} \cup taken) + 1
       IN  IF Clash(id, row) THEN Proceed(v, AfterClash(v)) /\ UNCHANGED searches
           ELSE /\ id \in SearchIds
                /\ searches' = [searches EXCEPT ![id] = row]
                /\ visit' = [visit EXCEPT ![v].at = "refresh", ![v].row = id, ![v].wrote = TRUE]
    /\ UNCHANGED <<revoked, removed, barred>>

\* _duplicate_error after the rollback: the holder of the name, if it is still there.
NameHolder(v) ==
    /\ visit[v].at = "clash"
    /\ LET held == SameName([user |-> visit[v].user, resource |-> Ask(v).fields.resource,
                             name |-> Ask(v).fields.name])
       IN  visit' = [visit EXCEPT ![v].at = "done", ![v].reply = 409,
                        ![v].row = IF held = {} THEN None ELSE CHOOSE id \in held : TRUE]
    /\ UNCHANGED <<searches, revoked, removed, barred>>

\* _get_owned_or_404.
LoadSearch(v) ==
    /\ AtOp(v, "patch") \/ AtOp(v, "delete")
    /\ IF Owned(Ask(v).on, visit[v].user)
       THEN visit' = [visit EXCEPT ![v].at = "write", ![v].row = Ask(v).on,
                                   ![v].copy = searches[Ask(v).on]]
       ELSE Reply(v, 404)
    /\ UNCHANGED <<searches, revoked, removed, barred>>

Patched_WholeRow(v, row) == [f \in DOMAIN row |-> Field(v, f)]
\* The fields of the request; the others keep what the table holds by then.
Patched(v, row) ==
    [f \in DOMAIN row |-> IF f \in DOMAIN Ask(v).fields THEN Ask(v).fields[f] ELSE row[f]]

\* update(): the fields are written over the row as it is by then; a row that is gone raises.
PatchSearch(v) ==
    /\ visit[v].at = "write" /\ Ask(v).op = "patch"
    /\ LET id == visit[v].row
       IN  IF id \notin Kept THEN Reply(v, 500) /\ UNCHANGED searches
           ELSE IF Clash(id, Patched(v, searches[id]))
           THEN Proceed(v, AfterClash(v)) /\ UNCHANGED searches
           ELSE /\ searches' = [searches EXCEPT ![id] = Patched(v, @)]
                /\ visit' = [visit EXCEPT ![v].at = "refresh", ![v].wrote = TRUE]
    /\ UNCHANGED <<revoked, removed, barred>>
\* Reading the owner of an expired row raises: the controller's last handler answers.
LoseRow(v) ==
    /\ visit[v].at = "expired" /\ Reply(v, 500)
    /\ UNCHANGED <<searches, revoked, removed, barred>>

\* delete(): a row that is gone by then is no error.
DeleteSearch(v) ==
    /\ visit[v].at = "write" /\ Ask(v).op = "delete"
    /\ searches' = [searches EXCEPT ![visit[v].row] = None]
    /\ visit' = [visit EXCEPT ![v].at = "done", ![v].reply = 204, ![v].wrote = TRUE]
    /\ UNCHANGED <<revoked, removed, barred>>

\* db.refresh after the commit, the last thing that may fail.
RefreshSearch(v) ==
    /\ visit[v].at = "refresh"
    /\ Reply(v, IF visit[v].row \in Kept THEN 200 ELSE 500)
    /\ UNCHANGED <<searches, revoked, removed, barred>>

\* revoke_key, one statement after the ownership check.
RevokeKey(v) ==
    /\ AtOp(v, "revoke")
    /\ IF KeyRing[Ask(v).on] = visit[v].user
       THEN Reply(v, 204) /\ revoked' = revoked \cup {Ask(v).on}
       ELSE Reply(v, 404) /\ UNCHANGED revoked
    /\ UNCHANGED <<searches, removed, barred>>

RemoveUser(u) ==
    /\ u \in Removables \ removed /\ removed' = removed \cup {u}
    /\ UNCHANGED <<searches, revoked, visit, barred>>

AccountNext ==
    \/ \E v \in DOMAIN Visits :
         \/ Begin(v) \/ ResolveKey(v) \/ ResolveUser(v) \/ CreateSearch(v) \/ NameHolder(v)
         \/ LoadSearch(v) \/ PatchSearch(v) \/ LoseRow(v) \/ DeleteSearch(v)
         \/ RefreshSearch(v) \/ RevokeKey(v)
    \/ \E u \in Removables : RemoveUser(u)

AccountSpec == AccountInit /\ [][AccountNext]_accountVars
----------------------------------------------------------------------------
\* Two searches of a user never share a name in one list view, whatever saves and renames
\* are under way together.
NamesAreUnique == \A id \in Kept : ~Clash(id, searches[id]) /\ SameName(searches[id]) = {id}

\* A request changes rows of its own user only, and names no other user's row in an answer.
OwnersAlone ==
    [][\A v \in DOMAIN visit :
         visit'[v] # visit[v] =>
           /\ \A id \in SearchIds : searches'[id] # searches[id] =>
                 \A row \in {searches[id], searches'[id]} \ {None} : row.user = visit[v].user
           /\ visit'[v].row \in Kept => searches[visit'[v].row].user = visit'[v].user]_accountVars

\* A PATCH changes the fields it was sent and no other, also when the row changed after it
\* was read: two PATCHes of different fields both last.
PatchesMerge ==
    [][\A v \in DOMAIN visit : Ask(v).op = "patch" /\ visit'[v].wrote # visit[v].wrote =>
         \A f \in {"name", "filters"} \ DOMAIN Ask(v).fields :
             searches'[visit[v].row][f] = searches[visit[v].row][f]]_accountVars

\* No request takes a step past its lookups that began with a revoked key or for a removed
\* user: a key revoked, or a user removed, after it began may be seen in time or not.
\* (ApiKeyService.resolve_user, get_current_user)
Admitted(v) ==
    ~ (visit[v].at = "done" /\ visit[v].reply = 401) =>
        /\ visit[v].at \notin {"absent", "new", "key"} /\ Ask(v).key # None =>
              Ask(v).key \notin barred[v].keys
        /\ visit[v].at \notin {"absent", "new", "key", "user"} =>
              visit[v].user \notin barred[v].users
RevocationHolds ==
    [][\A v \in DOMAIN visit : visit'[v] # visit[v] => Admitted(v)']_accountVars

\* An answer tells what became of the rows: success has written, a refusal has not, a save
\* that lost its name is told so, and a failure without a reason is that of a row another
\* request deleted - or of a rename, which then wrote nothing.
Tells(v) ==
    /\ visit[v].reply = 200 => visit[v].wrote = TRUE
    /\ visit[v].reply \in {401, 404, 409} => visit[v].wrote = FALSE
    /\ visit[v].reply = 500 => IF visit[v].wrote = TRUE THEN visit[v].row \notin Kept
                               ELSE Ask(v).op = "patch"
AnswersTell == \A v \in DOMAIN visit : visit[v].at = "done" => Tells(v)

AccountTyped ==
    /\ DOMAIN searches = SearchIds
    /\ DOMAIN visit = DOMAIN Visits /\ DOMAIN barred = DOMAIN Visits
    /\ \A v \in DOMAIN visit :
         DOMAIN visit[v] = {"at", "user", "row", "copy", "reply", "wrote"}
    /\ \A id \in Kept : DOMAIN searches[id] = SearchFields

\* The row a request works on or answers with is of its user, as long as it is there.
RowKept(v) ==
    /\ visit[v].at \in {"absent", "new", "key"} => visit[v].row = None
    /\ visit[v].at = "write" => visit[v].row \in SearchIds
    /\ visit[v].row \in Kept => searches[visit[v].row].user = visit[v].user

\* What was revoked or removed when the request began still is, and it came with neither.
CredentialKept(v) ==
    /\ visit[v].at \notin {"absent", "new"} =>
          barred[v].keys \subseteq revoked /\ barred[v].users \subseteq removed
    /\ Admitted(v)

\* A request has written when it comes to its refresh and not before; only a PATCH expires.
WriteKept(v) ==
    /\ visit[v].at \notin {"refresh", "done"} => visit[v].wrote = FALSE
    /\ visit[v].at = "refresh" => visit[v].wrote = TRUE
    /\ visit[v].at = "expired" => Ask(v).op = "patch"
    /\ visit[v].at = "done" => Tells(v)

\* The inductive invariant of the requests of users.
AccountInv ==
    /\ AccountTyped
    /\ NamesAreUnique
    /\ \A v \in DOMAIN visit : RowKept(v) /\ CredentialKept(v) /\ WriteKept(v)

\* Requests of users that race: saved searches keep unique names and merge patches, rows are
\* changed by their owners alone, a revoked key or a removed user opens nothing, and an answer
\* tells what was written.
\* (SavedSearchService, ApiKeyService, get_current_user)
AccountSafety ==
    /\ []NamesAreUnique
    /\ []AnswersTell
    /\ RevocationHolds
    /\ OwnersAlone
    /\ PatchesMerge
=============================================================================
