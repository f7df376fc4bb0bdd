---------------------------- MODULE LegacyImport ----------------------------
(***************************************************************************)
(* The import of the legacy deals: a script that is run by hand, again and *)
(* again.  Every deal is a transaction of its own; with --update a deal    *)
(* already loaded is deleted, committed, and inserted afresh.  A label     *)
(* that names no user gets a placeholder user, committed at once.          *)
(***************************************************************************)
EXTENDS LegacySheet
CONSTANTS
    Workbooks,      \* the workbooks a run may be given
    PeopleBefore,   \* clerk id -> the keys build_user_matcher derives for that user
    Labels,         \* sheet label -> [key, slug, kept]: lower case, clerk id, stored name's key
    Scraped,        \* the zpids in scheduled_listings
    Unstorable,     \* the deals whose values the database refuses
    Ranges,         \* the --range arguments
    MaxImports

VARIABLES
    workbook,   \* the sheet
    imported,   \* sheet number -> the row loaded for it, None
    people,     \* clerk id -> [keys, live]
    importer,   \* the running script
    imports,    \* how many runs began
    lostNames   \* history: the placeholders deleted since they were made

legacyVars == <<workbook, imported, people, importer, imports, lostNames>>
----------------------------------------------------------------------------
AllNumbers ==
    UNION {DOMAIN b.tabs \cup UNION {{b.tracking[t][i].link : i \in DOMAIN b.tracking[t]} :
              t \in DOMAIN b.tracking} : b \in Workbooks} \ {None}
Keys == {Labels[l].key : l \in DOMAIN Labels}
IdleImport ==
    [at |-> "idle", update |-> FALSE, asked |-> {}, deals |-> <<>>, queue |-> <<>>, known |-> {},
     matcher |-> <<>>, made |-> <<>>, analyst |-> None, approver |-> None,
     inserted |-> {}, skipped |-> {}, failed |-> {}]
LegacyInit ==
    /\ workbook \in Workbooks
    /\ imported = [n \in AllNumbers |-> None]
    /\ people = [c \in DOMAIN PeopleBefore |-> [keys |-> PeopleBefore[c], live |-> TRUE]]
    /\ importer = IdleImport
    /\ imports = 0
    /\ lostNames = {}

\* setdefault: of the live users with a key, the one read first.
Matchers ==
    LET of(k) == {c \in DOMAIN people : people[c].live /\ k \in people[c].keys}
        known == {k \in Keys : of(k) # {}}
    IN {f \in [known -> DOMAIN people] : \A k \in known : f[k] \in of(k)}

\* Every deal is built before the first is loaded: an unmapped status stops the script here.
SheetDeals(data, range) == [n \in NumbersOf(data, range[1], range[2]) |-> BuildDeal(data, n)]
Started(matcher, update, deals) ==
    [IdleImport EXCEPT
        !.at = IF \E n \in DOMAIN deals : deals[n].status = "unmapped" THEN "aborted" ELSE "deal",
        !.update = update, !.asked = DOMAIN deals, !.deals = deals,
        !.queue = SetToSortSeq(DOMAIN deals, <),
        !.known = {n \in AllNumbers : imported[n] # None}, !.matcher = matcher]
BeginImport(update, range) ==
    /\ importer.at \in {"idle", "reported", "aborted", "crashed"} /\ imports < MaxImports
    /\ imports' = imports + 1
    /\ \E matcher \in Matchers, data \in {ReadWorkbook(workbook), ReadGoogleSheet(workbook)} :
          importer' = Started(matcher, update, SheetDeals(data, range))
    /\ UNCHANGED <<workbook, imported, people, lostNames>>

Current == Head(importer.queue)
TakeDeal ==
    /\ importer.at = "deal" /\ importer.queue # <<>>
    /\ IF Current \in importer.known /\ ~ importer.update
       THEN /\ importer' = [importer EXCEPT !.queue = Tail(@), !.skipped = @ \cup {Current}]
            /\ UNCHANGED imported
       ELSE /\ importer' = [importer EXCEPT !.at = "analyst", !.analyst = None, !.approver = None]
            /\ imported' = [imported EXCEPT
                               ![Current] = IF Current \in importer.known THEN None ELSE @]
    /\ UNCHANGED <<workbook, people, imports, lostNames>>

\* resolve_user: the matched user, the placeholder of this run, or a new one, committed.
Cached_Forgotten(k) == FALSE
Cached(k) == k \in DOMAIN importer.made
Resolve(role, next) ==
    LET label == importer.deals[Current][role]
        name == Labels[label]
        found(user) == importer' = [importer EXCEPT !.at = next, ![role] = user]
    IN
    /\ importer.at = role
    /\ \/ label = None /\ found(None) /\ UNCHANGED people
       \/ /\ label # None /\ name.key \in DOMAIN importer.matcher
          /\ found(importer.matcher[name.key]) /\ UNCHANGED people
       \/ /\ label # None /\ name.key \notin DOMAIN importer.matcher /\ Cached(name.key)
          /\ found(importer.made[name.key]) /\ UNCHANGED people
       \/ /\ label # None /\ name.key \notin DOMAIN importer.matcher /\ ~ Cached(name.key)
          /\ IF name.slug \in DOMAIN people      \* clerk_id is unique over all rows
             THEN importer' = [importer EXCEPT !.at = "aborted"] /\ UNCHANGED people
             ELSE /\ people' = people @@ name.slug :> [keys |-> {name.kept}, live |-> TRUE]
                  /\ importer' = [importer EXCEPT !.at = next, ![role] = name.slug,
                                                  !.made = @ @@ name.key :> name.slug]
    /\ UNCHANGED <<workbook, imported, imports, lostNames>>
ResolveAnalyst == Resolve("analyst", "approver")
ResolveApprover == Resolve("approver", "create")

\* The users a failed create leaves: each was committed on its own.
Survivors_Uncommitted ==
    [c \in DOMAIN people \ {importer.made[k] : k \in DOMAIN importer.made} |-> people[c]]
Survivors == people
Reported_Quietly == {}
Reported == {Current}
InsertDeal ==
    LET deal == importer.deals[Current]
        refused == \/ Current \in Unstorable
                   \/ imported[Current] # None       \* uq_underwritings_sheet_number
                   \/ {importer.analyst, importer.approver} \ {None} \notin SUBSET DOMAIN people
        zpid == IF deal.candidate \in Scraped THEN deal.candidate ELSE None
    IN
    /\ importer.at = "create"
    /\ importer' = [importer EXCEPT !.at = "deal", !.queue = Tail(@),
            !.inserted = IF refused THEN @ ELSE @ \cup {Current},
            !.failed = IF refused THEN @ \cup Reported ELSE @]
    /\ imported' = [imported EXCEPT ![Current] = IF refused THEN @ ELSE
            [status |-> deal.status, url |-> deal.url, zpid |-> zpid, price |-> deal.price,
             analyst |-> importer.analyst, approver |-> importer.approver]]
    /\ people' = IF refused THEN Survivors ELSE people
    /\ UNCHANGED <<workbook, imports, lostNames>>

FinishImport ==
    /\ importer.at = "deal" /\ importer.queue = <<>>
    /\ importer' = [importer EXCEPT !.at = "reported"]
    /\ UNCHANGED <<workbook, imported, people, imports, lostNames>>
CrashImport ==
    /\ importer.at \in {"deal", "analyst", "approver", "create"}
    /\ importer' = [IdleImport EXCEPT !.at = "crashed"]
    /\ UNCHANGED <<workbook, imported, people, imports, lostNames>>

\* Between runs a user is soft-deleted in the users table.
DeleteUser(c) ==
    /\ importer.at \in {"idle", "reported", "aborted", "crashed"} /\ imports < MaxImports
    /\ people[c].live
    /\ people' = [people EXCEPT ![c].live = FALSE]
    /\ lostNames' = lostNames \cup ({c} \ DOMAIN PeopleBefore)
    /\ UNCHANGED <<workbook, imported, importer, imports>>

LegacyNext ==
    \/ \E update \in BOOLEAN, range \in Ranges : BeginImport(update, range)
    \/ TakeDeal \/ ResolveAnalyst \/ ResolveApprover \/ InsertDeal \/ FinishImport \/ CrashImport
    \/ \E c \in DOMAIN people : DeleteUser(c)

LegacySpec == LegacyInit /\ [][LegacyNext]_legacyVars
----------------------------------------------------------------------------
ShowsErrors(rows) == \E i \in DOMAIN rows : \E c \in DOMAIN rows[i] : rows[i][c] \in ErrorCells
Begins == imports' # imports

\* What the two readers agree on: a deal's tab has the same figures and the same sections
\* whatever its cells show, and the live sheet has no deal the export lacks; without a failed
\* formula, and with web links only, both give the same deals, but for the & of a link.
\* (read_google_sheet, read_workbook)
ReadersAgree ==
    [][Begins =>
        LET export == ReadWorkbook(workbook)
            live == ReadGoogleSheet(workbook)
        IN /\ \A n \in DOMAIN workbook.tabs :
                LET a == ParseDealTab(export.tabs[n])
                    b == ParseDealTab(live.tabs[n])
                IN \A f \in {"purchase", "loan", "taxes", "revenue", "coc", "cleaning", "url",
                             "missing"} : a[f] = b[f]
           /\ DOMAIN live.summaries \subseteq DOMAIN export.summaries
           /\ /\ LinksIn(workbook) \subseteq External \cup {None}
              /\ \A t \in DOMAIN workbook.tracking : ~ ShowsErrors(workbook.tracking[t])
              /\ \A n \in DOMAIN workbook.tabs : ~ ShowsErrors(workbook.tabs[n])
              => \A n \in AllNumbers :
                    LET a == BuildDeal(export, n)
                        b == BuildDeal(live, n)
                    IN /\ n \in NumbersOf(export, n, n) <=> n \in NumbersOf(live, n, n)
                       /\ \A f \in DOMAIN a \ {"url"} : a[f] = b[f]
                       /\ a.url # b.url => a.url = Escaped[b.url]]_legacyVars

\* The sections of a deal's tab are found by their labels: a row the template inserts on top
\* moves no value, as long as no block grows past its window, and costs no more than the row
\* it pushes past the last that is read.  (parse_deal_tab)
ShiftsAreHarmless ==
    [][Begins => \A n \in DOMAIN workbook.tabs : LET grid == workbook.tabs[n] IN
          ParseDealTab(FirstRows(<<<<>>>> \o grid)) =
              ParseDealTab(SubSeq(grid, 1, Min({TabRows - 1, Len(grid)})))]_legacyVars

\* A run that reports has accounted for every deal it was asked for: it is stored, or it is
\* named among the failed - deals deleted for --update and not inserted again included.
\* (load_deals)
DealsAreAccounted ==
    importer.at = "reported" =>
        \A n \in importer.asked : imported[n] # None \/ n \in importer.failed

\* One deal failing fails no other: only the deals the database refuses for their own values
\* fail.  (load_deals, resolve_user)
FailuresAreTheirOwn == importer.failed \subseteq Unstorable

\* Apart from a status nobody mapped, only a placeholder whose name no longer finds it ends a
\* run early: one that was deleted, or one whose stored name or clerk id differs from its label.
\* (resolve_user, split_person_name, legacy_clerk_id)
OnlyLostNamesAbort ==
    importer.at = "aborted" =>
        \/ \E n \in importer.asked : importer.deals[n].status = "unmapped"
        \/ lostNames # {}
        \/ \E l \in DOMAIN Labels : Labels[l].kept # Labels[l].key
        \/ \E l, k \in DOMAIN Labels :
              Labels[l].key # Labels[k].key /\ Labels[l].slug = Labels[k].slug

\* Every workbook of the import is accounted for, a failed deal harms no other, and the
\* figures read from a deal's tab depend neither on the reader nor on moved rows.
\* (backfill_legacy_underwritings.py)
LegacySafety ==
    /\ []DealsAreAccounted
    /\ []FailuresAreTheirOwn
    /\ []OnlyLostNamesAbort
    /\ ReadersAgree
    /\ ShiftsAreHarmless
=============================================================================
