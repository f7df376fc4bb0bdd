----------------------------- MODULE MCServices -----------------------------
(***************************************************************************)
(* The service components on small instances, in one run.  They share no   *)
(* variable, so the states reachable in their product are the product of   *)
(* the states reachable in each: an instance picks one component in Init   *)
(* and steps that one, with every choice it has, while the others rest in  *)
(* an initial state.                                                       *)
(***************************************************************************)
EXTENDS DealNumbers, OperatingExpenses, DealList, DealCreation, ReferenceData, Jobs,
    PriceSync, UserAccounts, Outbound, StatusAnalytics, DealAnalytics, LegacyImport,
    DataRepairs, Markets

CONSTANT Active  \* the components this instance steps

VARIABLE active

MCLoanCases ==
    [amount : {0, 6, 7}, rate : {Zero, Frac(1, 5), One}, years : {1, 2}]

MCTerms == [price |-> 10, down |-> 2, closing |-> 1, rate |-> 2, years |-> 1]
MCRevenue == [cohost |-> 1, apprec |-> 1, low |-> 8, mid |-> 10, high |-> 12]
MCTax == [land |-> 2, sla |-> 4, bonus |-> 10, rate |-> 3]
MCSilent ==
    [terms |-> None, revenue |-> None, tax |-> None, loan |-> None, items |-> None,
     expenses |-> None, price |-> None, oop |-> None]
MCFull ==
    [MCSilent EXCEPT !.terms = MCTerms, !.revenue = MCRevenue, !.tax = MCTax,
                     !.items = <<2, 2>>, !.expenses = <<1>>]
MCLoan(a) == [amount |-> a]
MCPayloads ==
    {[MCFull EXCEPT !.items = i, !.loan = l] :
        i \in {<<>>, <<2, 2>>}, l \in {None, MCLoan(2)}} \cup
    {[MCFull EXCEPT !.loan = MCLoan(None)], [MCFull EXCEPT !.revenue = None], [MCFull EXCEPT !.tax = None],
     [MCFull EXCEPT !.terms.rate = 0, !.terms.price = 20],
     [MCFull EXCEPT !.items = None], [MCFull EXCEPT !.loan = MCLoan(9)],
     [MCSilent EXCEPT !.items = <<>>, !.tax = MCTax, !.price = 20],
     [MCSilent EXCEPT !.tax = MCTax, !.price = 10], [MCSilent EXCEPT !.revenue = MCRevenue],
     [MCSilent EXCEPT !.oop = Whole(1)], [MCSilent EXCEPT !.loan = MCLoan(5)],
     [MCSilent EXCEPT !.expenses = <<>>]}

MCBedroomRow ==
    [cleaning_fee |-> 2, num_of_turns |-> 3, pool_hot_tub_low |-> NoAmount, property_taxes |-> 3,
     insurance |-> 5, new_column |-> 1]
MCBedroomRows == 3 :> MCBedroomRow @@ 4 :> NoRow
MCSizeRow == [internet |-> 6]

MCDeal ==
    [status |-> None, tag |-> None, keys |-> None, flag |-> None, pending |-> None,
     pitch |-> "blank", thread |-> None, zpid |-> None, built |-> None, created |-> 2,
     words |-> {"elm"}, sheet |-> None, oop |-> None, inputs |-> FALSE,
     recalc |-> [same |-> None, other |-> None], automated |-> FALSE, zillow |-> "typed",
     analyst |-> "gone", market |-> None]
MCScraped ==
    [MCDeal EXCEPT !.status = "leads", !.tag = "a", !.keys = {"jan", "feb"}, !.flag = TRUE,
                   !.pending = FALSE, !.pitch = "text", !.thread = "t1", !.zpid = "z1",
                   !.built = 1990, !.oop = 2, !.inputs = TRUE, !.automated = TRUE,
                   !.recalc = [same |-> 2, other |-> 1], !.zillow = None,
                   !.analyst = "ana", !.market = "m1"]
MCRejected == [MCScraped EXCEPT !.status = "delete_deal", !.created = 3, !.zpid = "z2"]
MCCheap == [MCScraped EXCEPT !.oop = 1, !.recalc = [same |-> 1, other |-> 3], !.created = 4,
                             !.flag = FALSE, !.keys = {}, !.sheet = "7", !.words = {"oak"}]
MCKinds == {MCDeal, MCScraped, MCRejected, MCCheap}
MCBooks ==
    {<<MCDeal, a, b, a, MCDeal>> : a, b \in MCKinds \ {MCDeal}}
MCQuery ==
    [statuses |-> {}, tags |-> {}, keys |-> {}, flag |-> None, pending |-> None,
     pitch |-> None, involved |-> None, threads |-> {"t1"}, built |-> <<None, None>>,
     days |-> <<None, None>>, term |-> None, oop |-> <<None, None>>, sort |-> "id",
     descending |-> TRUE, rate |-> None]
MCFilters ==
    {MCQuery, [MCQuery EXCEPT !.flag = FALSE, !.involved = FALSE],
     [MCQuery EXCEPT !.pending = FALSE, !.days = <<1, 1>>, !.oop = <<1, 2>>],
     [MCQuery EXCEPT !.pitch = TRUE, !.built = <<1980, None>>, !.keys = {"jan", "mar"}],
     [MCQuery EXCEPT !.statuses = {"leads", "delete_deal"}, !.tags = {"a"}, !.term = "elm"]}
MCQueries ==
    {[f EXCEPT !.sort = s, !.descending = d, !.rate = r] :
        f \in MCFilters, s \in {"id", "oop"}, d \in BOOLEAN, r \in {None, "same", "other"}}
MCEdits == {[oop |-> 3]}
MCRealtorsOf == [m1 |-> <<"r3", "r2", "r1">>]

MCPropertyAt == [plain |-> "z1", query |-> "z1", other |-> "z2"]
MCDetailUrl == [z1 |-> "plain", z2 |-> "other"]
MCOnFile == [z2 |-> 7]
MCAsk(k, u, m, z, d) == [kind |-> k, url |-> u, market |-> m, zpid |-> z, deal |-> d]
MCByUrl(u, m) == MCAsk("url", u, m, None, None)
MCJob(z) == MCAsk("job", None, None, z, None)
MCBlank(u) == MCAsk("blank", u, None, None, None)
MCCopy(d) == MCAsk("copy", None, None, None, d)
MCPlans ==
    {<<MCByUrl("plain", 1), MCByUrl("query", None), MCJob("z1")>>,
     <<MCByUrl("query", 1), MCJob("z1"), MCBlank("plain")>>,
     <<MCByUrl("other", 1), MCByUrl("other", 7), MCBlank("other")>>,
     <<MCByUrl("query", 1), MCCopy(1), MCCopy(1)>>,
     <<MCCopy(1), MCCopy(1), MCCopy(1)>>, <<MCByUrl("plain", 1), MCCopy(1), MCCopy(2)>>}
MCPasts ==
    {<<Row(z, "plain", 1, 0, "committed", None, {})>> : z \in {None, "z1"}} \cup
    {<<>>, <<Row("z2", "other", 1, 0, "committed", None, {}), Row("z2", "other", 1, 1, "committed", None, {})>>}

MCOption(s, k, l, a) == [domain |-> "iron_bank", set |-> s, key |-> k, label |-> l, active |-> a]
MCOptions == <<MCOption("pool", "in", "In", TRUE), MCOption("view", "lake", "Lake", TRUE),
               [MCOption("pool", "in", "Indoor", TRUE) EXCEPT !.domain = "markets"]>>
MCScope(s) == [domain |-> "iron_bank", sets |-> s, inactive |-> FALSE]
MCRequest(k, i, s) == [kind |-> k, on |-> i, scope |-> MCScope(s), write |-> None, tags |-> {}]
MCRequests ==
    <<MCRequest("read", 1, {}), MCRequest("read", 1, {"pool"}),
      [MCRequest("write", 1, {}) EXCEPT !.write = [id |-> 1, fields |-> [active |-> FALSE]]],
      MCRequest("read", 1, {"view"}),
      [MCRequest("write", 2, {}) EXCEPT !.write =
          [id |-> 4, fields |-> MCOption("pool", "none", "No pool", TRUE)]],
      [MCRequest("validate", 1, {}) EXCEPT !.tags = {[set |-> "pool", key |-> "in"]}],
      [MCRequest("write", 1, {}) EXCEPT !.write =
          [id |-> 5, fields |-> MCOption("pool", "none", "None", TRUE)]]>>

MCTriggers ==
    <<[type |-> "batch_prepare_all", key |-> None, since |-> 1, limit |-> 3],
      [type |-> "batch_prepare_by_market", key |-> 7, since |-> 2, limit |-> None]>>
MCJobListing(z, u, m, c, d) ==
    [zpid |-> z, url |-> u, market |-> m, preset |-> m, active |-> TRUE, created |-> c, data |-> d]
MCJobListings ==
    {MCJobListing(1, "a", 7, 3, "ok"), MCJobListing(2, "b", 7, 2, "broken"), MCJobListing(3, None, 8, 2, "unpriced"),
     MCJobListing(4, "a", 8, 1, "ok"), MCJobListing(5, "c", 7, 2, "ok"),
     [MCJobListing(6, "d", 7, 3, "ok") EXCEPT !.active = FALSE]}
MCUnderwritten == {[zpid |-> None, url |-> "c", by |-> 0]}

MCPricedDeal(z, c, f) == [zpid |-> z, closed |-> c, complete |-> f]
MCBook == <<MCPricedDeal(1, FALSE, TRUE), MCPricedDeal(1, FALSE, TRUE), MCPricedDeal(1, TRUE, TRUE), MCPricedDeal(2, FALSE, FALSE)>>
MCChanged == <<1, 3>>
MCHome(n, t, h) == [num |-> n, text |-> t, home |-> h]
MCFeed == <<MCHome(2, None, "FOR_SALE"), MCHome(0, 3, None)>>
MCScrapes == <<{MCHome(2, 2, "OTHER"), MCHome(None, 0, "PENDING")}, {MCHome(1, None, "FOR_SALE")}>>

MCVisit(k, u, op, on, f) == [key |-> k, user |-> u, op |-> op, on |-> on, fields |-> f]
MCVisits ==
    <<MCVisit(None, 1, "create", None, [resource |-> "r", name |-> "y", filters |-> 1]),
      MCVisit("k1", 1, "patch", 1, [name |-> "y"]),
      MCVisit(None, 1, "patch", 1, [filters |-> 2]),
      MCVisit(None, 2, "delete", 1, <<>>),
      MCVisit(None, 1, "delete", 1, <<>>),
      MCVisit(None, 1, "revoke", "k1", <<>>)>>
MCKeyRing == [k \in {"k1"} |-> 1]
MCSearchesAt ==
    <<[user |-> 1, resource |-> "r", name |-> "x", filters |-> 0],
      [user |-> 2, resource |-> "r", name |-> "y", filters |-> 0], None>>

MCCalls == [p1 |-> "analyst_completed", p2 |-> "present_to_clients", f1 |-> "scrape", f2 |-> "rate"]
MCClients ==
    [n8n |-> [tries |-> 2, final |-> {"ok", "empty"}],
     scrape |-> [tries |-> 3, final |-> {"ok", "empty", "401"}],
     rate |-> [tries |-> 3, final |-> {"ok"}]]

MCMarket(s, st) == [slug |-> s, name |-> "market " \o s, status |-> st, live |-> TRUE]
MCMarketsBefore ==
    <<MCMarket("a", "active"), MCMarket("b", "active"),
      MCMarket("e", "exploratory"), MCMarket("f", "exploratory")>>
MCPair(t, s) == [target |-> t, source |-> s, slug |-> MCMarketsBefore[t].slug]
MCCells(hoi, tax) == [hoi |-> hoi, tax |-> tax]
MCRow(t, m, key) == [table |-> t, market |-> m, key |-> key, cells |-> MCCells(100, 1),
                     live |-> TRUE, from |-> None, open |-> None]
MCOpexRowsBefore ==
    <<MCRow("bedrooms", 1, 3), MCRow("size", 1, 9), MCRow("bedrooms", 2, 4), MCRow("size", 2, 9),
      MCRow("size", 4, 8), MCRow("bedrooms", 1, None)>>
MCPatch(id, s, m, k, new) ==
    [op |-> "patch", on |-> id, slug |-> s, market |-> m, key |-> k, cells |-> new]
MCOpexAsks ==
    <<[op |-> "seed", pairs |-> <<MCPair(3, 1)>>],
      [op |-> "batch", pairs |-> <<MCPair(3, 2), MCPair(4, 1)>>],
      [op |-> "market", on |-> 3, status |-> "active", live |-> TRUE],
      [op |-> "market", on |-> 1, status |-> "active", live |-> FALSE],
      [op |-> "create", slug |-> "e", market |-> None, table |-> "bedrooms", key |-> 3, cells |-> MCCells(0, 0)],
      [op |-> "delete", on |-> 5],
      [op |-> "find", slug |-> "a", market |-> None, table |-> "bedrooms", key |-> 3],
      [op |-> "csv", table |-> "bedrooms", lines |->
         {[market |-> "market a", id |-> 1, key |-> 3,
           cells |-> [hoi |-> <<"amount", 1>>, tax |-> <<"percent", 2>>]],
          [market |-> "market b", id |-> None, key |-> 4, cells |-> [hoi |-> <<"null">>, tax |-> <<"blank">>]],
          [market |-> "market z", id |-> 9, key |-> 4, cells |-> [hoi |-> <<"blank">>, tax |-> <<"blank">>]]}],
      MCPatch(1, None, None, <<>>, [hoi |-> 300]),
      [op |-> "csv", table |-> "size", lines |->
         {[market |-> "market a", id |-> None, key |-> 9,
           cells |-> [hoi |-> <<"percent", 1>>, tax |-> <<"blank">>]]}],
      [op |-> "new market", slug |-> "a", name |-> "market a", status |-> "active"],
      [op |-> "create", slug |-> "a", market |-> None, table |-> "bedrooms", key |-> 3, cells |-> MCCells(0, 0)],
      [op |-> "seed", pairs |-> <<MCPair(3, 3)>>],
      MCPatch(3, "e", None, <<3>>, <<>>),
      [op |-> "csv", table |-> "size", lines |->
         {[market |-> "market a", id |-> 5, key |-> 9,
           cells |-> [hoi |-> <<"amount", 1>>, tax |-> <<"blank">>]]}],
      [op |-> "create", slug |-> None, market |-> 9, table |-> "size", key |-> 3, cells |-> MCCells(0, 0)],
      MCPatch(6, None, 3, <<None>>, <<>>),
      [op |-> "find", slug |-> None, market |-> None, table |-> "size", key |-> 9],
      [op |-> "delete", on |-> 5],
      [op |-> "market", on |-> 1, status |-> "exploratory", live |-> TRUE]>>

MCKeyed(k) == [key |-> k, live |-> TRUE]
MCRecordsBefore == [realtors |-> <<MCKeyed("x@"), MCKeyed("y@")>>,
                    amenities |-> <<MCKeyed("pool"), MCKeyed("sauna")>>,
                    fees |-> <<MCKeyed(10), MCKeyed(99)>>]
MCBooksBefore == <<[slug |-> "a", live |-> TRUE, lists |-> [realtors |-> <<1>>, amenities |-> <<2, 1>>]],
                   [slug |-> "b", live |-> TRUE, lists |-> [realtors |-> <<>>, amenities |-> <<>>]]>>
MCEmailForms == [e \in {"x@", "X@ ", "y@", "z@", "Z@", "x@t", " "} |->
                   [base |-> CASE e \in {"x@", "X@ ", "x@t"} -> "x" [] e = "y@" -> "y" [] e = " " -> ""
                            [] OTHER -> "z",
                    tab |-> e = "x@t"]]
MCDealings ==
    <<[op |-> "save", on |-> 1, lists |-> [realtors |-> <<2, 1>>, amenities |-> <<1>>]],
      [op |-> "read", on |-> 1],
      [op |-> "delete", table |-> "realtors", on |-> 1],
      [op |-> "create realtor", email |-> "X@ "],
      [op |-> "patch realtor", on |-> 2, email |-> "x@"],
      [op |-> "seed realtors", lines |-> {[market |-> "a", email |-> "z@"], [market |-> "b", email |-> "x@"]}],
      [op |-> "seed amenities", ids |-> <<1, 2>>, market |-> "b"],
      [op |-> "delete", table |-> "amenities", on |-> 2],
      [op |-> "create realtor", email |-> "Z@"],
      [op |-> "save", on |-> 2, lists |-> [amenities |-> <<2>>]],
      [op |-> "create", table |-> "fees", key |-> 50],
      [op |-> "patch", table |-> "fees", on |-> 2, key |-> 20],
      [op |-> "fee", area |-> 40],
      [op |-> "save", on |-> 1, lists |-> [realtors |-> <<3>>]],
      [op |-> "delete market", on |-> 1],
      [op |-> "create realtor", email |-> "x@t"],
      [op |-> "create realtor", email |-> "x@t"],
      [op |-> "create market", slug |-> "a", lists |-> [realtors |-> <<1>>]],
      [op |-> "create realtor", email |-> " "],
      [op |-> "create realtor", email |-> " "]>>

MCStatusOptions == <<"analyst_completed", "delete_deal", "re_forecast_revenue",
                     "present_to_clients">>
MCOnward == [analyst_completed |-> {"present_to_clients", "delete_deal"},
             delete_deal |-> {},
             re_forecast_revenue |-> {"analyst_completed", "delete_deal"},
             present_to_clients |-> {"re_forecast_revenue", "delete_deal"}]
MCTargets == [ann |-> {"analyst_completed", "re_forecast_revenue"},
              bob |-> {"present_to_clients"}]
MCAgeBounds == <<1>>
MCSpan == <<1, 1>>
MCKeyOrder == <<"FOR_SALE", "SOLD", "from a migration", "m1", "m2", "p", "q", "r", "stuck">>
MCKeyRank == [k \in Range(MCKeyOrder) |-> CHOOSE i \in DOMAIN MCKeyOrder : MCKeyOrder[i] = k]

MCStatusOrder == <<"analyst_started", "delete_deal", "present_to_clients", "client_under_contract">>
MCNextStatuses == [s \in Range(MCStatusOrder) |->
    CASE s = "analyst_started" -> {"delete_deal"}
      [] s = "present_to_clients" -> {"client_under_contract", "delete_deal"}
      [] OTHER -> {}]
MCPriceBands == <<3, 5>>
MCDealRow == [status |-> "present_to_clients", market |-> "m1", source |-> "adus", added |-> 1, price |-> 4,
              series |-> 1, zpid |-> 1, copied |-> FALSE, automated |-> TRUE, tags |-> {"a"},
              return |-> 1, pending |-> FALSE]
MCEmpty == [deals |-> <<>>, listings |-> <<>>, presets |-> <<>>, jobs |-> <<>>]
MCPortfolios ==
    {MCEmpty,
     [deals |-> <<MCDealRow,
                  [MCDealRow EXCEPT !.status = "client_under_contract", !.series = 2, !.added = 3,
                                    !.tags = {"a", "b"}, !.copied = TRUE, !.automated = None],
                  [MCDealRow EXCEPT !.status = "client_under_contract", !.zpid = None],
                  [MCDealRow EXCEPT !.status = None, !.market = None, !.price = None, !.zpid = 2,
                                    !.tags = {}, !.return = None, !.source = "blank"]>>,
      listings |-> <<[home |-> "FOR_SALE", preset |-> "p", created |-> 1, seen |-> 2, keep |-> TRUE,
                      price |-> 4, change |-> 0, changed |-> None],
                     [home |-> None, preset |-> "q", created |-> 3, seen |-> 1, keep |-> TRUE,
                      price |-> 2, change |-> -1, changed |-> 3]>>,
      presets |-> [p |-> [market |-> "m1", active |-> TRUE, last |-> 2, next |-> 3],
                   q |-> [market |-> "m2", active |-> TRUE, last |-> None, next |-> 5],
                   r |-> [market |-> None, active |-> TRUE, last |-> 1, next |-> None]],
      jobs |-> <<[type |-> "batch", status |-> "failed"], [type |-> "batch", status |-> "stuck"],
                 [type |-> "prepare", status |-> "queued"]>>]}
MCEveryone == [added |-> <<None, None>>, sources |-> {"adus", "blank"}, market |-> None,
               statuses |-> None, changed |-> <<None, None>>]
MCPopulations ==
    {MCEveryone, [MCEveryone EXCEPT !.market = "m1", !.sources = {"adus"}],
     [MCEveryone EXCEPT !.added = <<1, 3>>],
     [MCEveryone EXCEPT !.added = <<3, 1>>],
     [MCEveryone EXCEPT !.changed = <<None, 2>>], [MCEveryone EXCEPT !.changed = <<2, 1>>],
     [MCEveryone EXCEPT !.statuses = {"present_to_clients", "delete_deal"}]}
MCDealEdits ==
    {[status |-> "present_to_clients"], [status |-> "from a migration"], [status |-> "analyst_started"],
     [price |-> 3], [price |-> 7], [tags |-> {"b"}], [zpid |-> None], [zpid |-> 2], [added |-> None],
     [market |-> "m2"]}
MCHomeScrapes ==
    {[home |-> "SOLD"], [home |-> ""], [home |-> None], [home |-> "FOR_SALE"],
     [price |-> 3, change |-> -1, changed |-> 2], [price |-> -1, change |-> -1, changed |-> 4], [seen |-> 4]}

MCRanges == {<<1, 2>>, <<2, 3>>}
MCSheetStatuses == [m |-> "maybe", d |-> "delete_deal"]
MCNumerals == [x \in {"0", "1", "2"} |-> CASE x = "0" -> 0 [] x = "1" -> 1 [] x = "2" -> 2]
MCExternal == {"z/77_zpid", "z/88_zpid?a&b", "other"}
MCEscaped == [u \in MCExternal |-> IF u = "z/88_zpid?a&b" THEN "z/88_zpid?a&amp;b" ELSE u]
MCZpidOf == [u \in MCExternal \cup {"z/88_zpid?a&amp;b", "#cell"} |->
               CASE u = "z/77_zpid" -> "77" [] u \in {"z/88_zpid?a&b", "z/88_zpid?a&amp;b"} -> "88"
                 [] OTHER -> None]
MCLabels == [t |-> [key |-> "taylor j", slug |-> "legacy_taylor_j", kept |-> "taylor j"],
             b |-> [key |-> "john b", slug |-> "legacy_john_b", kept |-> "john b"]]
MCPeopleBefore == [u1 |-> {"john b", "john brown"}, u2 |-> {"john b", "john bell"}]
MCSheetRow == [link |-> 1, status |-> "m", address |-> "a", price |-> "1", notes |-> "", pending |-> "TRUE",
               analyst |-> "t", approver |-> "b", hyperlink |-> None]
MCGrid ==
    <<[B |-> "purchase details", E |-> "optim", H |-> "operating expenses", K |-> "Cleaning Cost", L |-> "turns"],
      [B |-> "purchase price", D |-> "2", E |-> "sofa", F |-> "1", H |-> "power", I |-> "1", K |-> "1", L |-> "2"],
      [B |-> "down payment", D |-> "1", E |-> "", H |-> "disclaimer", K |-> "Loan Amount", L |-> "int rate"],
      [D |-> "year 1 cash on cash", E |-> "total", F |-> "1", H |-> "other", K |-> "2", L |-> "1"],
      [B |-> "taxes", D |-> "None", H |-> "gas", I |-> "None", K |-> "analyst notes"],
      [B |-> "tax rate", C |-> "1", D |-> "1", F |-> "2", H |-> "total operating", K |-> "note"],
      [B |-> "forecasted revenue", D |-> "1", E |-> "prepared by", F |-> "t", H |-> "Listing URL"],
      [B |-> "co-hosting fee", F |-> "2", E |-> "property url", H |-> "comp", I |-> "2"]>>
MCLongGrid ==
    <<[E |-> "property url", F |-> "other"], [D |-> "year 1 cash on cash"], <<>>, <<>>, <<>>,
      [D |-> "year 1 cash on cash"], [D |-> "2", F |-> "1"], [B |-> "forecasted revenue"],
      [B |-> "co-hosting fee", C |-> "1"], [B |-> "purchase details"]>>
MCWorkbook ==
    [tracking |-> [Main |-> <<[MCSheetRow EXCEPT !.hyperlink = "z/88_zpid?a&b"],
                              [MCSheetRow EXCEPT !.link = 3, !.status = "", !.address = "", !.price = "", !.notes = "None"]>>,
                   Shown |-> <<[MCSheetRow EXCEPT !.status = "d", !.hyperlink = "other"],
                               [MCSheetRow EXCEPT !.link = 2, !.analyst = "", !.price = "-"]>>,
                   Deleted |-> <<[MCSheetRow EXCEPT !.link = 2, !.status = "d", !.hyperlink = "z/88_zpid?a&b"],
                                 [MCSheetRow EXCEPT !.link = None]>>],
     tabs |-> (2 :> MCGrid @@ 3 :> MCLongGrid),
     tops |-> (2 :> <<"z/77_zpid", "other">> @@ 3 :> <<>>)]
MCFailed == CHOOSE e \in ErrorCells : TRUE
MCFailedFormulas ==
    [MCWorkbook EXCEPT !.tracking.Main[2].price = MCFailed, !.tracking.Shown[2].notes = MCFailed, !.tops[2] = <<"#cell">>,
                       !.tabs[2][4].E = MCFailed, !.tabs[2][6].D = MCFailed, !.tabs[2][8].H = MCFailed]
MCWorkbooks ==
    {MCWorkbook, MCFailedFormulas,
     [MCWorkbook EXCEPT !.tracking.Shown[2].status = "new", !.tops[2] = <<"#cell", "z/77_zpid">>]}

MCLinkZpid == [l \in {"/1_zpid", "/2_zpid", "other"} |->
                  CASE l = "/1_zpid" -> "1" [] l = "/2_zpid" -> "2" [] OTHER -> None]
MCListedHome == [beds |-> 3, baths |-> None, year |-> 1990]
MCListingsBefore == "1" :> MCListedHome
MCMoreListings == "2" :> [MCListedHome EXCEPT !.baths = 2]
MCSnapshot == [id |-> "2", beds |-> 4, baths |-> None, year |-> None]
MCOldDeal == [legacy |-> FALSE, automated |-> FALSE, zpid |-> None, url |-> "/1_zpid", stored |-> None,
              beds |-> None, baths |-> None]
MCOldDeals ==
    {<<[MCOldDeal EXCEPT !.stored = MCSnapshot], [MCOldDeal EXCEPT !.legacy = TRUE],
       [MCOldDeal EXCEPT !.zpid = "1", !.stored = [MCSnapshot EXCEPT !.beds = None]]>>,
     <<[MCOldDeal EXCEPT !.legacy = TRUE, !.url = "/2_zpid", !.beds = 5],
       [MCOldDeal EXCEPT !.automated = TRUE, !.zpid = "1", !.url = None, !.baths = 2],
       [MCOldDeal EXCEPT !.stored = MCSnapshot, !.beds = 5, !.url = "other"]>>}
MCRowEdits == {[on |-> 1, set |-> [beds |-> 6]], [on |-> 2, set |-> [beds |-> None]],
            [on |-> 2, set |-> [url |-> "/2_zpid", baths |-> 1]], [on |-> 3, set |-> [zpid |-> None]]}

-----------------------------------------------------------------------------
Init ==
    /\ active \in Active
    /\ LoanInit
    /\ active # "loan" =>
        borrowed = CHOOSE c \in LoanCases : TRUE
    /\ NumbersInit
    /\ ExpensesInit
    /\ ListInit
    /\ active # "list" =>
        query = (CHOOSE q \in Queries : TRUE) /\ book = CHOOSE b \in Books : TRUE
    /\ CreationInit
    /\ active # "creation" =>
        asked = (CHOOSE p \in Plans : TRUE) /\ deals = CHOOSE d \in Pasts : TRUE
    /\ RefInit
    /\ active # "reference" =>
        now = 0 /\ at = [r \in DOMAIN Requests |-> "absent"]
    /\ JobsInit
    /\ PriceInit
    /\ AccountInit
    /\ active # "accounts" =>
        \A v \in DOMAIN Visits : visit[v].at = "absent"
    /\ OutboundInit
    /\ active # "outbound" =>
        \A c \in DOMAIN Calls : call[c].at = "done"
    /\ OpexInit
    /\ active # "opex" =>
        \A r \in DOMAIN OpexAsks : errand[r].at = "absent"
    /\ RecordInit
    /\ active # "records" =>
        \A r \in DOMAIN Dealings : dealing[r].at = "absent"
    /\ AnalyticsInit
    /\ active # "analytics" =>
        tracked = [d \in Tracked |-> [status |-> "analyst_completed", added |-> 0, approved |-> None, updated |-> None]]
    /\ DealAnalyticsInit
    /\ active # "counts" =>
        records = MCEmpty
    /\ LegacyInit
    /\ active # "legacy" =>
        workbook = CHOOSE b \in Workbooks : TRUE
    /\ RepairInit
    /\ active # "repairs" =>
        oldDeal = CHOOSE d \in OldDeals : TRUE

LoanStep ==
    /\ active = "loan"
    /\ PayMonth
    /\ UNCHANGED <<active, numbersVars, expenseVars, listVars, creationVars, refVars,
                    jobVars, priceVars, accountVars, outboundVars, opexVars, recordVars,
                    analyticsVars, dealAnalyticsVars, legacyVars, repairVars>>

NumbersStep ==
    /\ active = "numbers"
    /\ NumbersNext
    /\ UNCHANGED <<active, loanVars, expenseVars, listVars, creationVars, refVars, jobVars,
                    priceVars, accountVars, outboundVars, opexVars, recordVars,
                    analyticsVars, dealAnalyticsVars, legacyVars, repairVars>>

ExpensesStep ==
    /\ active = "expenses"
    /\ ExpensesNext
    /\ UNCHANGED <<active, loanVars, numbersVars, listVars, creationVars, refVars, jobVars,
                    priceVars, accountVars, outboundVars, opexVars, recordVars,
                    analyticsVars, dealAnalyticsVars, legacyVars, repairVars>>

ListStep ==
    /\ active = "list"
    /\ ListNext
    /\ UNCHANGED <<active, loanVars, numbersVars, expenseVars, creationVars, refVars,
                    jobVars, priceVars, accountVars, outboundVars, opexVars, recordVars,
                    analyticsVars, dealAnalyticsVars, legacyVars, repairVars>>

CreationStep ==
    /\ active = "creation"
    /\ CreationNext
    /\ UNCHANGED <<active, loanVars, numbersVars, expenseVars, listVars, refVars, jobVars,
                    priceVars, accountVars, outboundVars, opexVars, recordVars,
                    analyticsVars, dealAnalyticsVars, legacyVars, repairVars>>

ReferenceStep ==
    /\ active = "reference"
    /\ RefNext
    /\ UNCHANGED <<active, loanVars, numbersVars, expenseVars, listVars, creationVars,
                    jobVars, priceVars, accountVars, outboundVars, opexVars, recordVars,
                    analyticsVars, dealAnalyticsVars, legacyVars, repairVars>>

JobsStep ==
    /\ active = "jobs"
    /\ JobsNext
    /\ UNCHANGED <<active, loanVars, numbersVars, expenseVars, listVars, creationVars,
                    refVars, priceVars, accountVars, outboundVars, opexVars, recordVars,
                    analyticsVars, dealAnalyticsVars, legacyVars, repairVars>>

PriceStep ==
    /\ active = "prices"
    /\ PriceNext
    /\ UNCHANGED <<active, loanVars, numbersVars, expenseVars, listVars, creationVars,
                    refVars, jobVars, accountVars, outboundVars, opexVars, recordVars,
                    analyticsVars, dealAnalyticsVars, legacyVars, repairVars>>

AccountStep ==
    /\ active = "accounts"
    /\ AccountNext
    /\ UNCHANGED <<active, loanVars, numbersVars, expenseVars, listVars, creationVars,
                    refVars, jobVars, priceVars, outboundVars, opexVars, recordVars,
                    analyticsVars, dealAnalyticsVars, legacyVars, repairVars>>

OutboundStep ==
    /\ active = "outbound"
    /\ OutboundNext
    /\ UNCHANGED <<active, loanVars, numbersVars, expenseVars, listVars, creationVars,
                    refVars, jobVars, priceVars, accountVars, opexVars, recordVars,
                    analyticsVars, dealAnalyticsVars, legacyVars, repairVars>>

OpexStep ==
    /\ active = "opex"
    /\ OpexNext
    /\ UNCHANGED <<active, loanVars, numbersVars, expenseVars, listVars, creationVars,
                    refVars, jobVars, priceVars, accountVars, outboundVars, recordVars,
                    analyticsVars, dealAnalyticsVars, legacyVars, repairVars>>

RecordStep ==
    /\ active = "records"
    /\ RecordNext
    /\ UNCHANGED <<active, loanVars, numbersVars, expenseVars, listVars, creationVars,
                    refVars, jobVars, priceVars, accountVars, outboundVars, opexVars,
                    analyticsVars, dealAnalyticsVars, legacyVars, repairVars>>

AnalyticsStep ==
    /\ active = "analytics"
    /\ AnalyticsNext
    /\ UNCHANGED <<active, loanVars, numbersVars, expenseVars, listVars, creationVars,
                    refVars, jobVars, priceVars, accountVars, outboundVars, opexVars,
                    recordVars, dealAnalyticsVars, legacyVars, repairVars>>

CountsStep ==
    /\ active = "counts"
    /\ DealAnalyticsNext
    /\ UNCHANGED <<active, loanVars, numbersVars, expenseVars, listVars, creationVars,
                    refVars, jobVars, priceVars, accountVars, outboundVars, opexVars,
                    recordVars, analyticsVars, legacyVars, repairVars>>

LegacyStep ==
    /\ active = "legacy"
    /\ LegacyNext
    /\ UNCHANGED <<active, loanVars, numbersVars, expenseVars, listVars, creationVars,
                    refVars, jobVars, priceVars, accountVars, outboundVars, opexVars,
                    recordVars, analyticsVars, dealAnalyticsVars, repairVars>>

RepairStep ==
    /\ active = "repairs"
    /\ RepairNext
    /\ UNCHANGED <<active, loanVars, numbersVars, expenseVars, listVars, creationVars,
                    refVars, jobVars, priceVars, accountVars, outboundVars, opexVars,
                    recordVars, analyticsVars, dealAnalyticsVars, legacyVars>>

Next ==
    \/ LoanStep
    \/ NumbersStep
    \/ ExpensesStep
    \/ ListStep
    \/ CreationStep
    \/ ReferenceStep
    \/ JobsStep
    \/ PriceStep
    \/ AccountStep
    \/ OutboundStep
    \/ OpexStep
    \/ RecordStep
    \/ AnalyticsStep
    \/ CountsStep
    \/ LegacyStep
    \/ RepairStep

vars == <<active, loanVars, numbersVars, expenseVars, listVars, creationVars, refVars,
            jobVars, priceVars, accountVars, outboundVars, opexVars, recordVars,
            analyticsVars, dealAnalyticsVars, legacyVars, repairVars>>

Spec == Init /\ [][Next]_vars
\* The reports on the status history and those on deals and listings: what
\* StatusReportsSafety and DealReportsSafety name.
AnalyticsSafety == StatusReportsSafety /\ []DealReportsSafety
=============================================================================
