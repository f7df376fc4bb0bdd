----------------------------- MODULE LegacySheet -----------------------------
(***************************************************************************)
(* The workbook the legacy deals come from and what the import makes of    *)
(* it: three tracking tabs keyed by the deal's number, one tab per deal    *)
(* read by its section labels, and the links behind the cells.  A grid is  *)
(* a sequence of rows, a row a function from the columns it fills; labels  *)
(* stand for the prefixes the code compares in lower case.  The workbook   *)
(* is read from an export or live, and the two readers see cells that show *)
(* an error, and links, differently.                                       *)
(***************************************************************************)
EXTENDS Nulls, SequencesExt, FiniteSetsExt, Integers
CONSTANTS
    SheetStatuses,  \* sheet label -> deal status (STATUS_MAP)
    NoStatus,       \* the status of a deal without one
    Numerals,       \* cell text -> the number to_decimal reads in it
    ErrorCells,     \* the texts of cells whose formula failed
    External,       \* the links that are http addresses
    Escaped,        \* external link -> its text in the XML of the export: & is &amp;
    ZpidOf,         \* link, escaped or not -> the zpid in it, None when there is none
    TabRows         \* the rows read of a deal's tab
----------------------------------------------------------------------------
\* An empty cell and the sheet's literal "None" are both no text.
Clean(v) == IF v \in {"", "None"} THEN None ELSE v
Filling(row, c) == IF c \in DOMAIN row THEN row[c] ELSE None
Cell(grid, i, c) == IF i \in DOMAIN grid THEN Clean(Filling(grid[i], c)) ELSE None
Numeral(v) == IF v \in DOMAIN Numerals THEN Numerals[v] ELSE None

FirstRow(grid, P(_)) ==
    LET rows == {i \in DOMAIN grid : P(i)} IN IF rows = {} THEN None ELSE Min(rows)
RowLabelled_Fixed(grid, c, label) == IF Cell(grid, 1, c) = label THEN 1 ELSE None
RowLabelled(grid, c, label) == FirstRow(grid, LAMBDA i : Cell(grid, i, c) = label)

\* A labelled block: under its anchor, at most `span' rows, the last value of each label.
Block(grid, anchor, span, labels, c) ==
    LET start == RowLabelled(grid, "B", anchor)
        rows(l) == {i \in start..(start + span - 1) :
                       Cell(grid, i, "B") = l /\ Numeral(Cell(grid, i, c)) # None}
    IN IF start = None THEN None
       ELSE [l \in {k \in labels : rows(k) # {}} |-> Numeral(Cell(grid, Max(rows(l)), c))]
PurchaseDetails(grid) ==
    Block(grid, "purchase details", 10, {"purchase price", "down payment"}, "D")
Taxes(grid) == LET found == Block(grid, "taxes", 10, {"tax rate", "tax savings"}, "C")
               IN IF found = None \/ DOMAIN found = {} THEN None ELSE found
\* Three scenarios in D, E and F, unless all are empty; the last row of the fee has its share.
ForecastRevenue(grid) ==
    LET start == RowLabelled(grid, "B", "forecasted revenue")
        scenarios == [s \in {"D", "E", "F"} |-> Block(grid, "forecasted revenue", 12,
                                              {"forecasted revenue", "co-hosting fee"}, s)]
        fees == {i \in start..(start + 11) : Cell(grid, i, "B") = "co-hosting fee"}
    IN IF start = None \/ \A s \in {"D", "E", "F"} : DOMAIN scenarios[s] = {} THEN None
       ELSE [scenarios |-> scenarios,
             share |-> IF fees = {} THEN None ELSE Numeral(Cell(grid, Max(fees), "C"))]

\* A list under its anchor, up to the row its end stands in.
ListUnder(grid, start, c, v, Ends(_), Skips(_, _)) ==
    LET stop == FirstRow(grid, LAMBDA i : i > start /\ Ends(Cell(grid, i, c)))
        rows == (start + 1)..((IF stop = None THEN Len(grid) + 1 ELSE stop) - 1)
        item(i) == [name |-> Cell(grid, i, c), value |-> Numeral(Cell(grid, i, v))]
        kept == {i \in rows : item(i).name # None /\ ~ Skips(item(i).name, item(i).value)}
    IN IF start = None THEN <<>>
       ELSE [k \in 1..Cardinality(kept) |-> item(SetToSortSeq(kept, <)[k])]
OptimizationItems(grid) ==
    ListUnder(grid, RowLabelled(grid, "E", "optim"), "E", "F",
              LAMBDA l : l = "total", LAMBDA l, v : FALSE)
OperatingExpensesOf(grid) ==
    ListUnder(grid, RowLabelled(grid, "H", "operating expenses"), "H", "I",
              LAMBDA l : l = "total operating",
              LAMBDA l, v : l = "disclaimer" \/ (v = None /\ l \in {"other", "misc"}))
CompSet(grid) ==
    ListUnder(grid, RowLabelled(grid, "H", "Listing URL"), "H", "I",
              LAMBDA l : l = None, LAMBDA l, v : FALSE)

\* The loan and cleaning headers stand in K and L, their values in the row below.
UnderHeader(grid, k, l) ==
    LET i == FirstRow(grid, LAMBDA j : Cell(grid, j, "K") = k /\ Cell(grid, j, "L") = l)
    IN IF i = None THEN None
       ELSE <<Numeral(Cell(grid, i + 1, "K")), Numeral(Cell(grid, i + 1, "L"))>>
ConstructionLoan(grid) ==
    LET loan == UnderHeader(grid, "Loan Amount", "int rate")
    IN IF loan # None /\ loan[1] # None /\ loan[1] > 0 THEN loan ELSE None
\* Cash on cash: the first label with a number in the three rows below it.
CocBlock(grid) ==
    LET below(i) == {j \in (i + 1)..(i + 3) : Numeral(Cell(grid, j, "D")) # None}
        i == FirstRow(grid, LAMBDA k : /\ Cell(grid, k, "D") = "year 1 cash on cash"
                                       /\ below(k) # {})
    IN IF i = None THEN None
       ELSE [c \in {"D", "E", "F"} |-> Numeral(Cell(grid, Min(below(i)), c))]
Beside(grid, c, label, right, below) ==
    LET i == RowLabelled(grid, c, label) IN IF i = None THEN None ELSE Cell(grid, i + below, right)

ParseDealTab(grid) ==
    LET url == Beside(grid, "E", "property url", "F", 0) IN
    [purchase |-> PurchaseDetails(grid), loan |-> ConstructionLoan(grid), taxes |-> Taxes(grid),
     revenue |-> ForecastRevenue(grid), coc |-> CocBlock(grid),
     cleaning |-> UnderHeader(grid, "Cleaning Cost", "turns"),
     optimization |-> OptimizationItems(grid), expenses |-> OperatingExpensesOf(grid),
     comps |-> CompSet(grid), notes |-> Beside(grid, "K", "analyst notes", "K", 1),
     prepared |-> Beside(grid, "E", "prepared by", "F", 0),
     url |-> IF url \in External THEN url ELSE None,
     missing |-> {s \in {<<"B", "purchase details">>, <<"E", "optim">>,
                         <<"H", "operating expenses">>} : RowLabelled(grid, s[1], s[2]) = None}]
----------------------------------------------------------------------------
\* Tracking tabs: a row counts when it has a number and something beside it; the last row
\* of a number wins.
SummaryRows(rows) ==
    LET content(r) == \E f \in {"status", "address", "price", "notes"} : Clean(r[f]) # None
        of(n) == {i \in DOMAIN rows : rows[i].link = n /\ content(rows[i])}
        numbers == {n \in {rows[i].link : i \in DOMAIN rows} : n # None /\ of(n) # {}}
    IN [n \in numbers |-> rows[Max(of(n))]]
\* {**deleted, **client_shown, **main}
Precedence_DeletedFirst == <<"Main", "Shown", "Deleted">>
Precedence == <<"Deleted", "Shown", "Main">>
Overlaid(maps, order) == FoldSeq(LAMBDA t, all : [n \in DOMAIN all \cup DOMAIN maps[t] |->
                                  IF n \in DOMAIN maps[t] THEN maps[t][n] ELSE all[n]], <<>>, order)
Tracking(book) == [t \in {"Deleted", "Shown", "Main"} |-> SummaryRows(book.tracking[t])]

LinksIn(book) ==
    UNION {ToSet(book.tops[n]) : n \in DOMAIN book.tops}
    \cup UNION {{r.hyperlink : r \in ToSet(book.tracking[t])} : t \in DOMAIN book.tracking}

\* The address cell of a tracking row, or the first top cell of a deal's tab with a link in
\* it; a reader sees the links in the domain of `given', and as it says.
Links(book, order, given) ==
    LET linked(rows) == {n \in DOMAIN rows : rows[n].hyperlink \in DOMAIN given}
        tracked == [t \in DOMAIN Tracking(book) |->
            LET rows == Tracking(book)[t] IN [n \in linked(rows) |-> given[rows[n].hyperlink]]]
        tops(n) == SelectSeq(book.tops[n], LAMBDA l : l \in DOMAIN given)
        own == [n \in {n \in DOMAIN book.tabs : tops(n) # <<>>} |-> given[Head(tops(n))]]
    IN Overlaid(tracked @@ [Own |-> own], order \o <<"Own">>)

FirstRows(grid) == SubSeq(grid, 1, Min({TabRows, Len(grid)}))

\* openpyxl gives a failed formula as text, and the XML has the http links as they are
\* written there.
ReadWorkbook(book) ==
    [summaries |-> Overlaid(Tracking(book), Precedence),
     tabs |-> [n \in DOMAIN book.tabs |-> FirstRows(book.tabs[n])],
     urls |-> Links(book, Precedence, [l \in External |-> Escaped[l]])]

\* _cell_value: a failed formula has no value.
CellValue(v) == IF v \in ErrorCells THEN None ELSE v
LiveRows(rows) == [i \in DOMAIN rows |-> [c \in DOMAIN rows[i] |-> CellValue(rows[i][c])]]

\* DEAL_TAB_RANGE.
TabRange_Open(grid) == grid
TabRange(grid) == FirstRows(grid)

\* The Sheets API gives every hyperlink of a cell, and as it is.
ReadGoogleSheet(book) ==
    LET live == [tracking |-> [t \in DOMAIN book.tracking |-> LiveRows(book.tracking[t])],
                 tabs |-> [n \in DOMAIN book.tabs |-> LiveRows(TabRange(book.tabs[n]))],
                 tops |-> book.tops]
        order == <<"Deleted", "Shown", "Main">>
    IN [summaries |-> Overlaid(Tracking(live), order), tabs |-> live.tabs,
        urls |-> Links(live, order, [l \in LinksIn(book) \ {None} |-> l])]
----------------------------------------------------------------------------
MapDealStatus(label) ==
    CASE Clean(label) = None -> NoStatus
      [] label \in DOMAIN SheetStatuses -> SheetStatuses[label]
      [] OTHER -> "unmapped"
Either(a, b) == IF a = None THEN b ELSE a
\* What repository.create is given for one deal: its tracking row, its tab and its link.
DealOf(n, sum, tab, link) ==
    LET has(f) == IF sum = None THEN None ELSE Clean(sum[f])
        read(f) == IF tab = None THEN None ELSE tab[f]
        url == Either(link, read("url"))
        details == read("purchase")
        price == Either(Numeral(has("price")),
                        IF details # None /\ "purchase price" \in DOMAIN details
                        THEN details["purchase price"] ELSE None)
    IN [number |-> n, status |-> IF sum = None THEN NoStatus ELSE MapDealStatus(sum.status),
        address |-> has("address"), price |-> price, pending |-> has("pending") = "TRUE",
        url |-> url, candidate |-> IF url = None THEN None ELSE ZpidOf[url],
        note |-> has("notes"), analyst |-> Either(has("analyst"), read("prepared")),
        approver |-> has("approver"), children |-> tab]
OfNumber(all, n) == IF n \in DOMAIN all THEN all[n] ELSE None
BuildDeal(data, n) ==
    DealOf(n, OfNumber(data.summaries, n),
           IF n \in DOMAIN data.tabs THEN ParseDealTab(data.tabs[n]) ELSE None,
           OfNumber(data.urls, n))
NumbersOf(data, low, high) ==
    {n \in DOMAIN data.summaries \cup DOMAIN data.tabs : low <= n /\ n <= high}
=============================================================================
