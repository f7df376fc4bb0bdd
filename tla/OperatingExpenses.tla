------------------------- MODULE OperatingExpenses -------------------------
(***************************************************************************)
(* The operating expenses of one deal: seeded from the opex catalog of its *)
(* market when the deal is created, offered again (edit context, bedroom   *)
(* context) from the same catalog, edited in the forms of several clients  *)
(* and written back with a PUT that diffs the collection by primary key.   *)
(*                                                                         *)
(* The catalog keeps one row of each kind the code treats differently; a   *)
(* row's key stands for its label too, which no client edits.              *)
(***************************************************************************)
EXTENDS FiniteSetsExt, SequencesExt, Integers
Rounding == INSTANCE Rationals

CONSTANTS
    Clients,      \* browsers with the edit form open
    BedroomRows,  \* opex_by_bedrooms: bedroom count -> a row or NoRow
    SizeRow,      \* opex_by_size at the deal's square footage: a row or NoRow
    Price,        \* the deal's purchase price
    NoRow, NoAmount, NoId,
    Removable,    \* the rows an analyst may remove in a form (bound)
    MaxPuts       \* bound on the number of PUTs

Bedrooms == DOMAIN BedroomRows
Months == 12

\* One row of each kind of OPEX_ROWS, in order.
OpexRows ==
    <<"internet", "pool_hot_tub", "cleaning", "property_taxes", "insurance", "misc",
      "project_loan">>

SizeKeyedRows == {"internet"}
OpexRowDefaults == [misc |-> 0]
UnsourcedRows == {"misc", "project_loan"}
\* transform_opex_costs: the columns that are monthly amounts of their own.
AbsoluteColumns == {"insurance", "new_column", "internet"}

\* Keys are numbers, and the two opex tables supply different columns: those by size are
\* the rows keyed on size.
ASSUME ExpensesAssumption ==
    /\ NoId \notin Nat
    /\ SizeRow # NoRow => DOMAIN SizeRow \cap AbsoluteColumns \subseteq SizeKeyedRows

KeyedOn(key) ==
    IF key \in SizeKeyedRows THEN "size"
    ELSE IF key \in UnsourcedRows THEN "none" ELSE "bedrooms"

Column(row, c) == IF row = NoRow THEN NoAmount ELSE row[c]
Absolute(row) ==
    IF row = NoRow THEN <<>> ELSE [c \in DOMAIN row \cap AbsoluteColumns |-> row[c]]

\* One row's columns over another's.
Overriding(columns, others) ==
    [k \in DOMAIN columns \cup DOMAIN others |->
        IF k \in DOMAIN columns THEN columns[k] ELSE others[k]]

TransformOpexCosts(bedroomRow, sizeRow) ==
    [fee |-> Column(bedroomRow, "cleaning_fee"),
     turns |-> Column(bedroomRow, "num_of_turns"),
     pool |-> Column(bedroomRow, "pool_hot_tub_low"),
     taxPct |-> Column(bedroomRow, "property_taxes"),
     absolute |-> Overriding(Absolute(sizeRow), Absolute(bedroomRow))]

\* to_template_market_context: a deal without a market keeps the rows, not the figures.
Template(opex) ==
    [fee |-> 0, turns |-> 0, pool |-> 0, taxPct |-> 0,
     absolute |-> [c \in DOMAIN opex.absolute |-> 0]]

\* build_opex_property_taxes, monthly; the rate is in percent.
PropertyTaxes(opex) ==
    IF opex.taxPct = NoAmount
    THEN NoAmount
    ELSE Rounding!Quantize(Rounding!Frac(opex.taxPct * Price, 100 * Months), 1).num

\* build_cleaning_cost: the monthly amount needs both factors.
CleaningCost(opex) ==
    IF NoAmount \in {opex.fee, opex.turns} THEN NoAmount ELSE opex.fee * opex.turns

\* resolve_opex_amounts: the derived rows over the market's columns over the defaults.
Amounts(opex) ==
    Overriding([cleaning |-> CleaningCost(opex), pool_hot_tub |-> opex.pool,
                property_taxes |-> PropertyTaxes(opex)],
               Overriding(opex.absolute, OpexRowDefaults))

AmountOf(amounts, key) == IF key \in DOMAIN amounts THEN amounts[key] ELSE NoAmount

\* build_opex_expense_rows: the canonical rows, then columns nobody placed.
UnplacedColumns(opex) ==
    SetToSeq({c \in DOMAIN opex.absolute \ ToSet(OpexRows) : opex.absolute[c] # NoAmount})

ExpenseRows(opex) ==
    [i \in DOMAIN OpexRows |->
        [id |-> NoId, name |-> OpexRows[i], amount |-> AmountOf(Amounts(opex), OpexRows[i])]]
    \o [i \in DOMAIN UnplacedColumns(opex) |->
        [id |-> NoId, name |-> UnplacedColumns(opex)[i],
         amount |-> opex.absolute[UnplacedColumns(opex)[i]]]]

\* build_opex_options: every canonical row, whatever the market supplies.
OpexOptions(bedroomRow, sizeRow) ==
    LET amounts == Amounts(TransformOpexCosts(bedroomRow, sizeRow))
    IN  [i \in DOMAIN OpexRows |->
            [name |-> OpexRows[i], keyedOn |-> KeyedOn(OpexRows[i]),
             amount |-> AmountOf(amounts, OpexRows[i])]]

\* resolve_opex_updates: the options with an amount, by their place in the catalog, on the
\* first row of the same name.
Matching(rows, name) == {i \in DOMAIN rows : rows[i].name = name}
\* Mutant: the figures do not carry the deal's own row ids.
FirstId_Unmatched(rows, name) == NoId

FirstId(rows, name) ==
    IF Matching(rows, name) = {} THEN NoId
    ELSE rows[CHOOSE i \in Matching(rows, name) : \A j \in Matching(rows, name) : i <= j].id

\* Mutant: options without a figure are sent too.
Priced_All(options) == DOMAIN options
Priced(options) == {i \in DOMAIN options : options[i].amount # NoAmount}
OpexUpdates(options, rows) ==
    [i \in Priced(options) |->
        [id |-> FirstId(rows, options[i].name), name |-> options[i].name,
         amount |-> options[i].amount]]
\* A part of the catalog as a list; in which order it is sent is no matter.
AsList(updates) ==
    LET order == SetToSeq(DOMAIN updates)
    IN  [i \in DOMAIN order |-> updates[order[i]]]

----------------------------------------------------------------------------
VARIABLES
    expenses,   \* the stored rows in sort_order: [id, name, amount]
    lastId,     \* the sequence of the primary key
    form,       \* per client [at, rows, bedrooms, updates]: the list its form holds, and the
                \* bedroom context it fetched
    puts,       \* PUTs so far
    alone,      \* per client: nothing was written since its form was loaded
    raced       \* a client overwrote what it had not seen

expenseVars == <<expenses, lastId, form, puts, alone, raced>>

ClosedForm == [at |-> "closed", rows |-> <<>>, bedrooms |-> NoRow, updates |-> <<>>]
ExpensesInit ==
    /\ expenses = <<>>
    /\ lastId = 0
    /\ form = [c \in Clients |-> ClosedForm]
    /\ puts = 0
    /\ alone = [c \in Clients |-> TRUE]
    /\ raced = FALSE

Ids(rows) == {rows[i].id : i \in DOMAIN rows}

\* UnderwritingRepository._upsert_children: an id the deal owns is updated in place, any
\* other item is inserted with a fresh id, a row that is not sent is deleted.
\* Mutant: an id from the request is trusted.
Unowned_Blank(incoming) == {i \in DOMAIN incoming : incoming[i].id = NoId}
Unowned(incoming) == {i \in DOMAIN incoming : incoming[i].id \notin Ids(expenses)}
FreshId(incoming, i) == lastId + Cardinality(Unowned(incoming) \cap 1 .. i)
Upsert(incoming) ==
    /\ expenses' = [i \in DOMAIN incoming |->
                       IF i \in Unowned(incoming)
                       THEN [incoming[i] EXCEPT !.id = FreshId(incoming, i)] ELSE incoming[i]]
    /\ lastId' = FreshId(incoming, Len(incoming))

SeedExpenses(opex) ==
    /\ lastId = 0
    /\ Upsert(ExpenseRows(opex))
    /\ UNCHANGED <<form, puts, alone, raced>>

SeedFromMarket(b) == SeedExpenses(TransformOpexCosts(BedroomRows[b], SizeRow))
SeedFromTemplate(b) == SeedExpenses(Template(TransformOpexCosts(BedroomRows[b], SizeRow)))

OpenForm(c) ==
    /\ lastId > 0 /\ form[c].at = "closed"
    /\ form' = [form EXCEPT ![c].at = "open", ![c].rows = expenses]
    /\ alone' = [alone EXCEPT ![c] = TRUE]
    /\ UNCHANGED <<expenses, lastId, puts, raced>>

RemoveRow(c, i) ==
    /\ i \in DOMAIN form[c].rows /\ form[c].rows[i].name \in Removable
    /\ form' = [form EXCEPT ![c].rows = RemoveAt(@, i)]
    /\ UNCHANGED <<expenses, lastId, puts, alone, raced>>

\* PrepareUwDataJob.build_bedroom_context: 404 unless the market has this bedroom count; the
\* rows keyed on bedrooms, without the row by size.
KeyedOnBedrooms(options) ==
    Restrict(options, {i \in DOMAIN options : options[i].keyedOn = "bedrooms"})
BedroomContext(b, rows) ==
    OpexUpdates(KeyedOnBedrooms(OpexOptions(BedroomRows[b], NoRow)), rows)

FetchContext(c, b) ==
    /\ form[c].at = "open" /\ BedroomRows[b] # NoRow
    /\ form' = [form EXCEPT ![c].at = "fetched", ![c].bedrooms = b,
                            ![c].updates = BedroomContext(b, expenses)]
    /\ UNCHANGED <<expenses, lastId, puts, alone, raced>>

\* The client merges a context by id and appends what it has no row for.
Meant(row, updates) == {u \in DOMAIN updates : updates[u].id = row.id}
Missing(rows, updates) == Restrict(updates, {u \in DOMAIN updates : updates[u].id \notin Ids(rows)})
Merged(rows, updates) ==
    [i \in DOMAIN rows |-> IF Meant(rows[i], updates) = {} THEN rows[i]
                           ELSE updates[CHOOSE u \in Meant(rows[i], updates) : TRUE]]
    \o AsList(Missing(rows, updates))

Put(c, list) ==
    /\ puts < MaxPuts
    /\ puts' = puts + 1
    /\ Upsert(list)
    /\ form' = [form EXCEPT ![c] = ClosedForm]
    /\ alone' = [d \in Clients |-> FALSE]
    /\ raced' = (raced \/ ~alone[c])

PutForm(c) ==
    \/ form[c].at = "open" /\ Put(c, form[c].rows)
    \/ form[c].at = "fetched" /\ Put(c, Merged(form[c].rows, form[c].updates))

\* The API accepts the context as it came, too.
PutContext(c) == form[c].at = "fetched" /\ Put(c, AsList(form[c].updates))

ExpensesNext ==
    \/ \E b \in Bedrooms : SeedFromMarket(b) \/ SeedFromTemplate(b)
    \/ \E c \in Clients :
        \/ OpenForm(c)
        \/ \E i \in DOMAIN form[c].rows : RemoveRow(c, i)
        \/ \E b \in Bedrooms : FetchContext(c, b)
        \/ PutForm(c)
        \/ PutContext(c)

ExpensesSpec == ExpensesInit /\ [][ExpensesNext]_expenseVars
----------------------------------------------------------------------------
StoredAmounts(rows, name) == {rows[i].amount : i \in Matching(rows, name)}

MarketRows(b) == OpexOptions(BedroomRows[b], SizeRow)
Moved(b) == {i \in DOMAIN MarketRows(b) : /\ MarketRows(b)[i].keyedOn = "bedrooms"
                                          /\ MarketRows(b)[i].amount # NoAmount}
Reseeded(c) ==
    LET b == form[c].bedrooms
        rows == form[c].rows
        moved == {MarketRows(b)[i].name : i \in Moved(b)}
    IN  /\ \A i \in Moved(b) :
              MarketRows(b)[i].amount \in StoredAmounts(expenses', MarketRows(b)[i].name)
        /\ \A i \in DOMAIN rows : rows[i].name \notin moved =>
              \E j \in DOMAIN expenses' : expenses'[j] = rows[i]
\* A client that changes the bedroom count merges the context by id and puts its form
\* back: if nobody wrote meanwhile, every row the market prices at that count carries
\* the market's amount, a row the analyst had removed is back once, and every other row
\* of the form, market row or not, priced or blank, is stored as the form showed it.
ReseedMovesOnlyMarketRows ==
    [][\A c \in Clients :
        PutForm(c) /\ alone[c] /\ form[c].at = "fetched" => Reseeded(c)]_expenseVars

\* A primary key is never given to another expense, and the key of a deleted row never
\* comes back, even when a form opened before the deletion still sends it.
DeletedIdsStayDeleted ==
    [][\A j \in DOMAIN expenses' :
        \/ expenses'[j].id > lastId
        \/ \E i \in DOMAIN expenses :
            <<expenses[i].id, expenses[i].name>> = <<expenses'[j].id, expenses'[j].name>>]_expenseVars

\* Nothing keeps two rows from sharing a label; only a client that puts back a form or a
\* context older than another client's write makes it happen.
SharedLabelsComeFromRaces ==
    ~raced => \A i, j \in DOMAIN expenses : expenses[i].name = expenses[j].name => i = j

\* A list of rows, no two under one key, but for those that have none yet.
ExpenseList(rows) ==
    /\ rows \in Seq(ToSet(rows))
    /\ \A i \in DOMAIN rows : DOMAIN rows[i] = {"id", "name", "amount"}
    /\ \A i, j \in DOMAIN rows : rows[i].id = rows[j].id /\ rows[i].id # NoId => i = j

StoredKept ==
    /\ lastId \in Nat
    /\ ExpenseList(expenses) /\ \A i \in DOMAIN expenses : expenses[i].id \in 1 .. lastId

\* A key that was given out bears the name of its row for ever.
KeyKnown(row) ==
    /\ row.id \in 1 .. lastId
    /\ \A j \in DOMAIN expenses : row.id = expenses[j].id => row.name = expenses[j].name

\* What a context fetched is part of the catalog, and its keys are those of its rows.
UpdatesKept(updates) ==
    /\ DOMAIN updates \subseteq DOMAIN OpexRows
    /\ \A u \in DOMAIN updates :
          /\ DOMAIN updates[u] = {"id", "name", "amount"} /\ updates[u].name = OpexRows[u]
          /\ updates[u].id = NoId \/ KeyKnown(updates[u])
    /\ \A u, v \in DOMAIN updates : updates[u].id = updates[v].id /\ updates[u].id # NoId => u = v

\* Until somebody writes, a form holds rows of the deal, and its context is of those rows.
FormKept(c) ==
    LET f == form[c]
    IN  /\ DOMAIN f = DOMAIN ClosedForm
        /\ ExpenseList(f.rows) /\ \A i \in DOMAIN f.rows : KeyKnown(f.rows[i])
        /\ f.at = "closed" => f.rows = <<>>
        /\ lastId = 0 => f.at = "closed"
        /\ f.at = "fetched" => UpdatesKept(f.updates)
        /\ alone[c] => \A i \in DOMAIN f.rows : \E j \in DOMAIN expenses : f.rows[i] = expenses[j]
        /\ alone[c] /\ f.at = "fetched" => /\ BedroomRows[f.bedrooms] # NoRow
                                          /\ f.updates = BedroomContext(f.bedrooms, expenses)

\* The inductive invariant of the expenses of a deal.
ExpensesInv ==
    /\ StoredKept /\ raced \in BOOLEAN
    /\ DOMAIN form = Clients /\ alone \in [Clients -> BOOLEAN]
    /\ \A c \in Clients : FormKept(c)
    /\ SharedLabelsComeFromRaces

\* Whatever clients put back and markets reseed: labels are shared through races only, a
\* reseed leaves the rows of the deal alone, a removed row stays removed.
\* (resolve_opex_updates, _upsert_children)
ExpensesSafety ==
    /\ []SharedLabelsComeFromRaces
    /\ ReseedMovesOnlyMarketRows
    /\ DeletedIdsStayDeleted
=============================================================================
