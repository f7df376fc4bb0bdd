---------------------------- MODULE DealNumbers ----------------------------
(***************************************************************************)
(* The economics of one deal: SaveUnderwritingService.save and the full    *)
(* PUT of UpdateUnderwritingService, which calculate from their payload    *)
(* alone; the price reconciliation, which plans from the row and applies   *)
(* later; and the read-only simulation, which calculates from the row.     *)
(* A payload field that is not sent is None; sending an empty list is <<>>.*)
(***************************************************************************)
EXTENDS Calculator, Functions

CONSTANTS
    Payloads,      \* what clients send: terms, revenue, tax, loan, items, expenses, price, oop
    Estimates,     \* the revenues the Airbnb comps may yield
    ListingPrices, \* what Zillow may say the price is
    MaxWrites      \* bound on the number of writes

VARIABLES
    deal,     \* the stored row with its children, or None
    plan,     \* the payload the reconcile job holds between its two phases, or None
    writes,   \* writes so far
    drift,    \* why the stored figures may differ from the stored inputs
    taxDrift  \* the same for the taxes and the y1 percentages

numbersVars == <<deal, plan, writes, drift, taxDrift>>

OrNone(S) == S \cup {None}

\* purchase_details.
Terms == [price : Int, down : Int, closing : Int, rate : Int, years : Int]

ASSUME NumbersAssumption ==
    /\ None \notin Terms /\ None # <<>>
    /\ \A p \in Payloads :
        /\ p.terms \in OrNone(Terms)
        /\ \A list \in {p.items, p.expenses} \ {None} : list \in Seq(Int)
    /\ ListingPrices \subseteq Int

\* Mutant: the collections may be left out.
CollectionsSent_Never(p) == TRUE

\* UpdateUnderwritingPayload.require_collections_with_purchase_details.
CollectionsSent(p) == p.terms # None => p.items # None /\ p.expenses # None

\* A list that is not sent is calculated with as if it were empty.
OrEmpty(list) == IF list = None THEN <<>> ELSE list

OrKeep(new, old) == IF new = None THEN old ELSE new

\* Mutant: the stored loan is not fetched.
LoanFor_PayloadOnly(p, stored) == p.loan

\* _project_loan_for_calculation with _stored_project_loan.
LoanFor(p, stored) ==
    IF p.loan # None THEN p.loan
    ELSE IF p.terms # None THEN stored ELSE None

\* _get_purchase_price.
PriceFor(p) == IF p.terms # None THEN p.terms.price ELSE p.price

\* Everything _build_tax_data, _build_detail_data and the calculator refuse.
Refused(p, revenue, loan) ==
    \/ p.tax # None /\ PriceFor(p) = None
    \/ revenue # None /\ p.terms = None
    \/ /\ revenue # None
       /\ \/ OopRaises(p.terms, OrEmpty(p.items), loan)
          \/ RatiosRaise(revenue, p.terms)

\* The forecast used: the one sent, else the estimate, which needs purchase details.
Forecasts(p) ==
    IF p.revenue # None THEN {p.revenue}
    ELSE IF p.terms # None THEN OrNone(Estimates) ELSE {None}

\* _apply_calculated_underwriting_fields.
FiguresOf(scenarios, oop, revenue, terms) ==
    [scenarios |-> scenarios,
     oop |-> oop,
     coc |-> CashOnCash(scenarios, oop),
     prr |-> Prr(revenue, terms),
     budget |-> BudgetToPp(oop, terms)]

Figures(revenue, terms, items, expenses, loan) ==
    FiguresOf(ForecastedRevenue(revenue, terms, items, expenses, loan),
              TotalOop(terms, items, loan), revenue, terms)

NoFigures == [scenarios |-> None, oop |-> None, coc |-> None, prr |-> None, budget |-> None]

\* What one calculation writes over the row r: key by key, an absent field keeps its value.
Recalculated(r, p, revenue, savings, figures, items, expenses) ==
    [price |-> IF p.terms # None THEN p.terms.price ELSE OrKeep(p.price, r.price),
     terms |-> OrKeep(p.terms, r.terms),
     revenue |-> OrKeep(revenue, r.revenue),
     loan |-> OrKeep(p.loan, r.loan),
     tax |-> OrKeep(p.tax, r.tax),
     savings |-> IF p.tax = None THEN r.savings ELSE savings,
     items |-> items,
     expenses |-> expenses,
     figures |-> figures,
     y1 |-> IF revenue = None \/ p.tax = None
            THEN r.y1 ELSE Y1Coc(figures.scenarios, savings, figures.oop),
     terminal |-> r.terminal]

Calculated(r, p, revenue, loan, items, expenses) ==
    Recalculated(r, p, revenue,
            TaxSavings(p.tax, PriceFor(p), OrEmpty(p.items)),
            IF revenue = None
            THEN [r.figures EXCEPT !.oop = OrKeep(p.oop, @)]
            ELSE Figures(revenue, p.terms, OrEmpty(p.items), OrEmpty(p.expenses), loan),
            items, expenses)

Blank ==
    [price |-> None, terms |-> None, revenue |-> None, loan |-> None, tax |-> None,
     savings |-> None, items |-> <<>>, expenses |-> <<>>, figures |-> NoFigures, y1 |-> None,
     terminal |-> FALSE]

\* What is written without being recalculated with.  The ghosts are not code: they
\* name the writes after which the stored figures are knowingly out of step.
Drift(p, revenue, r) ==
    IF revenue # None THEN {}
    ELSE drift \cup
         (IF p.terms # None \/ p.loan # None \/ p.items # None \/ p.expenses # None
          THEN {"partial"} ELSE {}) \cup
         (IF p.oop # None THEN {"override"} ELSE {})

TaxDrift(p, revenue, r) ==
    IF p.tax # None /\ revenue # None THEN {}
    ELSE taxDrift \cup
         (IF p.terms # None \/ p.items # None \/ p.tax # None \/ p.price # None
          THEN {"partial"} ELSE {})

----------------------------------------------------------------------------
NumbersInit ==
    /\ deal = None
    /\ plan = None
    /\ writes = 0
    /\ drift = {}
    /\ taxDrift = {}

CreateDeal(p) ==
    /\ deal = None
    /\ writes' = 1
    /\ \E revenue \in Forecasts(p) :
        /\ ~Refused(p, revenue, p.loan)
        /\ deal' = Calculated(Blank, p, revenue, p.loan, OrEmpty(p.items), OrEmpty(p.expenses))
        /\ drift' = Drift(p, revenue, Blank)
        /\ taxDrift' = TaxDrift(p, revenue, Blank)
    /\ UNCHANGED plan

PutDeal(p) ==
    /\ deal # None
    /\ writes < MaxWrites
    /\ writes' = writes + 1
    /\ CollectionsSent(p)
    /\ \E revenue \in Forecasts(p) :
        LET loan == LoanFor(p, deal.loan) IN
        /\ ~Refused(p, revenue, loan)
        /\ deal' = Calculated(deal, p, revenue, loan, OrKeep(p.items, deal.items),
                              OrKeep(p.expenses, deal.expenses))
        /\ drift' = Drift(p, revenue, deal)
        /\ taxDrift' = TaxDrift(p, revenue, deal)
    /\ UNCHANGED plan

FinishDeal ==
    /\ deal # None /\ ~deal.terminal
    /\ deal' = [deal EXCEPT !.terminal = TRUE]
    /\ UNCHANGED <<plan, writes, drift, taxDrift>>

\* ReconcileUnderwritingPriceJob._plan: the payload builder copies what the row has.
PlanReconcile ==
    /\ deal # None /\ plan = None
    /\ ~deal.terminal
    /\ deal.terms # None /\ deal.revenue # None /\ deal.tax # None
    /\ \E price \in ListingPrices \ {deal.price} :
        plan' = [terms |-> [deal.terms EXCEPT !.price = price], revenue |-> deal.revenue,
                 tax |-> deal.tax, loan |-> deal.loan, items |-> deal.items,
                 expenses |-> deal.expenses, price |-> None, oop |-> None]
    /\ UNCHANGED <<deal, writes, drift, taxDrift>>

\* ReconcileUnderwritingPriceJob._apply: a row that cannot be calculated keeps its values.
ApplyReconcile ==
    /\ plan # None
    /\ plan' = None
    /\ UNCHANGED writes
    /\ IF Refused(plan, plan.revenue, plan.loan)
       THEN UNCHANGED <<deal, drift, taxDrift>>
       ELSE LET raced == \/ <<plan.items, plan.expenses>> # <<deal.items, deal.expenses>>
                         \/ plan.loan = None /\ deal.loan # None
            IN  /\ deal' = Calculated(deal, plan, plan.revenue, plan.loan, deal.items, deal.expenses)
                /\ drift' = IF raced THEN {"race"} ELSE {}
                /\ taxDrift' = IF plan.items # deal.items \/ raced THEN {"race"} ELSE {}

NumbersNext ==
    \/ \E p \in Payloads : CreateDeal(p) \/ PutDeal(p)
    \/ FinishDeal
    \/ PlanReconcile
    \/ ApplyReconcile

NumbersSpec == NumbersInit /\ [][NumbersNext]_numbersVars

----------------------------------------------------------------------------
\* SimulateUnderwritingsService._calculate_simulated_row with no override: the stored
\* blobs, the summed children and the stored loan go through the same calculator.
Simulatable(r) ==
    /\ r.terms # None /\ r.revenue # None
    /\ ~OopRaises(r.terms, r.items, r.loan)

OneItem(list) == <<SumFunction(list)>>

Simulated(r) ==
    Figures(r.revenue, r.terms, OneItem(r.items), OneItem(r.expenses), r.loan)

Y1From(r, figures) ==
    IF r.savings = None THEN r.y1 ELSE Y1Coc(figures.scenarios, r.savings, figures.oop)
SimulatedY1(r) == Y1From(r, Simulated(r))
----------------------------------------------------------------------------
\* Whatever the order of creates, full and partial updates, reconciliations and their
\* races: as long as the last calculation was not followed by a write that skips it,
\* the stored figures are the ones the calculator gives for the stored terms, items,
\* expenses and project loan, and would not be refused for them.  (The calculation reads
\* the payload, never the row: this holds only because the collections must be sent and
\* the stored loan is fetched.)
FiguresAreOfTheRow ==
    deal # None /\ drift = {} /\ deal.figures.scenarios # None =>
        /\ deal.terms # None /\ deal.revenue # None
        /\ ~OopRaises(deal.terms, deal.items, deal.loan)
        /\ deal.figures = Figures(deal.revenue, deal.terms, deal.items, deal.expenses, deal.loan)

\* The same for the tax savings and the y1 percentages that depend on them, which a
\* write recalculates only when it sends the taxes.
TaxesAreOfTheRow ==
    deal # None /\ drift = {} /\ taxDrift = {} /\ deal.y1 # None =>
        /\ deal.savings = TaxSavings(deal.tax, deal.price, deal.items)
        /\ deal.y1 = Y1Coc(deal.figures.scenarios, deal.savings, deal.figures.oop)

\* A simulation that overrides nothing, which reads the stored blobs and the summed
\* children, then shows the stored figures unchanged.
EconomicsFollowInputs ==
    deal # None /\ drift = {} /\ deal.figures.scenarios # None =>
        Simulatable(deal) /\ Simulated(deal) = deal.figures

\* And so does its y1 percentage.
TaxesFollowInputs ==
    deal # None /\ drift = {} /\ taxDrift = {} /\ deal.y1 # None => SimulatedY1(deal) = deal.y1

\* Stored figures never lag behind what they are computed from: a loan amortises to what
\* its payments leave, and scenarios, savings and percentages are those of the stored inputs.
\* (UnderwritingCalculator, save and update)
FiguresFollowInputs ==
    /\ BalanceIsWhatPaymentsLeave
    /\ FiguresAreOfTheRow
    /\ TaxesAreOfTheRow
    /\ EconomicsFollowInputs
    /\ TaxesFollowInputs
=============================================================================
