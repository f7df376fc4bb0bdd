----------------------------- MODULE Calculator -----------------------------
(***************************************************************************)
(* UnderwritingCalculator: the figures of a deal as functions of its       *)
(* inputs.  Amounts are exact fractions (Rationals); the three roundings   *)
(* of the code are kept, with coarser units so that values stay small.     *)
(*                                                                         *)
(*   terms    purchase_details as sent: price, down, closing, rate, years  *)
(*   revenue  forecasted_revenue as sent: cohost, apprec, low, mid, high   *)
(*   items    total_price of each optimization item                        *)
(*   expenses monthly_amount of each operating expense                     *)
(*   loan     the opex_project_loan blob, or None                          *)
(*                                                                         *)
(* Percentages are in tenths.  The module also walks the repayment of one  *)
(* loan month by month, the definition the closed forms stand for.         *)
(***************************************************************************)
EXTENDS Nulls, Rationals

CONSTANTS
    MonthsInYear,  \* 12 in the code; smaller keeps the powers small
    MoneyUnits,    \* money is rounded to 1 / MoneyUnits
    PercentUnits,  \* percentages are rounded to 1 / PercentUnits
    CocUnits,      \* the y1 percentages to 1 / CocUnits
    LoanCases      \* the loans whose repayment is walked: [amount, rate, years]

ASSUME CalculatorAssumption ==
    {MonthsInYear, MoneyUnits, PercentUnits, CocUnits} \subseteq Nat \ {0}

\* A rate is a fraction that is not negative (FractionalPercentage), a term at least a year:
\* with none, _pmt divides by zero.
ASSUME LoanAssumption ==
    \A loan \in LoanCases :
        /\ loan.amount \in Int
        /\ loan.years \in Nat \ {0}
        /\ loan.rate.num \in Nat /\ loan.rate.den \in Nat \ {0}
        /\ loan.rate = Frac(loan.rate.num, loan.rate.den)

Tenths(i) == Frac(i, 10)
Money(x) == Quantize(x, MoneyUnits)
Percentage(x) == Quantize(x, PercentUnits)
Scenarios == {"low", "mid", "high"}

OpexMultiplier == [low |-> Frac(24, 25), mid |-> One, high |-> Frac(26, 25)]

----------------------------------------------------------------------------
\* Loans.

\* Mutant: one payment too few.
Pmt_ShortTerm(rate, nper, pv) ==
    IF rate = Zero
    THEN Over(pv, Whole(nper))
    ELSE Over(Times(pv, rate),
              Minus(One, Over(One, Power(Plus(One, rate), nper - 1))))

Pmt(rate, nper, pv) ==
    IF rate = Zero
    THEN Over(pv, Whole(nper))
    ELSE Over(Times(pv, rate),
              Minus(One, Over(One, Power(Plus(One, rate), nper))))

MonthlyRate(rate) == Over(rate, Whole(MonthsInYear))

Outstanding(pv, paid, total) == Over(Times(pv, Minus(paid, total)), Minus(One, total))
EndingBalance(pv, rate, years, months) ==
    LET growth(n) == Power(Plus(One, MonthlyRate(rate)), n)
    IN  IF rate = Zero
        THEN Minus(pv, Times(Pmt(Zero, years * MonthsInYear, pv), Whole(months)))
        ELSE Outstanding(pv, growth(months), growth(years * MonthsInYear))

DownPayment(terms) == Times(Whole(terms.price), Tenths(terms.down))
LoanAmount(terms) == Minus(Whole(terms.price), DownPayment(terms))
ClosingCosts(terms) == Times(Whole(terms.price), Tenths(terms.closing))

DebtServiceAnnual(terms) ==
    Times(Pmt(MonthlyRate(Tenths(terms.rate)), terms.years * MonthsInYear, LoanAmount(terms)),
          Whole(MonthsInYear))

PrincipalPayDown(terms) ==
    Minus(LoanAmount(terms),
          EndingBalance(LoanAmount(terms), Tenths(terms.rate), terms.years, MonthsInYear))

\* The terms a project loan carries are fixed; its payment is null until there is an amount.
ProjectLoanPayment(loan, rate, years) ==
    IF loan = None \/ loan.amount = None
    THEN None
    ELSE Money(Pmt(MonthlyRate(rate), years * MonthsInYear, Whole(loan.amount)))

----------------------------------------------------------------------------
\* Cash out of pocket, taxes, scenarios.

FinancedBy(loan) ==
    IF loan = None \/ loan.amount = None THEN Zero ELSE Whole(loan.amount)

ItemsTotal(items) == SumOf([i \in DOMAIN items |-> Whole(items[i])])

GrossOop(terms, items) ==
    Plus(Plus(DownPayment(terms), ClosingCosts(terms)), ItemsTotal(items))

TotalOop(terms, items, loan) == Minus(GrossOop(terms, items), FinancedBy(loan))

\* calculate_total_oop raises: the loan exceeds what it finances, or nothing is left.
OopRaises(terms, items, loan) ==
    \/ Below(GrossOop(terms, items), FinancedBy(loan))
    \/ TotalOop(terms, items, loan) = Zero

TaxSavings(tax, price, items) ==
    LET basis == Plus(Times(Whole(price), Minus(One, Tenths(tax.land))), ItemsTotal(items))
        shortLife == Times(basis, Tenths(tax.sla))
        loss == Times(shortLife, Tenths(tax.bonus))
    IN  Times(Tenths(tax.rate), loss)

ScenarioOf(noi, debt, cash, gained, oop) ==
    [noi |-> Money(noi), debt |-> Money(debt), cash |-> Money(cash),
     return |-> Percentage(Over(Plus(cash, gained), oop))]

AfterDebt(noi, debt, gained, oop) == ScenarioOf(noi, debt, Minus(noi, debt), gained, oop)

OperatingIncome(s, revenue, expenses) ==
    LET gross == Whole(revenue[s])
        monthly == SumOf([i \in DOMAIN expenses |-> Whole(expenses[i])])
        opex == Times(Times(monthly, Whole(MonthsInYear)), OpexMultiplier[s])
    IN  Minus(Minus(gross, opex), Times(gross, Tenths(revenue.cohost)))

Scenario(s, revenue, terms, items, expenses, loan) ==
    LET appreciation == Times(Whole(terms.price), Tenths(revenue.apprec))
    IN  AfterDebt(OperatingIncome(s, revenue, expenses), DebtServiceAnnual(terms),
                  Plus(PrincipalPayDown(terms), appreciation), TotalOop(terms, items, loan))

ForecastedRevenue(revenue, terms, items, expenses, loan) ==
    [s \in Scenarios |-> Scenario(s, revenue, terms, items, expenses, loan)]

CashOnCash(scenarios, oop) ==
    [s \in Scenarios |-> Percentage(Over(scenarios[s].cash, oop))]

Y1Coc(scenarios, savings, oop) ==
    [s \in Scenarios |->
        Quantize(Over(Plus(Minus(scenarios[s].noi, scenarios[s].debt), savings), oop), CocUnits)]

\* calculate_prr and calculate_budget_to_pp raise on a zero they would need.
RatiosRaise(revenue, terms) == revenue.mid = 0 \/ terms.price = 0
Prr(revenue, terms) == Percentage(Over(Whole(revenue.mid), Whole(terms.price)))
BudgetToPp(oop, terms) == Percentage(Over(oop, Whole(terms.price)))

----------------------------------------------------------------------------
\* The repayment of a loan, one payment at a time.

VARIABLES
    borrowed,  \* the loan being repaid
    month,     \* payments made
    balance    \* what is still owed

loanVars == <<borrowed, month, balance>>

LoanInit ==
    /\ borrowed \in LoanCases
    /\ month = 0
    /\ balance = Whole(borrowed.amount)

PayMonth ==
    /\ month < borrowed.years * MonthsInYear
    /\ month' = month + 1
    /\ balance' = Minus(Times(balance, Plus(One, MonthlyRate(borrowed.rate))),
                        Pmt(MonthlyRate(borrowed.rate), borrowed.years * MonthsInYear,
                            Whole(borrowed.amount)))
    /\ UNCHANGED borrowed

LoanSpec == LoanInit /\ [][PayMonth]_loanVars

\* The year-one pay-down reads the balance from a closed form (_ending_balance),
\* the debt service from another (_pmt): paying the second every month leaves,
\* after any number of months, exactly what the first says is owed, and nothing
\* after the last, for zero and non-zero rates alike.
BalanceIsWhatPaymentsLeave ==
    /\ balance = EndingBalance(Whole(borrowed.amount), borrowed.rate, borrowed.years, month)
    /\ month = borrowed.years * MonthsInYear => balance = Zero
=============================================================================
