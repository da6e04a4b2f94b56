------------------------------ MODULE Analytics ------------------------------
(***************************************************************************)
(* What a user is shown of the rows the daily jobs write: the series and   *)
(* figures of api/analytics_*.py, fx_utils.py and the summary of           *)
(* api/dashboard.py, computed from closes, exchange rates and holdings.    *)
(* Rows are missing wherever a job failed or a market was closed.          *)
(*                                                                         *)
(* Amounts are integers and percentages fractions <<numerator,             *)
(* denominator>>; rounding is left out.  A close, rate or quantity of 0 is *)
(* a missing row.                                                          *)
(***************************************************************************)
EXTENDS Integers, FiniteSets, FiniteSetsExt, Functions, Sequences

CONSTANTS
    Tickers,
    Domestic,     \* is_domestic
    Portfolios,
    Avgs,         \* bound: what the avg_price of the tickers may be
    Prices,       \* closes
    SectorOf,     \* get_sector
    RateOf,       \* the rate of each day, when the job of that day saves it
    Fallback,     \* get_cached_fx_rate
    MonthOf,      \* the month of each day
    Period,       \* of the moving average
    LastDay       \* bound

Days == 1..LastDay

ASSUME AnalyticsAssumption ==
    /\ IsFiniteSet(Tickers) /\ Domestic \subseteq Tickers
    /\ IsFiniteSet(Portfolios)
    /\ Avgs \subseteq [Tickers -> Nat]
    /\ Prices \subseteq Nat \ {0}
    /\ RateOf \in [Days -> Nat \ {0}] /\ Fallback \in Nat \ {0}
    /\ MonthOf \in [Days -> Nat] /\ \A d, e \in Days : d <= e => MonthOf[d] <= MonthOf[e]
    /\ Period \in Nat \ {0} /\ DOMAIN SectorOf = Tickers
    /\ LastDay \in Nat \ {0}

VARIABLES
    today,   \* of Days; no row is of a later one
    snap,    \* price_snapshots: the close of each ticker and day, or 0
    fx,      \* fx_rate_snapshots: the days with a row
    hold,    \* holdings: the quantity, 0 or 1, in each portfolio
    avg      \* their avg_price, one per ticker; 0 is what KIS reports as such

vars == <<today, snap, fx, hold, avg>>

Init ==
    /\ today = 1
    /\ snap = [t \in Tickers |-> [d \in Days |-> 0]]
    /\ fx = {}
    /\ hold = [p \in Portfolios |-> [t \in Tickers |-> 0]]
    /\ avg \in Avgs

\* save_snapshots and save_ohlcv_snapshots: one row per ticker and day, the
\* last writer's.
SaveClose(t, price) ==
    /\ snap' = [snap EXCEPT ![t][today] = price]
    /\ UNCHANGED <<today, fx, hold, avg>>

\* save_fx_rate_snapshot
SaveRate ==
    /\ fx' = fx \cup {today}
    /\ UNCHANGED <<today, snap, hold, avg>>

\* A holding comes or goes, by hand or by a synchronisation.
Trade(p, t) ==
    /\ hold' = [hold EXCEPT ![p][t] = 1 - @]
    /\ avg' \in Avgs
    /\ UNCHANGED <<today, snap, fx>>

NextDay ==
    /\ today < LastDay
    /\ today' = today + 1
    /\ UNCHANGED <<snap, fx, hold, avg>>

Next ==
    \/ \E t \in Tickers, price \in Prices : SaveClose(t, price)
    \/ SaveRate
    \/ \E p \in Portfolios, t \in Tickers : Trade(p, t)
    \/ NextDay

Spec == Init /\ [][Next]_vars

-----------------------------------------------------------------------------
(***************************************************************************)
(* Series.  from is the cutoff of the period asked for.                    *)
(***************************************************************************)
Total(f(_), S) == SumFunction([x \in S |-> f(x)])

\* sorted(), of days.
Sorted(S) ==
    [i \in 1..Cardinality(S) |-> CHOOSE d \in S : Cardinality({e \in S : e <= d}) = i]

Qty(t) == Total(LAMBDA p : hold[p][t], Portfolios)
Held == {t \in Tickers : Qty(t) > 0}
Rows == {r \in Portfolios \X Tickers : hold[r[1]][r[2]] > 0}
Closes(t, from) == {d \in from..today : snap[t][d] # 0}
Dates(from) == UNION {Closes(t, from) : t \in Held}

\* first_close
FirstClose(t, from) == IF Closes(t, from) = {} THEN 0 ELSE snap[t][Min(Closes(t, from))]

\* last_close after each date of the loop, carried forward.
LastClose(t, from) ==
    LET last[d \in (from - 1)..today] ==
          IF d < from THEN 0 ELSE IF snap[t][d] # 0 THEN snap[t][d] ELSE last[d - 1]
    IN last

\* Mutant: {**last_close, **first_close}
MutantEffective(t, d, from) ==
    IF FirstClose(t, from) # 0 THEN FirstClose(t, from) ELSE LastClose(t, from)[d]

\* {**first_close, **last_close}
Effective(t, d, from) ==
    IF LastClose(t, from)[d] # 0 THEN LastClose(t, from)[d] ELSE FirstClose(t, from)

\* get_portfolio_history, and benchmark_delta's day_values
History(from) ==
    [d \in Dates(from) |-> Total(LAMBDA t : Qty(t) * Effective(t, d, from), Held)]

\* Mutant: the gaps are not filled.
MutantMetricsUnfilled(from) ==
    [d \in Dates(from) |-> Total(LAMBDA r : Qty(r[2]) * snap[r[2]][d], Rows)]

\* get_metrics: the tickers of the rows, not of their set; a ticker of two
\* portfolios counts twice, with the quantity of both.
Metrics(from) ==
    [d \in Dates(from) |-> Total(LAMBDA r : Qty(r[2]) * Effective(r[2], d, from), Rows)]

Series(f) ==
    LET dates == Sorted(DOMAIN f)
    IN [i \in DOMAIN dates |-> f[dates[i]]]

Above(a, b) == a[1] * b[2] > b[1] * a[2]

\* Mutant: the peak is not moved.
MutantMdd(s) ==
    LET run[i \in 1..Len(s)] ==
          IF i = 1 THEN <<0, 1>>
          ELSE LET dd == <<s[1] - s[i], s[1]>>
               IN IF Above(dd, run[i - 1]) THEN dd ELSE run[i - 1]
    IN IF Len(s) < 2 THEN <<0, 1>> ELSE run[Len(s)]

\* _calc_mdd: the peak so far, and the deepest fall from one.
Mdd(s) ==
    LET run[i \in 1..Len(s)] ==
          IF i = 1 THEN [peak |-> s[1], most |-> <<0, 1>>]
          ELSE LET peak == IF s[i] > run[i - 1].peak THEN s[i] ELSE run[i - 1].peak
                   dd == <<peak - s[i], peak>>
               IN [peak |-> peak, most |-> IF Above(dd, run[i - 1].most) THEN dd ELSE run[i - 1].most]
    IN IF Len(s) < 2 THEN <<0, 1>> ELSE run[Len(s)].most

\* The current price: the day's close once it has a row, else none.
Price(t) == snap[t][today]

\* _compute_holding_pnl: what has no price counts at cost.
Current == Total(LAMBDA r : IF Price(r[2]) # 0 THEN Price(r[2]) ELSE avg[r[2]], Rows)

\* get_metrics' MDD: the series and the value now.
Drawdown(from) == Mdd(Series(Metrics(from)) \o <<Current>>)

\* benchmark_delta: the last value against the first.
Mine(from) ==
    LET s == Series(History(from))
    IN IF Len(s) >= 2 THEN <<s[Len(s)] - s[1], s[1]>> ELSE <<0, 1>>

SmaRows(t, from) ==
    Sorted(Closes(t, IF from > Period * 2 THEN from - Period * 2 ELSE 1))

\* _compute_sma over the closes from a lookback before the first date asked
\* for; the points are sums, which the code divides by Period.
Sma(t, from) ==
    LET rows == SmaRows(t, from)
        ends == {i \in Period..Len(rows) : rows[i] >= from}
    IN {<<rows[i], Total(LAMBDA j : snap[t][rows[j]], (i - Period + 1)..i)>> : i \in ends}

-----------------------------------------------------------------------------
(***************************************************************************)
(* Months.                                                                 *)
(***************************************************************************)
Months(from) == {MonthOf[d] : d \in Dates(from)}
MonthClose(t, m) ==
    LET ds == {d \in Closes(t, 1) : MonthOf[d] = m}
    IN IF ds = {} THEN 0 ELSE snap[t][Max(ds)]

\* The tickers with a close in both months.
Compared(prev, m) == {t \in Held : MonthClose(t, prev) # 0 /\ MonthClose(t, m) # 0}

\* get_monthly_returns, from one month with data to the next: each ticker's
\* return over its close of the first, weighted by the value in the second of
\* one of its rows (all of which have one share here).  The first close
\* divides: the fractions are brought to a common denominator.
Monthly(prev, m) ==
    LET ts == Compared(prev, m)
        den == FoldSet(LAMBDA t, acc : MonthClose(t, prev) * acc, 1, ts)
        weight(t) == MonthClose(t, m)
    IN <<Total(LAMBDA t : (MonthClose(t, m) - MonthClose(t, prev)) * weight(t)
                              * (den \div MonthClose(t, prev)), ts),
         den * Total(weight, ts)>>

-----------------------------------------------------------------------------
(***************************************************************************)
(* Exchange rates.                                                         *)
(***************************************************************************)

\* forward_fill_rates: a loop over the dates of the prices.
Filled(from) ==
    LET last[d \in (from - 1)..today] ==
          IF d < from THEN Fallback
          ELSE IF d \in Dates(from) \cap fx THEN RateOf[d] ELSE last[d - 1]
    IN [d \in Dates(from) |-> last[d]]

\* get_krw_asset_history
KrwHistory(from) ==
    [d \in Dates(from) |->
        Total(LAMBDA t : Qty(t) * Effective(t, d, from) *
                          (IF t \in Domestic THEN 1 ELSE Filled(from)[d]), Held)]

\* _nearest_fx_rate: the neighbours on both sides of bisect_left.
Nearest(target) ==
    LET before == {d \in fx : d < target}
        after == {d \in fx : d >= target}
        d0 == Max(before)
        d1 == Min(after)
    IN IF before = {}
       THEN IF after = {} THEN Fallback ELSE RateOf[d1]
       ELSE IF after = {} \/ target - d0 <= d1 - target THEN RateOf[d0] ELSE RateOf[d1]

\* get_fx_gain_loss of one share bought on a day.
StockGain(t) == ((IF Price(t) # 0 THEN Price(t) ELSE avg[t]) - avg[t]) * Fallback
FxGain(t, bought) == avg[t] * Fallback - avg[t] * Nearest(bought)

-----------------------------------------------------------------------------
(***************************************************************************)
(* The summary of the dashboard.                                           *)
(***************************************************************************)
Rate(t) == IF t \in Domestic THEN 1 ELSE Fallback
Cost(t) == avg[t] * Rate(t)

\* _aggregate_holdings: without a price, at cost.
Worth(t) == IF Price(t) # 0 THEN Price(t) * Rate(t) ELSE Cost(t)
TotalAsset == Total(LAMBDA r : Worth(r[2]), Rows)
TotalInvested == Total(LAMBDA r : Cost(r[2]), Rows)

\* get_sector_allocation
InSector(sector) == Total(LAMBDA r : Cost(r[2]), {r \in Rows : SectorOf[r[2]] = sector})

Pnl(t) == IF Price(t) # 0 THEN Price(t) * Rate(t) - Cost(t) ELSE 0

\* _build_allocation: the items that have no value in KRW are given one here.
Allocated(t) ==
    IF Price(t) # 0 \/ t \notin Domestic THEN Worth(t) ELSE avg[t]

\* prev_closes: KIS tells it with the price.
Prev(t) == IF today > 1 /\ Price(t) # 0 THEN snap[t][today - 1] ELSE 0

DayChange ==
    LET rows == {r \in Rows : Prev(r[2]) # 0}
    IN Total(LAMBDA r : Worth(r[2]), rows) - Total(LAMBDA r : Prev(r[2]) * Rate(r[2]), rows)

-----------------------------------------------------------------------------
(***************************************************************************)
(* The page of a portfolio and the list of portfolios.                     *)
(***************************************************************************)
Of(p) == {r \in Rows : r[1] = p}
Priced(p) == {r \in Of(p) : Price(r[2]) # 0}

Invested(S) == Total(LAMBDA r : Cost(r[2]), S)
Value(p) == Total(LAMBDA r : Price(r[2]) * Rate(r[2]), Priced(p))

\* list_holdings_with_prices: an item, with no profit without a price or a cost.
ItemPnl(r) ==
    IF Price(r[2]) = 0 \/ Cost(r[2]) = 0 THEN 0
    ELSE Price(r[2]) * Rate(r[2]) - avg[r[2]] * Rate(r[2])

\* Mutant: what was invested in a holding without a price counts.
MutantPortfolioPnl(p) ==
    IF Invested(Of(p)) = 0 THEN 0 ELSE Value(p) - Invested(Of(p))

\* list_portfolios_with_prices: value and cost of the holdings with a price.
PortfolioPnl(p) ==
    IF Invested(Priced(p)) = 0 THEN 0 ELSE Value(p) - Invested(Priced(p))

\* list_portfolios: total_invested, a sum of amounts in their own currencies.
ListInvested(p) == Total(LAMBDA r : avg[r[2]], Of(p))

-----------------------------------------------------------------------------
(***************************************************************************)
(* What the figures promise.                                               *)
(***************************************************************************)
Twice == \E t \in Tickers : \E p, q \in Portfolios : p # q /\ hold[p][t] > 0 /\ hold[q][t] > 0
NeverFell(t, from) == \A d, e \in Closes(t, from) : d < e => snap[t][d] <= snap[t][e]

\* get_portfolio_history, get_krw_asset_history: the value of a date is that
\* of the closes known on it or, before a ticker's first, of its first; in KRW
\* at the last rate saved up to it, while every rate was saved on a date of
\* the series.
HistoryFilled ==
    \A from \in 1..today : \A d \in Dates(from) :
       LET known(t) == LET ds == {e \in Closes(t, from) : e <= d}
                       IN IF ds # {} THEN snap[t][Max(ds)] ELSE FirstClose(t, from)
           rates == {e \in fx : from <= e /\ e <= d}
           rate == IF rates = {} THEN Fallback ELSE RateOf[Max(rates)]
       IN /\ History(from)[d] = Total(LAMBDA t : Qty(t) * known(t), Held)
          /\ {e \in fx : e >= from} \subseteq Dates(from) =>
                KrwHistory(from)[d] =
                   Total(LAMBDA t : Qty(t) * known(t) * (IF t \in Domestic THEN 1 ELSE rate), Held)

\* The comments of get_metrics and of get_monthly_returns: a missing row makes
\* no loss.  When no close ever fell and every price is known, there is no
\* drawdown (while no ticker is in two portfolios), no period and no month of
\* loss.
NoFalseLoss ==
    (\A t \in Held : NeverFell(t, 1) /\ Price(t) # 0) =>
       /\ Rows # {} /\ ~Twice => Drawdown(1)[1] = 0
       /\ \A from \in 1..today : Mine(from)[1] >= 0
       /\ \A m, n \in Months(1) : m < n => Monthly(m, n)[1] >= 0

\* _calc_mdd: no fall from any earlier value to any later one is deeper, and
\* one is as deep.
MddIsDeepest ==
    \A from \in 1..today :
       LET s == Series(History(from))
       IN /\ \A i \in 1..Len(s) : \A j \in i..Len(s) : ~Above(<<s[i] - s[j], s[i]>>, Mdd(s))
          /\ Len(s) >= 2 => Mdd(s) = <<0, 1>> \/
                \E i \in 1..Len(s) : \E j \in i..Len(s) : Mdd(s) = <<s[i] - s[j], s[i]>>

\* get_stock_sma: each date asked for that has Period closes up to it has a
\* point, of the latest ones, though the query begins Period * 2 days earlier.
SmaOfLatest ==
    \A t \in Tickers : \A from \in Days :
       LET upTo(d) == {e \in Closes(t, 1) : e <= d}
           latest(d) == {e \in upTo(d) : Cardinality({g \in upTo(d) : g >= e}) <= Period}
           dates == {d \in Closes(t, from) : Cardinality(upTo(d)) >= Period}
       IN (\A d \in dates : \A e \in latest(d) : e >= from - Period * 2) =>
             Sma(t, from) = {<<d, Total(LAMBDA e : snap[t][e], latest(d))>> : d \in dates}

\* get_fx_gain_loss: the rate of a purchase is that of the nearest day, of two
\* equally near ones the earlier; the two gains add up to value less cost.
FxGainAddsUp ==
    \A t \in Tickers \ Domestic : \A d \in Days :
       LET dist(e) == IF e < d THEN d - e ELSE e - d
           near == {e \in fx : \A g \in fx : dist(e) <= dist(g)}
           cost == avg[t] * (IF fx = {} THEN Fallback ELSE RateOf[Min(near)])
       IN StockGain(t) + FxGain(t, d) = Worth(t) - cost

\* The drawdown, the moving average and the exchange gains are what their
\* definitions over all pairs, windows and neighbours say.
FiguresExact == MddIsDeepest /\ SmaOfLatest /\ FxGainAddsUp

\* get_summary: profit is that of the holdings with a price, the shares of the
\* allocation make up the whole, those of the sectors what was invested, and
\* the day's change compares the same holdings on both days: it is no loss
\* when nothing fell.
DashboardAddsUp ==
    /\ TotalAsset - TotalInvested = Total(LAMBDA r : Pnl(r[2]), Rows)
    /\ Total(LAMBDA r : Allocated(r[2]), Rows) = TotalAsset
    /\ Total(InSector, {SectorOf[t] : t \in Tickers}) = TotalInvested
    /\ (\A t \in Held : Prev(t) <= Price(t)) => DayChange >= 0
    /\ (\A t \in Held : Prev(t) \in {0, Price(t)}) => DayChange = 0

\* What was got for nothing, at its price.
Gift(r) == IF Price(r[2]) # 0 /\ Cost(r[2]) = 0 THEN Worth(r[2]) ELSE 0

\* The dashboard, the list of portfolios and the page of each portfolio, which
\* treat a missing price in three ways, show the same profit but for holdings of
\* avg_price 0: the page gives them none, the list leaves them out of a portfolio
\* in which nothing else is priced, the dashboard counts them.  And the list
\* without prices shows what was invested, where no holding is overseas.
ViewsAgree ==
    /\ DashboardAddsUp
    /\ TotalAsset - TotalInvested = Total(ItemPnl, Rows) + Total(Gift, Rows)
    /\ \A p \in Portfolios :
          PortfolioPnl(p) = Total(ItemPnl, Of(p)) +
                               (IF Invested(Priced(p)) = 0 THEN 0 ELSE Total(Gift, Of(p)))
    /\ \A p \in Portfolios : (\A r \in Of(p) : r[2] \in Domestic) =>
          ListInvested(p) = Invested(Of(p))
=============================================================================
