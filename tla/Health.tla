------------------------------- MODULE Health -------------------------------
(***************************************************************************)
(* What the predictive modules share: capped penalties, the score they     *)
(* leave, its tier, the robust z-score against the peers, the projection   *)
(* of the score over the stored history and the confidence.  Every module  *)
(* of the source repeats these helpers; the map names one of the copies.   *)
(*                                                                         *)
(* Numbers are fixed-point integers.  Penalties are ten-thousandths of a   *)
(* point (U to the point), as are shares and rates, which the code rounds  *)
(* to four decimals; stored scores are hundredths of a point, z-scores and *)
(* confidences thousandths, and hours whole.                               *)
(***************************************************************************)
EXTENDS Integers, Sequences, SequencesExt, FiniteSetsExt

CONSTANTS
    MinRunsForTrend,    \* history_min_runs_for_trend of the module.yaml files
    AisleOf             \* component id -> its aisle, or NoAisle when the id names none

ASSUME HealthAssumption == MinRunsForTrend \in Nat \ {0}

NoAisle == "none"

U        == 10000       \* one point
None     == -1          \* a time to maintenance that is None
Tiers    == <<"critical", "warn", "watch", "ok">>       \* worst first
Full     == 100 * 100   \* the best stored score
Critical == 4000        \* CRITICAL_SCORE, in hundredths
Year     == 24 * 365    \* in hours; no projection goes further

Abs(x)         == IF x < 0 THEN -x ELSE x
Positive(x)    == IF x > 0 THEN x ELSE 0
AtMost(x, cap) == IF x < cap THEN x ELSE cap

Rounded(x, unit) == (x + unit \div 2) \div unit

(* Mutant: what is beyond the cap is taken for an outlier and dropped. *)
CappedAway(points, cap) == IF points > cap * U THEN 0 ELSE Positive(points)

(* A penalty of the given number of points, never negative, at most cap. *)
Capped(points, cap) == AtMost(Positive(points), cap * U)

(* Penalties are a sequence of <<factor, points>>, in the order of the dict; *)
(* no module has more than ten.                                             *)
Total(pen) ==
    LET of(i) == IF i \in DOMAIN pen THEN pen[i][2] ELSE 0
    IN  of(1) + of(2) + of(3) + of(4) + of(5) + of(6) + of(7) + of(8) + of(9) + of(10)

(* Mutant: a score that is not kept above 0. *)
ScoreUnclamped(points) == 100 * U - points

ScoreOf(points) == Positive(100 * U - points)

(* clamp: at most 100 points, rounded to hundredths. *)
Stored(raw)     == AtMost(Rounded(raw, 100), Full)

(* Mutant: critical begins at 45 points. *)
TierOfShifted(raw) == IF raw >= 85 * U THEN "ok"
                      ELSE IF raw >= 65 * U THEN "watch"
                      ELSE IF raw >= 45 * U THEN "warn"
                      ELSE "critical"

(* The tier is cut from the unrounded score. *)
TierOf(raw) == IF raw >= 85 * U THEN "ok"
               ELSE IF raw >= 65 * U THEN "watch"
               ELSE IF raw >= 40 * U THEN "warn"
               ELSE "critical"

Rank(tier)     == CHOOSE i \in DOMAIN Tiers : Tiers[i] = tier
Flagged(tier)  == tier # "ok"

(* The worst tier of a non-empty set of tiers. *)
WorstOf(tiers) == Tiers[Min({Rank(t) : t \in tiers})]

-----------------------------------------------------------------------------
(* Peers: values are a function on the components, or on places of a row *)

(* The k-th of the values in ascending order. *)
Nth(vals, k) ==
    Min({v \in Range(vals) : k <= Cardinality({i \in DOMAIN vals : vals[i] <= v})})

Median(vals) ==
    LET n == Cardinality(DOMAIN vals)
    IN  (Nth(vals, (n + 1) \div 2) + Nth(vals, n \div 2 + 1)) \div 2

(* The integer square root: whole thirty-twos first, then the rest. *)
Sqrt(x) ==
    LET root(r, step) == r * r <= x /\ x < (r + step) * (r + step)
        most == 32 * (CHOOSE k \in 0..(x \div 1024) : root(32 * k, 32))
    IN  most + CHOOSE r \in 0..31 : root(most + r, 1)

(* Median and MAD; the standard deviation when half the peers are equal; 0 *)
(* when they all are.                                                      *)
RobustZ(v, vals) ==
    LET n   == Cardinality(DOMAIN vals)
        med == Median(vals)
        mad == Median([i \in DOMAIN vals |-> Abs(vals[i] - med)])
        avg == SumFunction(vals) \div n
        far == Max({Abs(vals[i] - avg) : i \in DOMAIN vals})
        dev(x) == ((x - avg) * 1000) \div far
        std == Sqrt(SumFunction([i \in DOMAIN vals |-> dev(vals[i]) * dev(vals[i])]) \div n)
    IN  IF n < 2 THEN 0
        ELSE IF mad > 0 THEN ((v - med) * 6745) \div (10 * mad)
        ELSE IF far <= 0 \/ std = 0 THEN 0
        ELSE (dev(v) * 1000) \div std

-----------------------------------------------------------------------------
(* History: rows [age, score, ...], newest first, ages in hours *)

(* component_history, of the rows stored by component *)
History(stored, id) == IF id \in DOMAIN stored THEN stored[id] ELSE <<>>

(* The least-squares slope of ys over xs as <<numerator, denominator>>; the *)
(* denominator is 0 when xs has no spread.                                  *)
Slope(xs, ys) ==
    LET n  == Len(xs)
        x0 == [i \in 1..n |-> xs[i] - xs[n]]
    IN  << n * SumFunction([i \in 1..n |-> x0[i] * ys[i]]) - SumFunction(x0) * SumFunction(ys),
           n * SumFunction([i \in 1..n |-> x0[i] * x0[i]]) - SumFunction(x0) * SumFunction(x0) >>

Times(hist)  == [i \in DOMAIN hist |-> -hist[i].age]
Scores(hist) == [i \in DOMAIN hist |-> hist[i].score]

(* Hours until the score crosses Critical at this slope per hour. *)
Crossing(score, slope) ==
    IF score <= Critical THEN 0
    ELSE IF 100 * slope[1] < -slope[2]
    THEN AtMost(((score - Critical) * slope[2]) \div (-slope[1]), Year)
    ELSE None

(* _trend of most modules: enough rows make the regime "trend", also when   *)
(* the fit is impossible.                                                   *)
Trend(hist, score) ==
    LET slope == Slope(Times(hist), Scores(hist))
    IN  IF Len(hist) < MinRunsForTrend THEN [used |-> FALSE, ttm |-> None]
        ELSE [used |-> TRUE,
              ttm  |-> IF slope[2] # 0 THEN Crossing(score, slope)
                       ELSE IF score <= Critical THEN 0 ELSE None]

(* _ttm_and_confidence of the others: only a possible fit makes a trend.    *)
FittedTrend(hist, score) ==
    LET trend == Trend(hist, score)
    IN  [trend EXCEPT !.used = @ /\ Slope(Times(hist), Scores(hist))[2] # 0]

(* Bands of hours for critical, warn and watch; none for ok. *)
Band(bands, tier) == IF tier = "ok" THEN None ELSE bands[Rank(tier)]

TrendConfidence(base, hist) ==
    AtMost(base + AtMost((200 * Len(hist)) \div (3 * MinRunsForTrend), 200), 970)

(* What a part of a whole amounts to, at most all of it, in thousandths. *)
Share(part, whole) == AtMost((1000 * part) \div whole, 1000)

(* A confidence scaled by how complete the data is. *)
Scaled(conf, data) == (conf * (600 + (400 * data) \div 1000)) \div 1000

(* How often the most frequent value is there; the mean. *)
Repeats(vals)  == Max({0} \cup {Cardinality({j \in DOMAIN vals : vals[j] = vals[i]}) :
                                    i \in DOMAIN vals})
Mean(vals)     == IF DOMAIN vals = {} THEN 0
                  ELSE Rounded(SumFunction(vals), Cardinality(DOMAIN vals))

-----------------------------------------------------------------------------
(* Attribution *)

(* Mutant: only a factor that outweighs all others together. *)
TopFactorDominant(pen, least) ==
    LET most == {i \in DOMAIN pen : pen[i][2] >= least /\ 2 * pen[i][2] > Total(pen)}
    IN  IF most = {} THEN "none" ELSE pen[Min(most)][1]

(* The factor that took the most points, the first of equals; "none" when  *)
(* no factor took at least the given points.                               *)
TopFactor(pen, least) ==
    LET most == {i \in DOMAIN pen : /\ pen[i][2] >= least
                                    /\ \A j \in DOMAIN pen : pen[j][2] <= pen[i][2]}
    IN  IF most = {} THEN "none" ELSE pen[Min(most)][1]

(* Two records of features of a component: where the second is lower, what    *)
(* the first has is no higher than the floor up to which it costs nothing.   *)
NoLower(f, g, floors) == \A k \in DOMAIN floors : f[k] <= g[k] \/ f[k] <= floors[k]

StillUp(f, g, flags) == \A k \in flags : f[k] => g[k]

Contributing == 101             \* points > 0.01
Material     == 5 * U - 50      \* points that round to 5.00

(* What a module says of one component.  trend is its Trend record; bands   *)
(* and the two confidences are for the regime it turns out to be.          *)
Judge(raw, trend, bands, trendConf, coldConf, cause, cross, facts) ==
    [ raw    |-> raw,
      score  |-> Stored(raw),
      tier   |-> TierOf(raw),
      regime |-> IF trend.used THEN "trend" ELSE "coldstart",
      ttm    |-> IF trend.used THEN trend.ttm ELSE Band(bands, TierOf(raw)),
      conf   |-> IF trend.used THEN trendConf ELSE coldConf,
      cause  |-> cause,
      cross  |-> cross,
      facts  |-> facts ]
=============================================================================
