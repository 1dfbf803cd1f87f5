----------------------------- MODULE Statistics -----------------------------
(***************************************************************************)
(* The statistics of utils.c on the numbers of one group, and what they    *)
(* should be.  The numbers are integers and results are fractions <<p, q>> *)
(* with q > 0, or <<0, 0>> for nan: what long double rounds is exact here. *)
(* Square roots, exponentials and the constant 1.4826 are left out: a      *)
(* standard deviation is represented by the variance, a test for normality *)
(* by whether it has a result.                                             *)
(***************************************************************************)
EXTENDS Integers, Sequences, FiniteSets, SequencesExt, FiniteSetsExt

Nan == <<0, 0>>

Same(x, y) == (x[2] = 0) = (y[2] = 0) /\ x[1] * y[2] = y[1] * x[2]

AtMost(x, y) == x[1] * y[2] <= y[1] * x[2]

AbsInt(n) == IF n < 0 THEN -n ELSE n

Total(f) == FoldLeft(LAMBDA s, v : s + v, 0, f)

Ascending(xs) == SortSeq(xs, <)              \* qsortfl

-----------------------------------------------------------------------------
(* The code.  xs is sorted where field_op_summarize sorts it.              *)

median_value(xs) ==
  LET n == Len(xs)
  IN  IF n % 2 = 1 THEN <<xs[n \div 2 + 1], 1>>
      ELSE <<xs[n \div 2] + xs[n \div 2 + 1], 2>>

QuantileOfN(xs, percent) ==                  \* mutant: h = n * quantile
  LET n == Len(xs)
      h == n * percent
      at(i) == xs[IF i < n THEN i + 1 ELSE n]
  IN  IF n = 1 THEN <<xs[1], 1>>
      ELSE <<100 * at(h \div 100)
               + (h % 100) * (at((h + 99) \div 100) - at(h \div 100)), 100>>

(* quantile_value (percent / 100): h = (n - 1) * quantile                  *)
percentile_value(xs, percent) ==
  LET n == Len(xs)
      h == (n - 1) * percent
      at(i) == xs[i + 1]
  IN  IF n = 1 THEN <<xs[1], 1>>
      ELSE <<100 * at(h \div 100)
               + (h % 100) * (at((h + 99) \div 100) - at(h \div 100)), 100>>

(* mad_value with scale 1: deviations from the doubled median.             *)
mad_value(xs) ==
  LET m == median_value(xs)
      mads == [i \in DOMAIN xs |-> AbsInt(m[1] - m[2] * xs[i])]
      mad == median_value(Ascending(mads))
  IN  <<mad[1], mad[2] * m[2]>>

Better(type, size, best) ==
  IF type = "mode" THEN size > best ELSE size < best

(* update_best_seq                                                         *)
Updated(type, m) ==
  IF Better(type, m.seq, m.best) THEN [m EXCEPT !.best = m.seq, !.value = m.last]
  ELSE m

mode_value(xs, type) ==
  LET first == [last |-> xs[1], seq |-> 1, value |-> xs[1],
                best |-> IF type = "mode" THEN 1 ELSE Len(xs) + 1]
      step(m, v) == IF v = m.last THEN [m EXCEPT !.seq = @ + 1]
                    ELSE [Updated(type, m) EXCEPT !.seq = 1, !.last = v]
  IN  Updated(type, FoldLeft(step, first, Tail(xs))).value

trimmed_mean_value(xs, percent) ==
  LET n == Len(xs)
      c == (percent * n) \div 100
  IN  IF percent >= 50 THEN median_value(xs)
      ELSE <<Total(SubSeq(xs, c + 1, n - c)), n - 2 * c>>

(* The sums of powers of the deviations from the mean, multiplied by n to  *)
(* stay whole.                                                             *)
Deviation(xs, i) == Len(xs) * xs[i] - Total(xs)

variance_value(xs, df) ==
  LET n == Len(xs)
  IN  IF n = df THEN Nan
      ELSE <<Total([i \in DOMAIN xs |-> Deviation(xs, i) * Deviation(xs, i)]),
             n * n * (n - df)>>

covariance_value(xs, ys, df) ==
  LET n == Len(xs)
  IN  IF n = df THEN Nan
      ELSE <<Total([i \in DOMAIN xs |-> Deviation(xs, i) * Deviation(ys, i)]),
             n * n * (n - df)>>

(* pearson_corr_value is nan by its guard, or where it divides 0 by 0.     *)
pearson_defined(xs, ys, df) ==
  Len(xs) # df /\ variance_value(xs, df)[1] # 0 /\ variance_value(ys, df)[1] # 0

skewness_defined(xs, df) ==
  LET n == Len(xs)
  IN  /\ n > 1
      /\ variance_value(xs, 0)[1] # 0
      /\ df = 1 => n > 2

kurtosis_defined(xs, df) ==
  LET n == Len(xs)
  IN  /\ n > 1
      /\ variance_value(xs, 0)[1] # 0
      /\ df = 1 => n > 3

SES_defined(n) == n > 2
SEK_defined(n) == n > 3

jarque_bera_defined(xs) ==
  kurtosis_defined(xs, 0) /\ skewness_defined(xs, 0) /\ Len(xs) > 1

dagostino_pearson_defined(xs) ==
  /\ skewness_defined(xs, 1) /\ SES_defined(Len(xs))
  /\ kurtosis_defined(xs, 1) /\ SEK_defined(Len(xs))

-----------------------------------------------------------------------------
(* What they should be.                                                    *)

(* The k-th smallest, by counting.                                         *)
Kth(xs, k) ==
  CHOOSE v \in Range(xs) :
    /\ Cardinality({i \in DOMAIN xs : xs[i] < v}) < k
    /\ Cardinality({i \in DOMAIN xs : xs[i] <= v}) >= k

(* Half of the numbers are at most the median, half at least; of several   *)
(* such values the middle one.                                             *)
Median(xs) ==
  LET n == Len(xs)
  IN  <<Kth(xs, (n + 1) \div 2) + Kth(xs, (n + 2) \div 2), 2>>

Negated(xs) == [i \in DOMAIN xs |-> -xs[i]]

(* Percentiles: 50 is the median, at k / (n - 1) it is the (k + 1)-th      *)
(* smallest number, on the way it never falls, and it makes no difference  *)
(* from which side it is counted.                                          *)
PercentilesRight(xs) ==
  LET s == Ascending(xs)
      n == Len(xs)
      p(percent) == percentile_value(s, percent)
  IN  /\ Same(p(50), Median(xs)) /\ Same(median_value(s), Median(xs))
      /\ \A k \in 0 .. n - 1 :
           n > 1 /\ (100 * k) % (n - 1) = 0 =>
             Same(p((100 * k) \div (n - 1)), <<Kth(xs, k + 1), 1>>)
      /\ \A q \in {0, 10, 25, 49, 50, 67, 75, 90} : AtMost(p(q), p(q + 1))
      /\ \A q \in {0, 1, 25, 33, 50, 90} :
           LET back == percentile_value(Ascending(Negated(xs)), 100 - q)
           IN Same(p(q), <<-back[1], back[2]>>)

(* The median of the distances from the median.                            *)
MadRight(xs) ==
  LET m == Median(xs)
      mad == Median([i \in DOMAIN xs |-> AbsInt(2 * xs[i] - m[1])])
  IN  Same(mad_value(Ascending(xs)), <<mad[1], 2 * mad[2]>>)

Times(xs, v) == Cardinality({i \in DOMAIN xs : xs[i] = v})

(* The mode is the number that occurs most often, the antimode the one     *)
(* that occurs least often; the smallest of several.                       *)
ModeRight(xs) ==
  /\ mode_value(Ascending(xs), "mode") =
       Min({v \in Range(xs) : \A w \in Range(xs) : Times(xs, w) <= Times(xs, v)})
  /\ mode_value(Ascending(xs), "antimode") =
       Min({v \in Range(xs) : \A w \in Range(xs) : Times(xs, v) <= Times(xs, w)})

(* Trimming takes the same share from both ends: nothing is the mean, all  *)
(* but one or two numbers is the median, as for R.                         *)
TrimmedMeanRight(xs) ==
  LET s == Ascending(xs)
      n == Len(xs)
  IN  /\ Same(trimmed_mean_value(s, 0), <<Total(xs), n>>)
      /\ \A percent \in {10, 20, 25, 34, 40, 49, 50} :
           LET t == trimmed_mean_value(s, percent)
               cut == {k \in 1 .. n : 100 * k <= percent * n
                                        \/ 100 * (n + 1 - k) <= percent * n}
           IN  /\ n <= Cardinality(cut) + 2 => Same(t, Median(xs))
               /\ n > Cardinality(cut) =>
                    AtMost(<<Kth(xs, Min(1 .. n \ cut)), 1>>, t)
                      /\ AtMost(t, <<Kth(xs, Max(1 .. n \ cut)), 1>>)

(* Over all pairs of numbers: n (n - df) times the covariance is the sum   *)
(* of the products of their differences.                                   *)
PairSum(xs, ys) ==
  LET n == Len(xs)
  IN  Total([k \in 1 .. n * n |->
        LET i == (k - 1) \div n + 1
            j == ((k - 1) % n) + 1
        IN IF i < j THEN (xs[i] - xs[j]) * (ys[i] - ys[j]) ELSE 0])

MomentsRight(xs, ys) ==
  \A df \in {0, 1} :
    LET n == Len(xs)
        right == IF n = df THEN Nan ELSE <<PairSum(xs, ys), n * (n - df)>>
        spread == Cardinality(Range(xs)) > 1
    IN  /\ Same(covariance_value(xs, ys, df), right)
        /\ Same(variance_value(xs, df), covariance_value(xs, xs, df))
        /\ pearson_defined(xs, ys, df) <=> spread /\ Cardinality(Range(ys)) > 1
        /\ jarque_bera_defined(xs) <=> spread
        /\ dagostino_pearson_defined(xs) <=> spread /\ n >= 4
=============================================================================
