------------------------------- MODULE Drift -------------------------------
(***************************************************************************)
(* Prediction monitoring: the log of served predictions (monitoring.py,     *)
(* db.py) and the comparison of what was logged with what the model learned *)
(* from (ml/drift.py).                                                      *)
(*                                                                          *)
(* A row has a numeric feature n and a categorical one c, Nothing where the *)
(* value is missing.  A frame is a function from positions to rows, and a   *)
(* column from those positions that have a value.  Proportions stay         *)
(* fractions of counts, edges are integers in units of 1/Unit, and the      *)
(* index is computed in thousandths from a table of logarithms.             *)
(***************************************************************************)
EXTENDS Integers, Sequences, FiniteSets, Functions, FiniteSetsExt

CONSTANTS Bins,      \* NUMERIC_BINS
          Unit,      \* edges are integers in units of 1/Unit
          MaxCategories, \* MAX_CATEGORIES
          LogCap,    \* settings.prediction_log_max_rows
          SampleSize,\* settings.drift_sample_size
          MinRows,   \* settings.drift_min_rows
          Trainings, \* frames a run may be trained on
          Batches,   \* frames a prediction may be asked for
          MaxLogged, \* bound on the batches in the log
          Ln,        \* Ln[k] is the logarithm of k, in thousandths
          LnEpsilon, \* that of EPSILON
          Nothing    \* the None of a value, of a reference

Rows == [n : Int \union {Nothing}, c : STRING \union {Nothing}]

\* Between any two proportions x/l and y/r the table is a table of logarithms:
\* ln(u) - ln(v) is no nearer to zero than 2(u - v)/(u + v), to what a
\* thousandth may be rounded; and EPSILON is far less than one row of a sample.
LogarithmsOK ==
  /\ Ln \in Seq(Int) /\ LnEpsilon \in Int
  /\ \A l, r \in DOMAIN Ln : \A x \in 1..l, y \in 1..r :
       LET u == x * r
           v == y * l
           gap == (Ln[x] - Ln[l]) - (Ln[y] - Ln[r])
       IN 2000 * ((u - v) * (u - v)) <= (u + v) * ((u - v) * gap + (u + v))
  /\ \A l \in DOMAIN Ln : \A x \in 1..l : LnEpsilon + 2000 <= Ln[x] - Ln[l]

\* No label is one of the names that the comparison uses itself.
DriftConstants ==
  /\ {Bins, MaxCategories, LogCap, SampleSize, MinRows} \subseteq Nat \ {0}
  /\ Unit \in Nat /\ \A k \in (2..Bins) \union {10} : Unit % k = 0
  /\ LogarithmsOK
  /\ Trainings \subseteq Seq(Rows) /\ Batches \subseteq Seq(Rows)
  /\ \A f \in Trainings : /\ Len(f) \in DOMAIN Ln
                           /\ \A i \in DOMAIN f :
                                f[i].c \notin {"__other__", "__unseen__"}
  /\ SampleSize \in DOMAIN Ln

VARIABLES
  reference, \* what the metadata tell of the training frame
  log,       \* the logged batches: what was served, the positions that were
             \* picked, and whether the inputs were kept
  keeps,     \* settings.prediction_log_inputs
  window,    \* the rows that were compared
  report     \* the comparison, and the advice drawn from it

driftVars == <<reference, log, keeps, window, report>>

Known(frame, col) ==
  [i \in {j \in DOMAIN frame : frame[j][col] # Nothing} |-> frame[i][col]]
Size(values) == Cardinality(DOMAIN values)
HowMany(values, Test(_)) ==
  Cardinality({i \in DOMAIN values : Test(values[i])})

\* The values in order.
Sorted(values) ==
  [k \in 1..Size(values) |->
     Min({v \in Range(values) : HowMany(values, LAMBDA w : w <= v) >= k})]

-----------------------------------------------------------------------------
(* The reference                                                            *)

\* The bin of a value, the reference's ends opened out to either side.
BinOf(edges, v) ==
  1 + Cardinality({i \in 2..(Len(edges) - 1) : edges[i] <= v * Unit})

\* A slip: the ends are closed, and what lies outside is in no bin.
Histogram_ClosedEnds(edges, values) ==
  [b \in 1..(Len(edges) - 1) |->
     HowMany(values, LAMBDA v : /\ BinOf(edges, v) = b
                                /\ edges[1] <= v * Unit
                                /\ v * Unit <= edges[Len(edges)])]
Histogram(edges, values) ==
  [b \in 1..(Len(edges) - 1) |->
     HowMany(values, LAMBDA v : BinOf(edges, v) = b)]

\* The distinct quantiles, interpolated; equal widths if one value is most of
\* the column; nothing to bin if it is all of it.
Edges(values) ==
  LET sorted == Sorted(values)
      last == Size(values) - 1
      quantile(i) ==
        LET at == (i * last) \div Bins
            rest == (i * last) % Bins
            next == sorted[Min({at + 2, Size(values)})]
        IN (Unit \div Bins) * (sorted[at + 1] * (Bins - rest) + next * rest)
      quantiles == {quantile(i) : i \in 0..Bins}
      width == Min({Bins, Max({2, Cardinality(Range(values))})})
      step == (Unit \div width) * (sorted[Size(values)] - sorted[1])
  IN IF Cardinality(quantiles) >= 3
     THEN Sorted([q \in quantiles |-> q])
     ELSE [i \in 1..(width + 1) |-> Unit * sorted[1] + (i - 1) * step]

\* _numeric_reference.
NumericReference(values) ==
  IF Cardinality(Range(values)) <= 1
  THEN [constant |-> IF Size(values) = 0 THEN Nothing
                     ELSE CHOOSE v \in Range(values) : TRUE,
        edges |-> <<>>, counts |-> <<>>]
  ELSE [constant |-> Nothing, edges |-> Edges(values),
        counts |-> Histogram(Edges(values), values)]

\* _categorical_reference: the labels that fewer than cap are ahead of, by
\* number and then by appearance; the tail is pooled.
CategoricalReference(values, cap) ==
  LET count(l) == HowMany(values, LAMBDA v : v = l)
      appears(l) == Min({i \in DOMAIN values : values[i] = l})
      Ahead(x, l) == \/ count(x) > count(l)
                     \/ count(x) = count(l) /\ appears(x) < appears(l)
      kept == {l \in Range(values) :
                 Cardinality({x \in Range(values) : Ahead(x, l)}) < cap}
  IN [labels |-> kept,
      counts |-> [l \in kept |-> count(l)],
      pooled |-> HowMany(values, LAMBDA v : v \notin kept)]

\* build_reference.
Reference(frame) ==
  [frame |-> frame, from |-> "training_profile",
   n |-> NumericReference(Known(frame, "n")),
   c |-> CategoricalReference(Known(frame, "c"), MaxCategories)]

\* _reference_from_charts: what a run without a profile has instead.  Ten equal
\* bins that hold their right edge, a thousandth wide around a constant; the ten
\* most frequent labels, a missing one among them, and no tail.
Charted(frame) ==
  LET values == Known(frame, "n")
      low == Min(Range(values))
      high == Max(Range(values))
      edges == [i \in 1..11 |-> Unit * low +
                  IF low = high THEN i - 6
                  ELSE (i - 1) * (high - low) * (Unit \div 10)]
      bin(v) == 1 + Cardinality({i \in 2..10 : edges[i] < v * Unit})
      labels == [i \in DOMAIN frame |->
                   IF frame[i]["c"] = Nothing THEN "nan" ELSE frame[i]["c"]]
  IN [frame |-> frame, from |-> "charts",
      n |-> [constant |-> Nothing, edges |-> edges,
             counts |-> [b \in 1..10 |->
                           HowMany(values, LAMBDA v : bin(v) = b)]],
      c |-> [CategoricalReference(labels, 10) EXCEPT !.pooled = 0]]

-----------------------------------------------------------------------------
(* The comparison                                                           *)

SumOf(counts) == FoldFunction(+, 0, counts)
LnOf(count, total) == IF count = 0 THEN LnEpsilon ELSE Ln[count] - Ln[total]

\* _psi, times both totals: an emptied bin is floored.
Psi(ref, live) ==
  LET r == SumOf(ref)
      l == SumOf(live)
  IN SumOf([b \in DOMAIN ref |->
              (live[b] * r - ref[b] * l)
                * (LnOf(live[b], l) - LnOf(ref[b], r))])

\* _verdict.
Verdict(ref, live) ==
  LET whole == SumOf(ref) * SumOf(live)
      psi == Psi(ref, live)
  IN IF psi >= 250 * whole THEN "material"
     ELSE IF psi >= 100 * whole THEN "moderate" ELSE "stable"

Column(measured, verdict) == [measured |-> measured, verdict |-> verdict]

\* _compare_numeric: a constant column has a verdict, and no index.
CompareNumeric(spec, values) ==
  IF spec.edges = <<>>
  THEN Column(FALSE, IF Range(values) \subseteq {spec.constant} \ {Nothing}
                     THEN "stable" ELSE "material")
  ELSE IF Size(values) = 0 THEN Column(FALSE, "unavailable")
  ELSE Column(TRUE, Verdict(spec.counts, Histogram(spec.edges, values)))

\* _compare_categorical: whatever the reference does not name is one bucket.
CompareCategorical(spec, values) ==
  LET outside == HowMany(values, LAMBDA v : v \notin spec.labels)
      ref == [l \in spec.labels \union {"__other__"} |->
                IF l \in spec.labels THEN spec.counts[l] ELSE spec.pooled]
      live == [l \in DOMAIN ref |->
                 IF l = "__other__" THEN outside
                 ELSE HowMany(values, LAMBDA v : v = l)]
      verdict == Verdict(ref, live)
  IN IF spec.labels = {} \/ Size(values) = 0 THEN Column(FALSE, "unavailable")
     ELSE Column(TRUE, IF verdict = "stable" /\ 20 * outside >= Size(values)
                          /\ outside > 0
                       THEN "moderate" ELSE verdict)

Columns(ref, rows) ==
  [n |-> CompareNumeric(ref.n, Known(rows, "n")),
   c |-> CompareCategorical(ref.c, Known(rows, "c"))]

\* _worst, of the columns that have an index.
Worst(columns) ==
  LET verdicts == {columns[col].verdict :
                     col \in {x \in DOMAIN columns : columns[x].measured}}
  IN IF verdicts = {} THEN "unavailable"
     ELSE IF "material" \in verdicts THEN "material"
     ELSE IF "moderate" \in verdicts THEN "moderate" ELSE "stable"

\* compare.
Compare(ref, rows) ==
  IF ref = Nothing THEN [status |-> "unavailable", columns |-> <<>>]
  ELSE [columns |-> Columns(ref, rows),
        status |-> IF Cardinality(DOMAIN rows) < MinRows THEN "insufficient_data"
                   ELSE Worst(Columns(ref, rows))]

-----------------------------------------------------------------------------
(* The log                                                                  *)

\* A slip: of a large batch the head is kept.
Pickings_Head(total) == {[i \in 1..Min({total, LogCap}) |-> i]}

\* _build_rows: all rows, or as many as the cap, spread evenly.  A position is
\* the product of an index and a step, both floating-point numbers, rounded
\* down: where the product should be a whole number it may come out just below
\* it, as it does for the index 100 of 1150 rows that are cut to 1000.
Pickings(total) ==
  IF total <= LogCap THEN {[i \in 1..total |-> i]}
  ELSE LET whole == {i \in 2..LogCap : ((i - 1) * total) % LogCap = 0}
       IN {[i \in 1..LogCap |-> ((i - 1) * total) \div LogCap
                                  + (IF i \in short THEN 0 ELSE 1)] :
             short \in SUBSET whole}

NoReport == [status |-> "none", columns |-> <<>>, retrain |-> FALSE]

\* A report is made for the one who asks, and kept nowhere.
Forget == window' = <<>> /\ report' = NoReport

\* A run is trained; one from before the profile was kept has charts, or has
\* none that can be read.
DriftInit ==
  /\ \/ reference = Nothing
     \/ \E f \in Trainings : reference \in {Reference(f), Charted(f)}
  /\ log = <<>> /\ keeps = TRUE
  /\ window = <<>> /\ report = NoReport

\* Rows are served and logged in one transaction, which may fail without
\* anybody noticing.
Serve ==
  /\ Len(log) < MaxLogged
  /\ \E b \in Batches : \E picked \in Pickings(Len(b)) :
       log' = Append(log, [served |-> b, picked |-> picked, inputs |-> keeps])
  /\ Forget
  /\ UNCHANGED <<reference, keeps>>

\* The operator turns the logging of inputs on or off.
Configure == keeps' = ~keeps /\ Forget /\ UNCHANGED <<reference, log>>

\* The log goes with the run; its file, uploaded again, trains it with a profile.
Delete ==
  /\ log # <<>>
  /\ log' = <<>>
  /\ Forget
  /\ IF reference = Nothing THEN UNCHANGED reference
                           ELSE reference' = Reference(reference.frame)
  /\ UNCHANGED keeps

\* The rows of the log: the batch, and which of those that were picked.
Logged(k) == {k} \X DOMAIN log[k].picked
LoggedAfter(k) == UNION {Logged(m) : m \in (k + 1)..Len(log)}

\* Of those, what the model was given, where that was kept.
Inputs(S) ==
  [p \in {q \in S : log[q[1]].inputs} |->
     log[p[1]].served[log[p[1]].picked[p[2]]]]

\* The newest rows of the log, at most SampleSize; the rows of a batch carry
\* one time, so which rows of the batch that is cut are taken is open.
Windows ==
  LET cut == Min({k \in 0..Len(log) : Cardinality(LoggedAfter(k)) <= SampleSize})
      rest == SampleSize - Cardinality(LoggedAfter(cut))
  IN IF cut = 0 THEN {Inputs(LoggedAfter(0))}
     ELSE {Inputs(LoggedAfter(cut) \union S) : S \in kSubset(rest, Logged(cut))}

\* drift_report with retraining_advice: the reason to retrain is the status.
Look ==
  /\ report = NoReport
  /\ window' \in Windows
  /\ LET compared == IF DOMAIN window' = {} /\ log # <<>>
                     THEN [status |-> "unavailable", columns |-> <<>>]
                     ELSE Compare(reference, window')
     IN report' = [status |-> compared.status, columns |-> compared.columns,
                   retrain |-> compared.status = "material"]
  /\ UNCHANGED <<reference, log, keeps>>

DriftNext == Serve \/ Configure \/ Delete \/ Look

DriftSpec == DriftInit /\ [][DriftNext]_driftVars

-----------------------------------------------------------------------------
(* Properties                                                               *)

\* Two columns are near if no test sets them apart by more than 16 in a hundred.
Apart(xs, ys, Test(_)) ==
  LET gap == HowMany(xs, Test) * Size(ys) - HowMany(ys, Test) * Size(xs)
  IN Max({gap, -gap})
Near(xs, ys, Test(_)) ==
  100 * Apart(xs, ys, Test) <= 16 * (Size(xs) * Size(ys))
Alike(f, g, col) ==
  \A v \in Range(Known(f, col)) \union Range(Known(g, col)) :
    Apart(Known(f, col), Known(g, col), LAMBDA x : x = v) = 0

\* A model that is called stable is asked what it was trained on: no edge of
\* the reference and no label it names parts the window from the training frame
\* by more than 0.16, and of twenty values at most one is new.  Conversely, a
\* window that is distributed like the frame is not called drift.  Three columns
\* stand outside: one that was constant raises no status when it moves, one that
\* had no label raises none when it has, and one whose tail was pooled is called
\* moved when nothing has.  (Of a reference that was salvaged from charts
\* neither half is true: its bins hold their right edge, and are read as if they
\* held the left one.)
StatusMatchesMove ==
  /\ reference # Nothing /\ DOMAIN window # {}
  /\ reference.from = "training_profile"
  =>
    LET frame == reference.frame
        was(col) == Known(frame, col)
        now(col) == Known(window, col)
        edges == reference.n.edges
        labels == reference.c.labels
    IN /\ report.status = "stable" =>
            /\ Size(now("n")) > 0 => \A i \in 2..(Len(edges) - 1) :
                 Near(was("n"), now("n"), LAMBDA v : v * Unit < edges[i])
            /\ labels # {} /\ Size(now("c")) > 0 =>
                 /\ \A l \in labels : Near(was("c"), now("c"), LAMBDA v : v = l)
                 /\ 20 * HowMany(now("c"), LAMBDA v : v \notin Range(was("c")))
                      <= Size(now("c"))
       /\ report.status \in {"moderate", "material"} =>
            \/ ~Alike(frame, window, "n")
            \/ ~Alike(frame, window, "c")
            \/ reference.c.pooled > 0

\* Of every stretch of a served batch the log holds its share, to within one
\* row, however the positions are rounded: a batch that is sorted is not
\* represented by its head, and no row is logged twice.
SampleIsEven ==
  \A i \in DOMAIN log :
    LET total == Len(log[i].served)
        logged == Size(log[i].picked)
        picked == Range(log[i].picked)
    IN /\ Cardinality(picked) = logged
       /\ \A a \in 1..total, b \in 1..total :
            LET gap == Cardinality(picked \intersect (a..b)) * total
                         - (b + 1 - a) * logged
            IN a <= b => -total <= gap /\ gap <= total

=============================================================================
