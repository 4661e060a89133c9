------------------------------ MODULE Cleaning ------------------------------
(***************************************************************************)
(* Cleaning a dataset's version (app/services/data_cleaning.py,            *)
(* clean_version in app/api/cleaning.py): the approved operations are      *)
(* applied in order to a copy of the frame, each leaves an entry in the    *)
(* log that becomes the new version's lineage, and one that raises         *)
(* abandons them all.                                                      *)
(*                                                                         *)
(* A frame is pandas': rows of two cells under the labels of its index,    *)
(* which no operation renumbers or reorders.  A text is the digits of a    *)
(* number, or a word that is none and whether white space surrounds it.    *)
(***************************************************************************)
EXTENDS Integers, Sequences, FiniteSets

CONSTANTS
    Names,         \* what a text column may hold: sequences of texts and of None
    Amounts,       \* what a numeric column may hold: sequences of numbers and of None
    None,
    MaxOps         \* bound on the operations of a request

VARIABLES
    stage,
    origin,        \* the frame of the version that is cleaned: label -> row
    frame,         \* apply_operations' working copy
    dtype,         \* column -> "object", "string" or "number"
    log            \* transformations_applied

vars == <<stage, origin, frame, dtype, log>>

Columns == {"name", "amount"}
Ops == {"drop_duplicate_rows", "drop_null_rows", "fill_nulls", "remove_outliers",
        "trim_whitespace", "cast_type"}
Dropping == {"drop_duplicate_rows", "drop_null_rows", "remove_outliers"}

Missing == <<"missing">>
Word(w, padded) == <<"word", w, padded>>
Digits(n) == <<"digits", n>>
Number(n) == <<"number", n>>
IsWord(c) == c[1] = "word"

TypeOK ==
    /\ stage \in {"apply", "saved", "rejected", "failed"}
    /\ DOMAIN frame \subseteq DOMAIN origin
    /\ \A i \in DOMAIN frame : DOMAIN frame[i] = Columns
    /\ dtype \in [Columns -> {"object", "string", "number"}]
    /\ log \in Seq([op : Ops, columns : SUBSET Columns, affected : 0..2 * Cardinality(DOMAIN origin)])

---------------------------------------------------------------------------
Present(f, col) == {i \in DOMAIN f : f[i][col] # Missing}
MissingIn(f, col) == DOMAIN f \ Present(f, col)

\* duplicated: an earlier row with the same cells in the columns looked at.
Duplicates(f, cols) ==
    {i \in DOMAIN f : \E j \in DOMAIN f : j < i /\ \A c \in cols : f[i][c] = f[j][c]}
NullRows(f, cols) == UNION {MissingIn(f, c) : c \in cols}

\* The k-th smallest of a column's numbers.
Ranked(f, col, k) ==
    CHOOSE v \in {f[i][col][2] : i \in Present(f, col)} :
        /\ Cardinality({i \in Present(f, col) : f[i][col][2] < v}) < k
        /\ k <= Cardinality({i \in Present(f, col) : f[i][col][2] <= v})

\* Four times the quantile of k quarters, interpolated between two values.
Quantile(f, col, k) ==
    LET at == k * (Cardinality(Present(f, col)) - 1)
        low == Ranked(f, col, at \div 4 + 1)
    IN  4 * low + (IF at % 4 = 0 THEN 0 ELSE (at % 4) * (Ranked(f, col, at \div 4 + 2) - low))

\* _iqr_outlier_index with a multiplier of 1.5: none below four values, nor where the middle half
\* of the values are equal.
TooFew(f, col) == Cardinality(Present(f, col)) < 4
Outliers(f, col) ==
    LET Q1 == Quantile(f, col, 1)
        Q3 == Quantile(f, col, 3)
    IN  IF TooFew(f, col) THEN {}
        ELSE {i \in Present(f, col) : /\ Q3 # Q1
                                      /\ LET v == 8 * f[i][col][2] IN
                                         \/ v < 2 * Q1 - 3 * (Q3 - Q1)
                                         \/ v > 2 * Q3 + 3 * (Q3 - Q1)}

\* Series.median, half a value rounded down; Series.mode, where it finds one of the most frequent.
Median(f, col) ==
    LET n == Cardinality(Present(f, col)) IN
    IF n = 0 THEN Missing
    ELSE Number((Ranked(f, col, (n + 1) \div 2) + Ranked(f, col, n \div 2 + 1)) \div 2)
Times(f, col, c) == Cardinality({i \in DOMAIN f : f[i][col] = c})
Modes(f, col) ==
    LET held == {f[i][col] : i \in Present(f, col)} IN
    IF held = {} THEN {Word("", FALSE)}
    ELSE {c \in held : \A d \in held : Times(f, col, c) >= Times(f, col, d)}

Filled(f, col, value) ==
    [i \in DOMAIN f |-> [f[i] EXCEPT ![col] = IF @ = Missing THEN value ELSE @]]

\* A cell as text: str of a number, and what to_csv writes.
Text(c) == IF c[1] = "number" THEN Digits(c[2]) ELSE c

\* astype(str).str.strip(): a number becomes a text, and so does a missing value, "nan" or "<NA>".
Strip(c) == IF c = Missing THEN Word("nan", FALSE)
            ELSE IF IsWord(c) THEN Word(c[2], FALSE) ELSE Text(c)
Trimmed(f, cols) ==
    [i \in DOMAIN f |-> [c \in Columns |-> IF c \in cols THEN Strip(f[i][c]) ELSE f[i][c]]]
Padded(f, col) == {i \in Present(f, col) : IsWord(f[i][col]) /\ f[i][col][3]}

\* to_numeric(errors="coerce").
Numeric(c) == IF IsWord(c) THEN Missing ELSE IF c[1] = "digits" THEN Number(c[2]) ELSE c
Coerced(f, col) == [i \in DOMAIN f |-> [f[i] EXCEPT ![col] = Numeric(@)]]
Worded(f, col) == [i \in DOMAIN f |-> [f[i] EXCEPT ![col] = Text(@)]]

---------------------------------------------------------------------------
(* apply_operations *)

Entry(op, cols, n) == log' = Append(log, [op |-> op, columns |-> cols, affected |-> n])
Applying == stage = "apply" /\ Len(log) < MaxOps
Unmoved == UNCHANGED <<stage, origin>>

DropRows(op, cols, rows) ==
    /\ frame' = [i \in DOMAIN frame \ rows |-> frame[i]]
    /\ Entry(op, cols, Cardinality(rows))
    /\ UNCHANGED dtype /\ Unmoved

\* params.subset names the columns, or all are compared.
DropDuplicateRows ==
    /\ Applying
    /\ \E cols \in SUBSET Columns \ {{}} :
         DropRows("drop_duplicate_rows", cols, Duplicates(frame, cols))

DropNullRows ==
    /\ Applying
    /\ \E cols \in {Columns} \cup {{c} : c \in Columns} :
         DropRows("drop_null_rows", cols, NullRows(frame, cols))

RemoveOutliers ==
    /\ Applying
    /\ \E c \in Columns : /\ dtype[c] = "number" \/ TooFew(frame, c)
                          /\ DropRows("remove_outliers", {c}, Outliers(frame, c))

NullsAfter(c, value) == Cardinality(MissingIn(Filled(frame, c, value), c))
NullsBefore(c, value) == Cardinality(MissingIn(frame, c))

FillColumn(c, value) ==
    /\ frame' = Filled(frame, c, value)
    /\ Entry("fill_nulls", {c}, NullsBefore(c, value))
    /\ dtype' = [dtype EXCEPT ![c] = IF @ = "number" /\ IsWord(value) THEN "object" ELSE @]
    /\ Unmoved

\* mean and median of a number column, mode of any, a constant of the column's own type.
FillNulls ==
    /\ Applying
    /\ \E c \in Columns :
         \/ dtype[c] = "number" /\ FillColumn(c, Median(frame, c))
         \/ \E value \in Modes(frame, c) : FillColumn(c, value)
         \/ FillColumn(c, IF dtype[c] = "number" THEN Number(0) ELSE Word("k", FALSE))

\* The column that is named, or every object column.  The count compares texts with texts, so it
\* has neither the numbers nor the missing values that become texts.
PaddedCells(cols) == UNION {Padded(frame, c) \X {c} : c \in cols}

TrimWhitespace ==
    /\ Applying
    /\ \E cols \in {{c} : c \in Columns} \cup {{c \in Columns : dtype[c] = "object"}} :
         /\ frame' = Trimmed(frame, cols)
         /\ Entry("trim_whitespace", cols, Cardinality(PaddedCells(cols)))
         /\ dtype' = [c \in Columns |-> IF c \in cols THEN "object" ELSE dtype[c]]
    /\ Unmoved

\* integer and float coerce, string keeps what is missing missing; boolean and datetime are left out.
CastType ==
    /\ Applying
    /\ \E c \in Columns :
         /\ Entry("cast_type", {c}, Cardinality(DOMAIN frame))
         /\ \/ /\ frame' = Coerced(frame, c)
               /\ dtype' = [dtype EXCEPT ![c] = "number"]
            \/ /\ frame' = Worded(frame, c)
               /\ dtype' = [dtype EXCEPT ![c] = "string"]
    /\ Unmoved

\* An unknown operation, column, strategy or target, or a constant that is not given, is a
\* ValueError and 400; arithmetic on texts, or a column left out, another exception and 500.
Refuse ==
    /\ Applying
    /\ stage' \in {"rejected", "failed"}
    /\ UNCHANGED <<origin, frame, dtype, log>>

\* clean_version: at least one operation; 400 if no row is left; else the new version is
\* committed with its dataset, as Artifacts has it.
SaveOrReject ==
    /\ stage = "apply" /\ log # <<>>
    /\ stage' = IF DOMAIN frame = {} THEN "rejected" ELSE "saved"
    /\ UNCHANGED <<origin, frame, dtype, log>>

FrameOf(names, amounts) ==
    [i \in DOMAIN names |-> [c \in Columns |->
        IF c = "name" THEN IF names[i] = None THEN Missing ELSE names[i]
        ELSE IF amounts[i] = None THEN Missing ELSE Number(amounts[i])]]

Init ==
    /\ stage = "apply"
    /\ \E n \in Names, a \in Amounts : origin = FrameOf(n, a)
    /\ frame = origin
    /\ dtype = [c \in Columns |-> IF c = "name" THEN "object" ELSE "number"]
    /\ log = <<>>

Next ==
    \/ DropDuplicateRows \/ DropNullRows \/ RemoveOutliers \/ FillNulls \/ TrimWhitespace
    \/ CastType \/ Refuse \/ SaveOrReject

Spec == Init /\ [][Next]_vars

---------------------------------------------------------------------------
(* Properties *)

\* The sum of the counts of the entries E of a log: as many as there are pairs of one of them and a
\* number up to its count.
Affected(es, E) == Cardinality(UNION {{i} \X (1..es[i].affected) : i \in E})

Drops(es) == {i \in DOMAIN es : es[i].op \in Dropping}
Changes(es, col) == {i \in DOMAIN es : col \in es[i].columns /\ es[i].op \notin Dropping}
Changed(col) == {i \in DOMAIN frame : Text(frame[i][col]) # Text(origin[i][col])}

\* A missing value that a trim has turned into a text is in no count.
Blind(es, col) == \E i \in DOMAIN es : es[i].op = "trim_whitespace" /\ col \in es[i].columns

\* What is saved is what the log says: its rows are rows of the parent version; those that are gone
\* are counted, one by one, by the operations that drop rows; and of a column's cells no more are
\* written differently in the new file than the operations on that column count, unless one was a
\* trim, which leaves out what it makes of missing values (data_cleaning.apply_operations).  A
\* number that a trim has made a text is written as before, and is in no count either.
LineageAccounts ==
    stage = "saved" =>
        /\ DOMAIN frame # {} /\ DOMAIN frame \subseteq DOMAIN origin
        /\ Cardinality(DOMAIN origin) - Cardinality(DOMAIN frame) = Affected(log, Drops(log))
        /\ \A c \in Columns :
             Cardinality(Changed(c))
               <= Affected(log, Changes(log, c))
                  + (IF Blind(log, c) THEN Cardinality(MissingIn(origin, c)) ELSE 0)
===========================================================================
