------------------------------ MODULE Training ------------------------------
(***************************************************************************)
(* Training a model (app/services/automl.py: train_automl_model): what the *)
(* target and the columns rule out, the task, the features, the candidates *)
(* fitted on one part of the rows and measured on the other, the winner    *)
(* refitted on all, and its importances mapped back to columns.            *)
(*                                                                         *)
(* A column is numeric or categorical; its width is the number of outputs  *)
(* the preprocessor makes of it: none for a column without a value, which  *)
(* the imputer drops.  A feature's place is its index in feature_columns,  *)
(* and outputs are numbered from one.  Metrics are small numbers; an       *)
(* importance is the columns whose outputs were summed up for it.          *)
(***************************************************************************)
EXTENDS Integers, Sequences, FiniteSets, Functions

CONSTANTS
    Features,      \* the columns other than the target: numbers, in the frame's order
    Categories,    \* how many values the encoder may find in a column
    Scores,        \* values of the primary metric
    None

VARIABLES
    stage,
    column,        \* feature -> its kind, its width, whether it looks like an identifier
    task,
    features,      \* feature_columns, in order
    scores,        \* candidates_results: the metric of each candidate fitted so far
    best,          \* the candidate that won, as an index of scores
    importance     \* column -> the columns whose outputs were summed up for it

vars == <<stage, column, task, features, scores, best, importance>>

Column == [kind : {"numeric"}, width : {0, 1}, identifier : {FALSE}]
            \cup [kind : {"categorical"}, width : {0} \cup Categories, identifier : {FALSE}]
            \cup [kind : {"categorical"}, width : Categories, identifier : {TRUE}]
Tasks == {"regression", "classification"}

TypeOK ==
    /\ stage \in {"ask", "features", "fit", "explain", "trained", "rejected", "failed"}
    /\ column \in [Features -> Column]
    /\ task \in Tasks \cup {None}
    /\ features \in Seq(Features)
    /\ scores \in Seq(Scores) /\ Len(scores) <= 2
    /\ best \in {0} \cup DOMAIN scores
    /\ importance \in [Features -> SUBSET Features]

---------------------------------------------------------------------------
\* The caller's task, or the one detect_task_type finds in the target.  AutoMLError, a 400: no such
\* target, fewer than twenty rows with one, a task that is neither.
AskTask ==
    /\ stage = "ask"
    /\ \/ task' \in Tasks /\ stage' = "features"
       \/ stage' = "rejected" /\ UNCHANGED task
    /\ UNCHANGED <<column, features, scores, best, importance>>

\* What a caller may name, as often as he likes; without names, all but those texts that look like
\* identifiers, in the frame's order.
Lists == UNION {[1..n -> Features] : n \in 0..Cardinality(Features)}
Automatic(fs) ==
    /\ Range(fs) = {c \in Features : ~column[c].identifier}
    /\ \A i, j \in DOMAIN fs : i < j => fs[i] < fs[j]
Repeats(fs) == \E i, j \in DOMAIN fs : i # j /\ fs[i] = fs[j]

\* select_feature_columns leaves out the target, and so perhaps nothing: 400, as for an unknown
\* name.  A column named twice is a frame instead of a series, which has no dtype: 500.
ChooseFeatures ==
    /\ stage = "features"
    /\ \E fs \in Lists, named \in BOOLEAN :
         /\ named \/ Automatic(fs)
         /\ \/ named /\ stage' = "rejected" /\ UNCHANGED features
            \/ fs = <<>> /\ stage' = "rejected" /\ UNCHANGED features
            \/ fs # <<>> /\ Repeats(fs) /\ stage' = "failed" /\ UNCHANGED features
            \/ fs # <<>> /\ ~Repeats(fs) /\ stage' = "fit" /\ features' = fs
    /\ UNCHANGED <<column, task, scores, best, importance>>

\* A candidate is fitted and measured; the first of the best wins.  An estimator may raise, a
\* single class or a text target for a regression: 500.
Beats(new, old) == new > old

FitCandidate ==
    /\ stage = "fit"
    /\ \E s \in Scores :
         /\ scores' = Append(scores, s)
         /\ best' = IF best = 0 \/ Beats(s, scores[best]) THEN Len(scores) + 1 ELSE best
    /\ stage' = IF Len(scores) = 1 THEN "explain" ELSE "fit"
    /\ UNCHANGED <<column, task, features, importance>>

FitRaises ==
    /\ stage \in {"fit", "explain"}
    /\ stage' = "failed"
    /\ UNCHANGED <<column, task, features, scores, best, importance>>

---------------------------------------------------------------------------
(* _feature_importance *)

Kind(i) == column[features[i]].kind
Width(i) == column[features[i]].width

\* The preprocessor puts the numeric columns' outputs first, then the categorical columns'.
LikeBefore(i) == {j \in DOMAIN features : Kind(j) = Kind(i) /\ j < i}
Before(i) ==
    LikeBefore(i) \cup
    {j \in DOMAIN features : Kind(j) = "numeric" /\ Kind(i) = "categorical"}

\* The outputs of place i, after those of the places before it.
FirstOf(i) == Cardinality(UNION {{j} \X (1..Width(j)) : j \in Before(i)})
Outputs(i) == FirstOf(i) + 1 .. FirstOf(i) + Width(i)

\* _feature_segments: one output per numeric column; the widths that the encoder was fitted with,
\* those of the columns it was given, are dealt to the categorical columns one after another.
Fitted(i) == {j \in DOMAIN features :
    /\ Kind(j) = "categorical" /\ Width(j) > 0
    /\ Cardinality({k \in LikeBefore(j) : Width(k) > 0}) = Cardinality(LikeBefore(i))}
Declared(i) == IF Kind(i) = "numeric" THEN 1..1
               ELSE UNION {1..Width(j) : j \in Fitted(i)}

StartAsGiven(i) == Cardinality(UNION {{j} \X Declared(j) : j \in {j \in DOMAIN features : j < i}})
Start(i) == Cardinality(UNION {{j} \X Declared(j) : j \in Before(i)})
Segment(i) == Start(i) + 1 .. Start(i) + Cardinality(Declared(i))

\* raw[idx : idx + width], summed up for the column.
Explain ==
    /\ stage = "explain"
    /\ importance' = [c \in Features |->
         {features[j] : j \in {j \in DOMAIN features : \E i \in DOMAIN features :
            features[i] = c /\ Segment(i) \cap Outputs(j) # {}}}]
    /\ stage' = "trained"
    /\ UNCHANGED <<column, task, features, scores, best>>

Init ==
    /\ stage = "ask"
    /\ column \in [Features -> Column]
    /\ task = None /\ features = <<>> /\ scores = <<>> /\ best = 0
    /\ importance = [c \in Features |-> {}]

Next == AskTask \/ ChooseFeatures \/ FitCandidate \/ FitRaises \/ Explain

Spec == Init /\ [][Next]_vars

---------------------------------------------------------------------------
(* Properties *)

\* A trained model is what its record says: no candidate that was fitted measured better than the
\* one reported, and the simpler one wins a tie; and the importance of a column is that of its own
\* outputs and no other's, however its kind and place mix with the others' - as long as it has a
\* value, and so have those whose outputs come before its own, for a column without one shifts all
\* behind it (automl.train_automl_model, _feature_segments).
ModelIsExplained ==
    stage = "trained" =>
        /\ \A i \in DOMAIN scores : scores[best] > scores[i] \/ (scores[best] = scores[i] /\ best <= i)
        /\ \A i \in DOMAIN features :
             (\A j \in Before(i) \cup {i} : Width(j) > 0) => importance[features[i]] = {features[i]}
        /\ \A c \in Features \ Range(features) : importance[c] = {}
===========================================================================
