----------------------------- MODULE Generator -----------------------------
(***************************************************************************)
(* A dashboard generated from a dataset's profile                          *)
(* (app/api/dashboard_generator.py, app/services/dashboard_generator.py,   *)
(* app/services/eda.py: suggest_charts): candidates from the columns, a    *)
(* choice among them by the language model or by a fixed rule, and a       *)
(* layout on a grid of twelve columns.                                     *)
(*                                                                         *)
(* A candidate is its widget type; the columns are counted by type.  What  *)
(* the model replies is read entry by entry, an index at a time.           *)
(***************************************************************************)
EXTENDS Integers, Sequences, FiniteSets

CONSTANTS
    MaxColumns,    \* bound on the columns of each type
    MaxCharts,     \* suggest_charts' max_suggestions
    MaxReply       \* bound on the entries of a reply

VARIABLES
    stage,         \* where generate_dashboard is
    candidates,    \* widget types, in the order of build_candidates
    selected,      \* widget types, in the order they are laid out
    left,          \* entries of the reply that are still to be read
    aiUsed,
    cursor,        \* pack_layout's position: x, y, and the height of the row
    placed         \* the widgets with their place

vars == <<stage, candidates, selected, left, aiUsed, cursor, placed>>

Types == {"kpi", "chart", "table"}
MaxWidgets == 6
GridCols == 12

\* KPI_SIZE, CHART_SIZE, TABLE_SIZE.
Width == [kpi |-> 3, chart |-> 6, table |-> 12]
Height == [kpi |-> 2, chart |-> 4, table |-> 4]

Start == [x |-> 0, y |-> 0, row |-> 0]

TypeOK ==
    /\ stage \in {"profile", "choose", "read", "pack", "saved", "failed"}
    /\ candidates \in Seq(Types) /\ selected \in Seq(Types)
    /\ left \in 0..MaxReply /\ aiUsed \in BOOLEAN
    /\ cursor \in [x : 0..GridCols, y : Nat, row : {0, 2, 4}]
    /\ placed \in Seq([type : Types, x : 0..GridCols, y : Nat])

---------------------------------------------------------------------------
Times(n, type) == [i \in 1..n |-> type]
Truncated(s, n) == SubSeq(s, 1, IF Len(s) < n THEN Len(s) ELSE n)
Count(s, type) == Cardinality({i \in DOMAIN s : s[i] = type})

\* The first n candidates of a type, or as many as there are: one is like the other.
First(n, type) == Times(IF Count(candidates, type) < n THEN Count(candidates, type) ELSE n, type)

\* suggest_charts: one per numeric column and per categorical column of few values, then a line,
\* a grouped bar and a scatter plot where there are the columns for them.
ChartCount(nums, cats, dates) ==
    LET All == nums + cats + (IF dates > 0 /\ nums > 0 THEN 1 ELSE 0)
                           + (IF cats > 0 /\ nums > 0 THEN 1 ELSE 0)
                           + (IF nums >= 2 THEN 1 ELSE 0)
    IN  IF All < MaxCharts THEN All ELSE MaxCharts

\* build_candidates: a KPI per numeric column that has a value, the charts, the table.
Candidates(nums, valued, cats, dates) ==
    Times(valued, "kpi") \o Times(ChartCount(nums, cats, dates), "chart") \o <<"table">>

\* select_fallback: two KPIs, three charts, the table.
Fallback == Truncated(First(2, "kpi") \o First(3, "chart") \o First(1, "table"), MaxWidgets)

BuildCandidates ==
    /\ stage = "profile"
    /\ \E nums, cats, dates \in 0..MaxColumns : \E valued \in 0..nums :
         candidates' = Candidates(nums, valued, cats, dates)
    /\ stage' = "choose"
    /\ UNCHANGED <<selected, left, aiUsed, cursor, placed>>

\* DashboardGeneratorError: no key, no JSON, a missing field.
FallBack ==
    /\ stage' = "pack"
    /\ selected' = Fallback
    /\ aiUsed' = FALSE
    /\ candidates' = <<>>
    /\ UNCHANGED <<left, cursor, placed>>

Unusable == stage = "choose" /\ FallBack

\* The client's own exceptions, and a reply or an entry that is no object, are not caught: 500.
Crash ==
    /\ stage \in {"choose", "read"}
    /\ stage' = "failed" /\ candidates' = <<>>
    /\ UNCHANGED <<selected, left, aiUsed, cursor, placed>>

Reply ==
    /\ stage = "choose"
    /\ \E n \in 0..MaxReply : left' = n
    /\ stage' = "read"
    /\ UNCHANGED <<candidates, selected, aiUsed, cursor, placed>>

\* An index that is no integer or out of range is skipped; the same one may come twice.
ReadEntry ==
    /\ stage = "read" /\ left > 0
    /\ left' = left - 1
    /\ \E i \in {0} \cup DOMAIN candidates :
         selected' = IF i = 0 THEN selected ELSE Append(selected, candidates[i])
    /\ UNCHANGED <<stage, candidates, aiUsed, cursor, placed>>

\* No valid entry is an error as well; six at most are kept.
Kept(s) == Truncated(s, MaxWidgets)

EndOfReply ==
    /\ stage = "read" /\ left = 0
    /\ IF selected = <<>> THEN FallBack
       ELSE /\ stage' = "pack"
            /\ selected' = Kept(selected)
            /\ aiUsed' = TRUE
            /\ candidates' = <<>>
            /\ UNCHANGED <<left, cursor, placed>>

---------------------------------------------------------------------------
(* pack_layout, a widget at a time. *)

Row(row, w) == IF row < Height[w] THEN Height[w] ELSE row
Wrapped(w) == IF cursor.x + Width[w] > GridCols
              THEN [x |-> 0, y |-> cursor.y + cursor.row, row |-> 0]
              ELSE cursor

LastHeight(from, w) == [from EXCEPT !.x = @ + Width[w], !.row = Height[w]]
Beyond(from, w) == [from EXCEPT !.x = @ + Width[w], !.row = Row(@, w)]

Place ==
    /\ stage = "pack" /\ Len(placed) < Len(selected)
    /\ LET w == selected[Len(placed) + 1]
           from == Wrapped(w)
       IN  /\ placed' = Append(placed, [type |-> w, x |-> from.x, y |-> from.y])
           /\ cursor' = Beyond(from, w)
    /\ UNCHANGED <<stage, candidates, selected, left, aiUsed>>

\* The dashboard and its widgets, in one commit.
Save ==
    /\ stage = "pack" /\ Len(placed) = Len(selected)
    /\ stage' = "saved"
    /\ UNCHANGED <<candidates, selected, left, aiUsed, cursor, placed>>

Init ==
    /\ stage = "profile"
    /\ candidates = <<>> /\ selected = <<>> /\ placed = <<>>
    /\ left = 0 /\ aiUsed = FALSE
    /\ cursor = Start

Next ==
    \/ BuildCandidates \/ Unusable \/ Crash \/ Reply \/ ReadEntry \/ EndOfReply
    \/ Place \/ Save

Spec == Init /\ [][Next]_vars

---------------------------------------------------------------------------
(* Properties *)

Cells(p) == (p.x .. p.x + Width[p.type] - 1) \X (p.y .. p.y + Height[p.type] - 1)

\* Whatever the columns are and whatever the language model replies, a dashboard that is saved has
\* one to six widgets, and the table among them, once, if the rule chose them;
\* no two of them overlap, none leaves the grid, and they read in the order they were chosen
\* (services/dashboard_generator.py: _parse_and_validate, select_fallback, pack_layout).
LayoutIsSound ==
    stage = "saved" =>
        /\ Len(placed) \in 1..MaxWidgets
        /\ ~aiUsed => Count(selected, "table") = 1
        /\ \A i \in DOMAIN placed : Cells(placed[i]) \subseteq (0..GridCols - 1) \X Nat
        /\ \A i, j \in DOMAIN placed : i < j =>
             /\ Cells(placed[i]) \cap Cells(placed[j]) = {}
             /\ \/ placed[i].y < placed[j].y
                \/ placed[i].y = placed[j].y /\ placed[i].x < placed[j].x
===========================================================================
