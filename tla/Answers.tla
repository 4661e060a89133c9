------------------------------ MODULE Answers ------------------------------
(***************************************************************************)
(* Answers computed from a dataset's version and kept in Redis: a question *)
(* turned into SQL and run (app/api/query.py), ranked insights put into    *)
(* words (app/api/insights.py), the profile (app/api/eda.py); and what is  *)
(* put into words but not kept: a model's, a forecast's and a report's     *)
(* summary (app/services/ai_narration.py).                                 *)
(*                                                                         *)
(* The language model may be unconfigured, unreachable, or answer with     *)
(* anything; Redis may be unreachable or forget; requests overlap.  Each   *)
(* of these is a choice of the step it bears on.                           *)
(***************************************************************************)
EXTENDS Integers

CONSTANTS
    Versions,      \* dataset versions
    Quiet,         \* those in which detect_insights finds nothing
    Tables,        \* those of connected tables, which have no file
    Words,         \* questions, those with the same letters being one
    Readers,       \* request slots
    MaxAsks,       \* bound on the requests
    None

VARIABLES
    kept,          \* Redis: key -> answer, None where there is none
    reader,        \* slot -> the request it serves
    asks           \* requests made so far

vars == <<kept, reader, asks>>

Kinds == {"query", "insights", "eda", "summary"}

\* A generated statement: whether it is a single SELECT (or WITH) without a blocked word; how many
\* rows it is limited to: "none" where it has no limit, "any" number, at most ai_query_row_limit
\* ("capped"), or "twice", which SQLite does not take; and what the first LIMIT <digits> of its text
\* is.  That is the count of rows of the whole; or "nothing": there is none; or "astray": it is a
\* subquery's, an offset, the beginning of an expression or in a literal or comment, or there is
\* none and the statement ends in a comment left open, which takes in whatever is appended.
Limits == {"none", "any", "capped", "twice"}
Statement == [select : BOOLEAN, found : {"count", "nothing", "astray"}, rows : Limits]
Statements == {s \in Statement : s.rows # "twice" /\ (s.found = "count" => s.rows # "none")}

\* by: who put it into words; used: ai_narration_used
Answer == [kind : Kinds, version : Versions, question : Words \cup {None},
           sql : Statement \cup {None},
           by : {"model", "template", "nobody"}, used : BOOLEAN]

Idle == [stage |-> "idle", kind |-> "eda", version |-> None, question |-> None,
         sql |-> None, answer |-> None]

\* A question counts stripped and in lower case.
KeyOfQuestion(kind, v, q) == IF q = None THEN <<kind, v>> ELSE <<kind, q>>
Key(kind, v, q) == IF q = None THEN <<kind, v>> ELSE <<kind, v, q>>
Entries == {Key(k, v, None) : k \in {"insights", "eda"}, v \in Versions}
          \cup {Key("query", v, q) : v \in Versions, q \in Words}

TypeOK ==
    /\ DOMAIN kept = Entries /\ \A k \in Entries : kept[k] \in Answer \cup {None}
    /\ \A r \in Readers :
         /\ reader[r].stage \in {"idle", "look", "compute", "ask", "run", "phrase", "store",
                                 "answered", "failed"}
         /\ reader[r].version \in Versions \cup {None}
         /\ reader[r].question \in Words \cup {None}
         /\ reader[r].answer \in Answer \cup {None}
    /\ asks \in 0..MaxAsks

---------------------------------------------------------------------------
\* _enforce_limit is a search in the text.  The number it finds is lowered to the row limit, which
\* limits the whole if the number is its count, and else may change what an expression comes to;
\* where it finds none it appends a LIMIT, even after one that is not written in digits.
Limited(s) ==
    CASE s.found = "count" -> {[s EXCEPT !.rows = "capped"]}
      [] s.found = "nothing" -> {[s EXCEPT !.rows = IF @ = "none" THEN "capped" ELSE "twice"]}
      [] s.found = "astray" -> IF s.rows = "none" THEN {s}
                               ELSE {[s EXCEPT !.rows = n] : n \in {"any", "capped"}}

KeyOf(r) == Key(reader[r].kind, reader[r].version, reader[r].question)

\* What a request answers with before anything is put into words or run.
Blank(r) == [kind |-> reader[r].kind, version |-> reader[r].version,
             question |-> reader[r].question, sql |-> None, by |-> "nobody", used |-> FALSE]
Go(r, stage) == reader' = [reader EXCEPT ![r].stage = stage]
With(r, stage, answer) == reader' = [reader EXCEPT ![r].stage = stage, ![r].answer = answer]

\* An insights or profile request may ask for a refresh, which reads past the cache.
Ask(r, kind, v, q, refresh) ==
    /\ reader[r].stage = "idle" /\ asks < MaxAsks
    /\ (kind = "query") <=> (q # None)
    /\ refresh => kind \in {"insights", "eda"}
    /\ reader' = [reader EXCEPT ![r] =
                    [Idle EXCEPT !.stage = IF refresh \/ kind = "summary" THEN "compute" ELSE "look",
                                 !.kind = kind, !.version = v, !.question = q]]
    /\ asks' = asks + 1
    /\ UNCHANGED kept

\* get_json: a miss, and Redis being unreachable, both mean to compute.
Look(r) ==
    /\ reader[r].stage = "look"
    /\ \/ kept[KeyOf(r)] # None /\ With(r, "answered", kept[KeyOf(r)])
       \/ Go(r, "compute")
    /\ UNCHANGED <<kept, asks>>

Computing(r, kind) == reader[r].stage = "compute" /\ reader[r].kind = kind
HasFile(r) == reader[r].version \notin Tables

\* 400 for a version without a file.
NoFile(r) ==
    /\ reader[r].stage = "compute" /\ ~HasFile(r)
    /\ Go(r, "failed")
    /\ UNCHANGED <<kept, asks>>

ComputeProfile(r) ==
    /\ Computing(r, "eda") /\ HasFile(r)
    /\ With(r, "store", Blank(r))
    /\ UNCHANGED <<kept, asks>>

\* Nothing notable: nothing to put into words.
ComputeInsights(r) ==
    /\ Computing(r, "insights") /\ HasFile(r)
    /\ IF reader[r].version \in Quiet THEN With(r, "store", Blank(r)) ELSE Go(r, "phrase")
    /\ UNCHANGED <<kept, asks>>

ComputeSummary(r) ==
    /\ Computing(r, "summary") /\ HasFile(r)
    /\ Go(r, "phrase")
    /\ UNCHANGED <<kept, asks>>

ComputeQuery(r) ==
    /\ Computing(r, "query") /\ HasFile(r)
    /\ Go(r, "ask")
    /\ UNCHANGED <<kept, asks>>

---------------------------------------------------------------------------
(* ask_question *)

\* generate_sql: no key or an unusable reply is 502, an exception of the client 500.
GenerateFails(r) ==
    /\ reader[r].stage = "ask"
    /\ Go(r, "failed")
    /\ UNCHANGED <<kept, asks>>

\* The model says that it cannot: answered, and not kept.
GenerateNothing(r) ==
    /\ reader[r].stage = "ask"
    /\ With(r, "answered", Blank(r))
    /\ UNCHANGED <<kept, asks>>

\* validate_and_limit: 400 for what is not a single SELECT.
Generate(r, s) ==
    /\ reader[r].stage = "ask"
    /\ \/ /\ s.select
          /\ \E sql \in Limited(s) :
               reader' = [reader EXCEPT ![r].stage = "run", ![r].sql = sql]
       \/ ~s.select /\ Go(r, "failed")
    /\ UNCHANGED <<kept, asks>>

RunQuery(r) ==
    /\ reader[r].stage = "run"
    /\ \/ Go(r, "failed")               \* QueryExecutionError: 400
       \/ /\ reader[r].sql.rows # "twice"
          /\ With(r, "store", [Blank(r) EXCEPT !.sql = reader[r].sql])
    /\ UNCHANGED <<kept, asks>>

---------------------------------------------------------------------------
(* narrate_insights and the other narrators; whatever fails with NarrationError - no key, no JSON,
   too few sentences, a missing key - is told by a template. *)

Phrasing(r, kinds) == reader[r].stage = "phrase" /\ reader[r].kind \in kinds
Phrased(r, stage, by) ==
    /\ With(r, stage, [Blank(r) EXCEPT !.by = by, !.used = (by = "model")])
    /\ UNCHANGED <<kept, asks>>

\* As many sentences as insights.
NarrateInsights(r) == Phrasing(r, {"insights"}) /\ Phrased(r, "store", "model")
FallBackInsights(r) == Phrasing(r, {"insights"}) /\ Phrased(r, "store", "template")

\* An object with every key that was asked for; answered with the row it is about, and not kept.
NarrateSummary(r) == Phrasing(r, {"summary"}) /\ Phrased(r, "answered", "model")
FallBackSummary(r) == Phrasing(r, {"summary"}) /\ Phrased(r, "answered", "template")

\* complete passes the client's own exceptions on, and nobody catches them: 500.
ClientFails(r) ==
    /\ Phrasing(r, Kinds)
    /\ Go(r, "failed")
    /\ UNCHANGED <<kept, asks>>

---------------------------------------------------------------------------
\* set_json: what Redis does not take is answered all the same.
Store(r) ==
    /\ reader[r].stage = "store"
    /\ \/ kept' = [kept EXCEPT ![KeyOf(r)] = reader[r].answer]
       \/ UNCHANGED kept
    /\ Go(r, "answered")
    /\ UNCHANGED asks

\* The response is sent, or the process dies.
Finish(r) ==
    /\ reader[r].stage # "idle"
    /\ reader' = [reader EXCEPT ![r] = Idle]
    /\ UNCHANGED <<kept, asks>>

\* The time to live has passed, or Redis has evicted or lost the key.
Forget(k) ==
    /\ kept[k] # None
    /\ kept' = [kept EXCEPT ![k] = None]
    /\ UNCHANGED <<reader, asks>>

Init ==
    /\ kept = [k \in Entries |-> None]
    /\ reader = [r \in Readers |-> Idle]
    /\ asks = 0

Next ==
    \/ \E r \in Readers :
         \/ \E kind \in Kinds, v \in Versions, q \in Words \cup {None}, refresh \in BOOLEAN :
              Ask(r, kind, v, q, refresh)
         \/ Look(r) \/ NoFile(r) \/ ComputeProfile(r) \/ ComputeInsights(r)
         \/ ComputeSummary(r) \/ ComputeQuery(r)
         \/ GenerateFails(r) \/ GenerateNothing(r) \/ RunQuery(r)
         \/ \E s \in Statements : Generate(r, s)
         \/ NarrateInsights(r) \/ FallBackInsights(r) \/ NarrateSummary(r)
         \/ FallBackSummary(r) \/ ClientFails(r)
         \/ Store(r) \/ Finish(r)
    \/ \E k \in Entries : Forget(k)

Spec == Init /\ [][Next]_vars

---------------------------------------------------------------------------
(* Properties *)

\* Whoever computed it, and whatever the language model replied: an answer given, or kept for
\* the next reader, is of the version and the question that were asked; the rows of a statement's
\* result are limited unless the guard's search in the text goes astray; what is said to be the
\* model's wording is, and an insight is always put into words (app/api/query.py,
\* app/api/insights.py, app/services/sql_guard.py).
Fits(a, kind, v, q) ==
    /\ a.kind = kind /\ a.version = v /\ a.question = q
    /\ a.sql # None => a.sql.rows = "capped" \/ a.sql.found = "astray"
    /\ a.used <=> a.by = "model"
    /\ kind = "insights" => (a.by = "nobody" <=> v \in Quiet)
AnswersFit ==
    /\ \A r \in Readers : reader[r].stage = "answered" =>
         Fits(reader[r].answer, reader[r].kind, reader[r].version, reader[r].question)
    /\ \A kind \in {"insights", "eda"}, v \in Versions :
         LET a == kept[Key(kind, v, None)] IN a # None => Fits(a, kind, v, None)
    /\ \A v \in Versions, q \in Words :
         LET a == kept[Key("query", v, q)] IN a # None => Fits(a, "query", v, q) /\ a.sql # None
===========================================================================
