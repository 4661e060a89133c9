---------------------------- MODULE PassageProofs -----------------------------
(*****************************************************************************)
(* What a request passes on its way in: the rate limiter, the row of the     *)
(* user who asks, and the connection whose settings confine its queries.     *)
(*****************************************************************************)
EXTENDS Backend, Sequences, FiniteSetTheorems, TLAPS

(*****************************************************************************)
(* The rate limiter (RateLimit)                                              *)
(*                                                                           *)
(* A window lets its limit through and refuses only beyond it, for every     *)
(* limit, window length and number of requests at once.                      *)
(*                                                                           *)
(* The invariant is the books of one window: those it has let through and    *)
(* those it is going to are as many as its counter says, up to the limit,    *)
(* as long as the window lasts - for the counter's key cannot expire         *)
(* before that, whenever its EXPIRE came - and no more or fewer later.       *)
(*****************************************************************************)

\* A request q that has been counted in the window w, and will be let through, or refused.
CountedIn(q, w) == q.pc \in {"expire", "compare"} /\ q.window = w
Takes(q, w) == CountedIn(q, w) /\ q.count <= Max
Exceeds(q, w) == CountedIn(q, w) /\ q.count > Max
Takers(s, w) == {r \in Requests : Takes(s[r], w)}

\* The books of the window w at the window n, where its counter says c, s are the requests'
\* steps, p have passed, and f are the windows that have refused one.
Balanced(w, n, c, s, p, f) ==
    LET taken == p + Cardinality(Takers(s, w)) IN
    /\ taken <= Max
    /\ n <= w => taken = IF c <= Max THEN c ELSE Max
    /\ w \in f \/ (\E r \in Requests : Exceeds(s[r], w)) => taken = Max

\* A request is counted under its own window's key, and its window has begun.
Keyed == \A r \in Requests : step[r].pc # "idle" => /\ step[r].key = step[r].window
                                                    /\ step[r].window <= R!WindowAt(now)

\* Nothing has happened in a window that is still to come.
Future == \A w \in R!Windows : w > R!WindowAt(now) => passed[w] = 0 /\ counter[w].count = 0

\* A counter outlives its window.
Outlives == \A w \in R!Windows : R!WindowAt(counter[w].expires) > w

Outage == ~reachable => R!Current \subseteq disturbed

Books == \A w \in R!Windows \ disturbed :
             Balanced(w, R!WindowAt(now), counter[w].count, step, passed[w], refused)

RateInv == R!TypeOK /\ Keyed /\ Future /\ Outlives /\ Outage /\ Books

Step == [pc : {"idle", "incr", "expire", "compare"}, window : R!Windows, key : R!Windows,
         count : 0..(Max + 1)]

---------------------------------------------------------------------------
(* The clock's windows. *)

LEMMA WindowsInOrder ==
    /\ \A t \in Nat : R!WindowAt(t) \in Nat
    /\ \A t, u \in Nat : t <= u => R!WindowAt(t) <= R!WindowAt(u)
    /\ \A t \in Nat : R!WindowAt(t + Length) = R!WindowAt(t) + 1
  <1>1. ASSUME NEW t \in Nat PROVE t \div Length \in Nat
    BY LimitAssumption, Z3
  <1>2. ASSUME NEW t \in Nat, NEW u \in Nat, t <= u PROVE t \div Length <= u \div Length
    BY <1>2, LimitAssumption, Z3
  <1>3. ASSUME NEW t \in Nat PROVE (t + Length) \div Length = t \div Length + 1
    BY LimitAssumption, Z3
  <1> QED BY <1>1, <1>2, <1>3 DEF R!WindowAt

\* The clock is in one of the windows, each of which ends before a counter that never expires does.
LEMMA ClockInWindows ==
    /\ \A t \in 0..EndOfTime : R!WindowAt(t) \in R!Windows
    /\ \A w \in R!Windows : w \in Nat /\ R!WindowAt(R!Never) > w
    /\ R!Never \in Nat
  <1>1. R!WindowAt(EndOfTime) \in Nat /\ \A t \in 0..EndOfTime : R!WindowAt(t) <= R!WindowAt(EndOfTime)
    BY WindowsInOrder, LimitAssumption
  <1>2. R!Never = (EndOfTime + 1) + Length /\ EndOfTime + 1 \in Nat /\ R!Never \in Nat
    BY LimitAssumption DEF R!Never
  <1>3. /\ R!WindowAt(R!Never) = R!WindowAt(EndOfTime + 1) + 1
        /\ R!WindowAt(EndOfTime) <= R!WindowAt(EndOfTime + 1)
        /\ R!WindowAt(EndOfTime + 1) \in Nat
    BY <1>2, WindowsInOrder, LimitAssumption
  <1> QED BY <1>1, <1>2, <1>3, WindowsInOrder DEF R!Windows

---------------------------------------------------------------------------
(* A window's takers. *)

LEMMA TakersFinite ==
    ASSUME NEW s, NEW w PROVE IsFiniteSet(Takers(s, w)) /\ Cardinality(Takers(s, w)) \in Nat
  BY LimitAssumption, FS_Subset, FS_CardinalityType DEF Takers

\* The books of a window that a request's step does not concern.
LEMMA BooksKept ==
    ASSUME step \in [Requests -> Step], NEW r \in Requests, NEW q,
           step' = [step EXCEPT ![r] = q], NEW w, NEW n, NEW c, NEW p, NEW f, NEW g,
           Balanced(w, n, c, step, p, f),
           Takes(q, w) <=> Takes(step[r], w), Exceeds(q, w) => Exceeds(step[r], w),
           w \in g => w \in f
    PROVE  Balanced(w, n, c, step', p, g)
  <1>1. /\ step'[r] = q
        /\ \A t \in Requests : t # r => step'[t] = step[t]
    OBVIOUS
  <1>2. Takers(step', w) = Takers(step, w)
    BY <1>1 DEF Takers
  <1>3. (\E t \in Requests : Exceeds(step'[t], w)) => \E t \in Requests : Exceeds(step[t], w)
    BY <1>1
  <1> QED BY <1>2, <1>3 DEF Balanced

\* A request becomes a taker, or is one no more.
LEMMA TakerMore ==
    ASSUME step \in [Requests -> Step], NEW r \in Requests, NEW q,
           step' = [step EXCEPT ![r] = q], NEW w, Takes(q, w), ~Takes(step[r], w)
    PROVE  Cardinality(Takers(step', w)) = Cardinality(Takers(step, w)) + 1
  <1>1. Takers(step', w) = Takers(step, w) \cup {r} /\ r \notin Takers(step, w)
    BY DEF Takers
  <1> QED BY <1>1, TakersFinite, FS_AddElement

LEMMA TakerLess ==
    ASSUME step \in [Requests -> Step], NEW r \in Requests, NEW q,
           step' = [step EXCEPT ![r] = q], NEW w, ~Takes(q, w), Takes(step[r], w)
    PROVE  Cardinality(Takers(step', w)) = Cardinality(Takers(step, w)) - 1
  <1>1. Takers(step', w) = Takers(step, w) \ {r} /\ r \in Takers(step, w)
    BY DEF Takers
  <1> QED BY <1>1, TakersFinite, FS_RemoveElement

\* What a step of the whole does to the limiter is a step of the limiter.
LEMMA LimitSteps ==
    ASSUME [NextAll]_all, subject' = "rate limit"
    PROVE  subject = "rate limit" /\ [R!Next]_(R!vars)
  <1>1. CASE NextAll
    BY <1>1 DEF NextAll
  <1>2. CASE UNCHANGED all
    BY <1>2 DEF all, limitVars, R!vars
  <1> QED BY <1>1, <1>2

LEMMA LimitStart == R!Init => RateInv
  <1> SUFFICES ASSUME R!Init PROVE RateInv
    OBVIOUS
  <1>1. /\ now = 0 /\ reachable = TRUE /\ refused = {} /\ disturbed = {}
        /\ counter = [w \in R!Windows |-> R!NoKey]
        /\ step = [r \in Requests |-> R!Start] /\ passed = [w \in R!Windows |-> 0]
    BY DEF R!Init
  <1>2. 0 \in R!Windows /\ R!WindowAt(0) \in Nat
    BY WindowsInOrder, LimitAssumption DEF R!Windows
  <1>3. R!TypeOK
    BY <1>1, <1>2, ClockInWindows, LimitAssumption DEF R!TypeOK, R!NoKey, R!Start
  <1>4. Keyed /\ Future /\ Outlives /\ Outage
    BY <1>1, ClockInWindows DEF Keyed, Future, Outlives, Outage, R!NoKey, R!Start
  <1>5. ASSUME NEW w \in R!Windows
        PROVE  Balanced(w, R!WindowAt(now), counter[w].count, step, passed[w], refused)
    <2>1. /\ Takers(step, w) = {} /\ passed[w] = 0 /\ counter[w].count = 0
          /\ ~\E r \in Requests : Exceeds(step[r], w)
      BY <1>1 DEF Takers, Takes, Exceeds, CountedIn, R!Start, R!NoKey
    <2> QED BY <1>1, <2>1, FS_EmptySet, LimitAssumption DEF Balanced
  <1> QED BY <1>3, <1>4, <1>5 DEF RateInv, Books

---------------------------------------------------------------------------
(* The steps of one request. *)

\* What a step of the request r, which becomes q, leaves alone or keeps in the same way.
LEMMA LimitTurn ==
    ASSUME RateInv, NEW r \in Requests, NEW q \in Step, step' = [step EXCEPT ![r] = q],
           UNCHANGED <<now, reachable>>,
           q.pc # "idle" => q.key = q.window /\ q.window <= R!WindowAt(now),
           q.pc # "idle" =>
             q.window = R!WindowAt(now) \/ (step[r].pc # "idle" /\ q.window = step[r].window),
           disturbed \subseteq disturbed', disturbed' \subseteq R!Windows
    PROVE  step' \in [Requests -> Step] /\ Keyed' /\ Outage'
  <1>1. step \in [Requests -> Step]
    BY DEF RateInv, R!TypeOK, Step
  <1>2. /\ step'[r] = q
        /\ \A t \in Requests : t # r => step'[t] = step[t]
        /\ step' \in [Requests -> Step]
    BY <1>1
  <1>3. Keyed'
    BY <1>2 DEF RateInv, Keyed
  <1>4. Outage'
    <2> SUFFICES ASSUME ~reachable PROVE R!Current' \subseteq disturbed'
      BY DEF Outage
    <2>1. R!Current \subseteq disturbed
      BY DEF RateInv, Outage
    <2>2. R!Current' \subseteq R!Current
      BY <1>2 DEF R!Current
    <2> QED BY <2>1, <2>2
  <1> QED BY <1>2, <1>3, <1>4

LEMMA LimitArrive ==
    ASSUME RateInv, NEW r \in Requests, R!Arrive(r)
    PROVE  RateInv'
  <1> DEFINE q == [pc |-> "incr", window |-> R!WindowAt(now), key |-> R!KeyWindow(now), count |-> 0]
  <1>1. /\ step[r].pc = "idle" /\ step' = [step EXCEPT ![r] = q]
        /\ UNCHANGED <<now, counter, reachable, passed, refused, disturbed>>
    BY DEF R!Arrive
  <1>2. R!TypeOK /\ step \in [Requests -> Step]
    BY DEF RateInv, R!TypeOK, Step
  <1>3. /\ R!KeyWindow(now) = R!WindowAt(now)
        /\ R!WindowAt(now) \in R!Windows /\ R!WindowAt(now) \in Nat
    <2>1. R!KeyWindow(now) = R!WindowAt(now)
      BY DEF R!KeyWindow, R!WindowAt
    <2>2. R!WindowAt(now) \in R!Windows /\ R!WindowAt(now) \in Nat
      BY <1>2, ClockInWindows DEF R!TypeOK
    <2> QED BY <2>1, <2>2
  <1>4. /\ q \in Step /\ q.key = q.window /\ q.window = R!WindowAt(now) /\ q.pc = "incr"
        /\ q.window <= R!WindowAt(now)
    BY <1>3, LimitAssumption DEF Step
  <1>5. disturbed' \subseteq R!Windows /\ disturbed \subseteq disturbed'
    BY <1>1, <1>2 DEF R!TypeOK
  <1> HIDE DEF q
  <1>10. step' \in [Requests -> Step] /\ Keyed' /\ Outage'
    BY <1>1, <1>4, <1>5, LimitTurn
  <1>6. R!TypeOK'
    BY <1>1, <1>2, <1>10 DEF R!TypeOK, Step
  <1>7. Future' /\ Outlives'
    BY <1>1 DEF RateInv, Future, Outlives
  <1>8. ASSUME NEW w \in R!Windows \ disturbed
        PROVE  Balanced(w, R!WindowAt(now), counter[w].count, step', passed[w], refused)
    <2>1. Balanced(w, R!WindowAt(now), counter[w].count, step, passed[w], refused)
      BY DEF RateInv, Books
    <2>2. ~Takes(q, w) /\ ~Takes(step[r], w) /\ ~Exceeds(q, w)
      BY <1>1, <1>4 DEF Takes, Exceeds, CountedIn
    <2> QED BY <1>1, <1>2, <2>1, <2>2, BooksKept
  <1> QED BY <1>1, <1>6, <1>7, <1>8, <1>10 DEF RateInv, Books

LEMMA LimitIncr ==
    ASSUME RateInv, NEW r \in Requests, R!Incr(r)
    PROVE  RateInv'
  <1> DEFINE k == step[r].key
             n == R!Capped(counter[k].count + 1)
             q == [step[r] EXCEPT !.count = n, !.pc = IF n = 1 THEN "expire" ELSE "compare"]
  <1>1. /\ step[r].pc = "incr" /\ reachable
        /\ counter' = [counter EXCEPT ![k].count = n]
        /\ step' = [step EXCEPT ![r].count = n, ![r].pc = IF n = 1 THEN "expire" ELSE "compare"]
        /\ disturbed' = IF R!WindowAt(now) = step[r].window THEN disturbed
                        ELSE disturbed \cup {step[r].window}
        /\ UNCHANGED <<now, reachable, passed, refused>>
    BY DEF R!Incr
  <1>2. R!TypeOK /\ step \in [Requests -> Step] /\ step[r] \in Step
        /\ counter \in [R!Windows -> [count : 0..(Max + 1), expires : 0..R!Never]]
    BY DEF RateInv, R!TypeOK, Step
  <1>3. /\ k \in R!Windows /\ step[r].window = k /\ k <= R!WindowAt(now)
        /\ counter[k].count \in 0..(Max + 1)
        /\ counter[k] \in [count : 0..(Max + 1), expires : 0..R!Never]
    BY <1>1, <1>2 DEF RateInv, Keyed, Step
  <1>4. /\ n \in 1..(Max + 1)
        /\ n = IF counter[k].count <= Max THEN counter[k].count + 1 ELSE Max + 1
    BY <1>3, LimitAssumption DEF R!Capped
  <1> HIDE DEF n
  <1>5. q \in Step /\ q.key = k /\ q.window = k /\ q.count = n /\ q.pc \in {"expire", "compare"}
    <2>1. n \in 0..(Max + 1)
      BY <1>4, LimitAssumption
    <2> QED BY <1>2, <1>3, <2>1 DEF Step
  <1>6. step' = [step EXCEPT ![r] = q]
    BY <1>1, <1>2
  <1> HIDE DEF q, k
  <1>7. disturbed \subseteq disturbed' /\ disturbed' \subseteq R!Windows
    BY <1>1, <1>2, <1>3 DEF R!TypeOK
  <1>8. step' \in [Requests -> Step] /\ Keyed' /\ Outage'
    <2>1. q.window <= R!WindowAt(now) /\ step[r].pc # "idle" /\ q.window = step[r].window
      BY <1>1, <1>3, <1>5
    <2> QED BY <1>1, <1>5, <1>6, <1>7, <2>1, LimitTurn
  <1>9. /\ counter' \in [R!Windows -> [count : 0..(Max + 1), expires : 0..R!Never]]
        /\ counter'[k].count = n
        /\ \A w \in R!Windows : /\ counter'[w].expires = counter[w].expires
                                /\ w # k => counter'[w] = counter[w]
    BY <1>1, <1>2, <1>3, <1>4
  <1>10. R!TypeOK'
    BY <1>1, <1>2, <1>7, <1>8, <1>9 DEF R!TypeOK, Step
  <1>11. R!WindowAt(now) \in Nat /\ \A w \in R!Windows : w \in Nat
    BY <1>2, ClockInWindows, LimitAssumption DEF R!TypeOK
  <1>12. Future' /\ Outlives'
    BY <1>1, <1>3, <1>9, <1>11 DEF RateInv, Future, Outlives
  <1>13. ASSUME NEW w \in R!Windows \ disturbed'
         PROVE  Balanced(w, R!WindowAt(now), counter'[w].count, step', passed[w], refused)
    <2>1. Balanced(w, R!WindowAt(now), counter[w].count, step, passed[w], refused)
      BY <1>7 DEF RateInv, Books
    <2>2. CASE w # k
      <3>1. ~Takes(q, w) /\ ~Takes(step[r], w) /\ ~Exceeds(q, w)
        BY <1>3, <1>5, <2>2 DEF Takes, Exceeds, CountedIn
      <3> QED BY <1>2, <1>6, <1>9, <2>1, <2>2, <3>1, BooksKept
    <2>3. CASE w = k
      <3>1. R!WindowAt(now) = w
        BY <1>1, <1>3, <2>3
      <3> DEFINE c == counter[w].count
                 taken == passed[w] + Cardinality(Takers(step, w))
      <3>2. taken = IF c <= Max THEN c ELSE Max
        BY <1>11, <2>1, <3>1 DEF Balanced
      <3>3. c \in 0..(Max + 1) /\ passed[w] \in 0..(Max + 1)
        BY <1>2, <1>3, <2>3 DEF R!TypeOK
      <3>4. ~Takes(step[r], w)
        BY <1>1 DEF Takes, CountedIn
      <3>5. CASE n <= Max
        <4>1. Takes(q, w)
          BY <1>5, <2>3, <3>5 DEF Takes, CountedIn
        <4>2. Cardinality(Takers(step', w)) = Cardinality(Takers(step, w)) + 1
          BY <1>2, <1>6, <3>4, <4>1, TakerMore
        <4>3. c + 1 = n /\ taken = c /\ taken < Max
          BY <1>4, <2>3, <3>2, <3>3, <3>5, LimitAssumption
        <4>4. passed[w] + Cardinality(Takers(step', w)) = n
          BY <3>3, <4>2, <4>3, TakersFinite
        <4>5. /\ ~Exceeds(q, w)
              /\ \A t \in Requests : t # r => step'[t] = step[t]
              /\ step'[r] = q
          BY <1>2, <1>4, <1>5, <1>6, <3>5, LimitAssumption DEF Exceeds, CountedIn
        <4>6. ~(w \in refused \/ \E t \in Requests : Exceeds(step'[t], w))
          BY <2>1, <4>3, <4>5, LimitAssumption DEF Balanced
        <4> QED BY <1>9, <2>3, <3>5, <4>4, <4>6 DEF Balanced
      <3>6. CASE n > Max
        <4>1. ~Takes(q, w)
          BY <1>4, <1>5, <2>3, <3>6, LimitAssumption DEF Takes, CountedIn
        <4>2. Takers(step', w) = Takers(step, w)
          BY <1>2, <1>6, <3>4, <4>1 DEF Takers
        <4>3. taken = Max
          BY <1>4, <2>3, <3>2, <3>3, <3>6, LimitAssumption
        <4> QED BY <1>4, <1>9, <2>3, <3>6, <4>2, <4>3, LimitAssumption DEF Balanced
      <3> QED BY <1>4, <3>5, <3>6, LimitAssumption
    <2> QED BY <2>2, <2>3
  <1> QED BY <1>1, <1>8, <1>10, <1>12, <1>13 DEF RateInv, Books

LEMMA LimitExpire ==
    ASSUME RateInv, NEW r \in Requests, R!Expire(r)
    PROVE  RateInv'
  <1> DEFINE k == step[r].key
             q == [step[r] EXCEPT !.pc = "compare"]
  <1>1. /\ step[r].pc = "expire"
        /\ counter' = IF counter[k].count = 0 THEN counter
                      ELSE [counter EXCEPT ![k].expires = now + Length]
        /\ step' = [step EXCEPT ![r].pc = "compare"]
        /\ UNCHANGED <<now, reachable, passed, refused, disturbed>>
    BY DEF R!Expire
  <1>2. /\ R!TypeOK /\ step \in [Requests -> Step] /\ step[r] \in Step
        /\ counter \in [R!Windows -> [count : 0..(Max + 1), expires : 0..R!Never]]
        /\ now \in 0..EndOfTime /\ disturbed \subseteq R!Windows
    BY DEF RateInv, R!TypeOK, Step
  <1>3. k \in R!Windows /\ step[r].window = k /\ k <= R!WindowAt(now) /\ k \in Nat
    BY <1>1, <1>2, ClockInWindows DEF RateInv, Keyed, Step
  <1>4. /\ q \in Step /\ q.key = q.window /\ q.window = step[r].window /\ q.pc = "compare"
        /\ q.window <= R!WindowAt(now) /\ q.count = step[r].count
    BY <1>2, <1>3 DEF Step
  <1>5. step' = [step EXCEPT ![r] = q] /\ disturbed' \subseteq R!Windows
    BY <1>1, <1>2
  <1> HIDE DEF q, k
  <1>6. step' \in [Requests -> Step] /\ Keyed' /\ Outage'
    BY <1>1, <1>4, <1>5, LimitTurn
  <1>7. /\ now + Length \in 0..R!Never /\ R!WindowAt(now + Length) = R!WindowAt(now) + 1
        /\ R!WindowAt(now) \in Nat
    BY <1>2, WindowsInOrder, LimitAssumption DEF R!Never
  <1>8. /\ counter' \in [R!Windows -> [count : 0..(Max + 1), expires : 0..R!Never]]
        /\ \A w \in R!Windows : counter'[w].count = counter[w].count
        /\ \A w \in R!Windows : \/ counter'[w].expires = counter[w].expires
                                \/ w = k /\ counter'[w].expires = now + Length
    <2>1. CASE counter[k].count = 0
      BY <1>1, <1>2, <2>1
    <2>2. CASE counter[k].count # 0
      <3> DEFINE g == [counter[k] EXCEPT !.expires = now + Length]
      <3>1. g \in [count : 0..(Max + 1), expires : 0..R!Never]
        BY <1>2, <1>3, <1>7
      <3>2. counter' = [counter EXCEPT ![k] = g]
        BY <1>1, <1>2, <2>2
      <3>3. g.count = counter[k].count /\ g.expires = now + Length
        BY <1>2, <1>3
      <3> HIDE DEF g
      <3> QED BY <1>2, <1>3, <3>1, <3>2, <3>3
    <2> QED BY <2>1, <2>2
  <1>9. R!TypeOK'
    BY <1>1, <1>2, <1>6, <1>8 DEF R!TypeOK, Step
  <1>10. Future' /\ Outlives'
    BY <1>1, <1>3, <1>7, <1>8 DEF RateInv, Future, Outlives
  <1>11. ASSUME NEW w \in R!Windows \ disturbed
         PROVE  Balanced(w, R!WindowAt(now), counter[w].count, step', passed[w], refused)
    <2>1. Balanced(w, R!WindowAt(now), counter[w].count, step, passed[w], refused)
      BY DEF RateInv, Books
    <2>2. (Takes(q, w) <=> Takes(step[r], w)) /\ (Exceeds(q, w) <=> Exceeds(step[r], w))
      BY <1>1, <1>4 DEF Takes, Exceeds, CountedIn
    <2> QED BY <1>2, <1>5, <2>1, <2>2, BooksKept
  <1> QED BY <1>1, <1>6, <1>8, <1>9, <1>10, <1>11 DEF RateInv, Books

\* A request that ends in any way: it is counted nowhere any more.
LEMMA LimitEnd ==
    ASSUME RateInv, NEW r \in Requests, step[r].pc # "idle", step' = [step EXCEPT ![r] = R!Start],
           UNCHANGED <<now, counter, reachable>>,
           disturbed \subseteq disturbed', disturbed' \subseteq R!Windows,
           refused' \subseteq R!Windows, passed' \in [R!Windows -> 0..(Max + 1)],
           \A w \in R!Windows :
             w # step[r].window => passed'[w] = passed[w] /\ (w \in refused' => w \in refused),
           step[r].window \notin disturbed' =>
             Balanced(step[r].window, R!WindowAt(now), counter[step[r].window].count, step',
                      passed'[step[r].window], refused')
    PROVE  RateInv'
  <1>1. R!TypeOK /\ step \in [Requests -> Step]
    BY DEF RateInv, R!TypeOK, Step
  <1>2. R!Start \in Step /\ R!Start.pc = "idle"
    BY LimitAssumption, ClockInWindows, <1>1 DEF R!Start, Step, R!Windows, R!TypeOK
  <1>3. step' \in [Requests -> Step] /\ Keyed' /\ Outage'
    BY <1>2, LimitTurn
  <1>4. R!TypeOK'
    BY <1>1, <1>3 DEF R!TypeOK, Step
  <1>5. step[r].window \in R!Windows /\ step[r].window <= R!WindowAt(now) /\ R!WindowAt(now) \in Nat
        /\ \A w \in R!Windows : w \in Nat
    BY <1>1, ClockInWindows DEF RateInv, Keyed, Step, R!TypeOK
  <1>6. Future' /\ Outlives'
    BY <1>5 DEF RateInv, Future, Outlives
  <1>7. ASSUME NEW w \in R!Windows \ disturbed'
        PROVE  Balanced(w, R!WindowAt(now), counter[w].count, step', passed'[w], refused')
    <2>1. CASE w = step[r].window
      BY <2>1
    <2>2. CASE w # step[r].window
      <3>1. Balanced(w, R!WindowAt(now), counter[w].count, step, passed[w], refused)
        BY DEF RateInv, Books
      <3>2. ~Takes(R!Start, w) /\ ~Takes(step[r], w) /\ ~Exceeds(R!Start, w)
        BY <1>2, <2>2 DEF Takes, Exceeds, CountedIn
      <3>3. passed'[w] = passed[w] /\ (w \in refused' => w \in refused)
        BY <2>2
      <3> QED BY <1>1, <3>1, <3>2, <3>3, BooksKept
    <2> QED BY <2>1, <2>2
  <1> QED BY <1>3, <1>4, <1>6, <1>7 DEF RateInv, Books

LEMMA LimitCompare ==
    ASSUME RateInv, NEW r \in Requests, R!Compare(r)
    PROVE  RateInv'
  <1> DEFINE w == step[r].window
             c == counter[w].count
             taken == Cardinality(Takers(step, w))
  <1>1. /\ step[r].pc = "compare" /\ UNCHANGED <<now, counter, reachable, disturbed>>
        /\ step' = [step EXCEPT ![r] = R!Start]
    BY DEF R!Compare, R!LetThrough
  <1>2. /\ R!TypeOK /\ step \in [Requests -> Step] /\ step[r] \in Step
        /\ passed \in [R!Windows -> 0..(Max + 1)] /\ refused \subseteq R!Windows
        /\ disturbed' \subseteq R!Windows
    BY <1>1 DEF RateInv, R!TypeOK, Step
  <1>3. w \in R!Windows /\ passed[w] \in 0..(Max + 1) /\ taken \in Nat
    BY <1>2, TakersFinite DEF Step
  <1>4. w \notin disturbed => Balanced(w, R!WindowAt(now), c, step, passed[w], refused)
    BY <1>3 DEF RateInv, Books
  <1>5. ~Takes(R!Start, w) /\ ~Exceeds(R!Start, w)
    BY DEF Takes, Exceeds, CountedIn, R!Start
  <1>6. CASE step[r].count <= Max
    <2>1. passed' = [passed EXCEPT ![w] = R!Capped(passed[w] + 1)] /\ refused' = refused
      BY <1>6 DEF R!Compare, R!LetThrough
    <2>2. R!Capped(passed[w] + 1) \in 0..(Max + 1)
      BY <1>3, LimitAssumption DEF R!Capped
    <2>3. passed' \in [R!Windows -> 0..(Max + 1)] /\ refused' \subseteq R!Windows
      BY <1>2, <2>1, <2>2
    <2>4. \A v \in R!Windows : v # w => passed'[v] = passed[v] /\ (v \in refused' => v \in refused)
      BY <1>2, <2>1
    <2>5. ASSUME w \notin disturbed
          PROVE  Balanced(w, R!WindowAt(now), c, step', passed'[w], refused')
      <3>1. Takes(step[r], w)
        BY <1>1, <1>6 DEF Takes, CountedIn
      <3>2. Cardinality(Takers(step', w)) = taken - 1
        BY <1>1, <1>2, <1>5, <3>1, TakerLess
      <3>3. Cardinality(Takers(step', w)) \in Nat /\ passed[w] + taken <= Max
        BY <1>4, <2>5, TakersFinite DEF Balanced
      <3>4. passed'[w] = passed[w] + 1
        BY <1>2, <1>3, <2>1, <3>2, <3>3, LimitAssumption DEF R!Capped
      <3>5. passed'[w] + Cardinality(Takers(step', w)) = passed[w] + taken
        BY <1>3, <3>2, <3>4
      <3>6. (\E t \in Requests : Exceeds(step'[t], w)) => \E t \in Requests : Exceeds(step[t], w)
        BY <1>1, <1>2, <1>5
      <3> QED BY <1>4, <2>1, <2>5, <3>5, <3>6 DEF Balanced
    <2> QED BY <1>1, <1>2, <2>3, <2>4, <2>5, LimitEnd
  <1>7. CASE ~(step[r].count <= Max)
    <2>1. passed' = passed /\ refused' = refused \cup {w}
      BY <1>7 DEF R!Compare
    <2>2. passed' \in [R!Windows -> 0..(Max + 1)] /\ refused' \subseteq R!Windows
      BY <1>2, <1>3, <2>1
    <2>3. \A v \in R!Windows : v # w => passed'[v] = passed[v] /\ (v \in refused' => v \in refused)
      BY <2>1
    <2>4. ASSUME w \notin disturbed
          PROVE  Balanced(w, R!WindowAt(now), c, step', passed'[w], refused')
      <3>1. ~Takes(step[r], w) /\ Exceeds(step[r], w)
        BY <1>1, <1>2, <1>7, LimitAssumption DEF Takes, Exceeds, CountedIn, Step
      <3>2. Takers(step', w) = Takers(step, w)
        BY <1>1, <1>2, <1>5, <3>1 DEF Takers
      <3>3. passed[w] + taken = Max
        BY <1>4, <2>4, <3>1 DEF Balanced
      <3> QED BY <1>4, <2>1, <2>4, <3>2, <3>3 DEF Balanced
    <2> QED BY <1>1, <1>2, <2>2, <2>3, <2>4, LimitEnd
  <1> QED BY <1>6, <1>7

LEMMA LimitFailOpen ==
    ASSUME RateInv, NEW r \in Requests, R!FailOpen(r)
    PROVE  RateInv'
  <1> DEFINE w == step[r].window
  <1>1. /\ step[r].pc # "idle" /\ ~reachable /\ UNCHANGED <<now, counter, reachable, disturbed, refused>>
        /\ step' = [step EXCEPT ![r] = R!Start]
        /\ passed' = [passed EXCEPT ![w] = R!Capped(passed[w] + 1)]
    BY DEF R!FailOpen, R!LetThrough
  <1>2. /\ step \in [Requests -> Step] /\ step[r] \in Step
        /\ passed \in [R!Windows -> 0..(Max + 1)] /\ refused \subseteq R!Windows
        /\ disturbed' \subseteq R!Windows
    BY <1>1 DEF RateInv, R!TypeOK, Step
  <1>3. w \in R!Windows /\ passed[w] \in 0..(Max + 1)
    BY <1>2 DEF Step
  <1>4. R!Capped(passed[w] + 1) \in 0..(Max + 1)
    BY <1>3, LimitAssumption DEF R!Capped
  <1>5. passed' \in [R!Windows -> 0..(Max + 1)] /\ \A v \in R!Windows : v # w => passed'[v] = passed[v]
    BY <1>1, <1>2, <1>4
  <1>6. w \in disturbed
    BY <1>1 DEF RateInv, Outage, R!Current
  <1> QED BY <1>1, <1>2, <1>5, <1>6, LimitEnd

LEMMA LimitDie ==
    ASSUME RateInv, NEW r \in Requests, R!Die(r)
    PROVE  RateInv'
  <1>1. /\ step[r].pc # "idle" /\ UNCHANGED <<now, counter, reachable, passed, refused>>
        /\ step' = [step EXCEPT ![r] = R!Start]
        /\ disturbed' = disturbed \cup {step[r].window}
    BY DEF R!Die
  <1>2. /\ step[r] \in Step /\ passed' \in [R!Windows -> 0..(Max + 1)]
        /\ refused' \subseteq R!Windows /\ disturbed \subseteq R!Windows
    BY <1>1 DEF RateInv, R!TypeOK, Step
  <1>3. disturbed' \subseteq R!Windows
    BY <1>1, <1>2 DEF Step
  <1> QED BY <1>1, <1>2, <1>3, LimitEnd

---------------------------------------------------------------------------
(* Redis and the clock. *)

\* Books that are kept on while the window lasts, and closed after it.
LEMMA BooksLater ==
    ASSUME NEW w, NEW n, NEW c, NEW s, NEW p, NEW f, NEW m, NEW d,
           Balanced(w, n, c, s, p, f), m <= w => n <= w /\ d = c
    PROVE  Balanced(w, m, d, s, p, f)
  BY DEF Balanced

LEMMA CurrentWindows == RateInv => R!Current \subseteq R!Windows
  BY ClockInWindows DEF RateInv, R!TypeOK, R!Current

LEMMA LimitRedis ==
    ASSUME RateInv, R!LoseRedis \/ R!FindRedis
    PROVE  RateInv'
  <1>1. /\ UNCHANGED <<now, step, passed, refused>> /\ reachable' \in BOOLEAN
        /\ counter' = counter \/ counter' = [w \in R!Windows |-> R!NoKey]
        /\ disturbed' = disturbed \cup R!Current
    BY DEF R!LoseRedis, R!FindRedis
  <1>2. /\ R!TypeOK /\ R!WindowAt(now) \in Nat /\ \A w \in R!Windows : w \in Nat
        /\ R!Current' = R!Current
    BY <1>1, ClockInWindows DEF RateInv, R!TypeOK, R!Current
  <1>3. R!NoKey \in [count : 0..(Max + 1), expires : 0..R!Never] /\ R!NoKey.count = 0
        /\ R!NoKey.expires = R!Never
    BY ClockInWindows, LimitAssumption DEF R!NoKey
  <1>4. R!TypeOK'
    BY <1>1, <1>2, <1>3, CurrentWindows DEF R!TypeOK
  <1>5. Keyed' /\ Outage'
    BY <1>1, <1>2 DEF RateInv, Keyed, Outage
  <1>6. Future' /\ Outlives'
    BY <1>1, <1>3, ClockInWindows DEF RateInv, Future, Outlives
  <1>7. ASSUME NEW w \in R!Windows \ disturbed'
        PROVE  Balanced(w, R!WindowAt(now), counter'[w].count, step, passed[w], refused)
    <2>1. Balanced(w, R!WindowAt(now), counter[w].count, step, passed[w], refused)
      BY <1>1 DEF RateInv, Books
    <2>2. w # R!WindowAt(now)
      BY <1>1 DEF R!Current
    <2>3. R!WindowAt(now) <= w => counter'[w].count = counter[w].count
      BY <1>1, <1>2, <1>3, <2>2 DEF RateInv, Future
    <2> QED BY <2>1, <2>3, BooksLater
  <1> QED BY <1>1, <1>4, <1>5, <1>6, <1>7 DEF RateInv, Books

LEMMA LimitTick ==
    ASSUME RateInv, R!Tick
    PROVE  RateInv'
  <1> DEFINE n == R!WindowAt(now)
             m == R!WindowAt(now')
  <1>1. /\ now < EndOfTime /\ now' = now + 1
        /\ counter' = [w \in R!Windows |-> IF counter[w].expires <= now' THEN R!NoKey ELSE counter[w]]
        /\ disturbed' = IF reachable THEN disturbed ELSE disturbed \cup {m}
        /\ UNCHANGED <<reachable, step, passed, refused>>
    BY DEF R!Tick
  <1>2. /\ R!TypeOK /\ now \in 0..EndOfTime /\ now' \in 0..EndOfTime
        /\ counter \in [R!Windows -> [count : 0..(Max + 1), expires : 0..R!Never]]
        /\ step \in [Requests -> Step]
    BY <1>1, LimitAssumption DEF RateInv, R!TypeOK, Step
  <1>3. /\ n \in Nat /\ m \in R!Windows /\ m \in Nat /\ n <= m
        /\ \A w \in R!Windows : w \in Nat
    BY <1>1, <1>2, ClockInWindows, WindowsInOrder, LimitAssumption
  <1>4. R!NoKey \in [count : 0..(Max + 1), expires : 0..R!Never] /\ R!NoKey.count = 0
        /\ R!NoKey.expires = R!Never
    BY ClockInWindows, LimitAssumption DEF R!NoKey
  <1>5. \A w \in R!Windows : counter'[w] = R!NoKey \/ counter'[w] = counter[w]
    BY <1>1
  <1>6. R!TypeOK'
    BY <1>1, <1>2, <1>3, <1>4 DEF R!TypeOK
  <1> HIDE DEF n, m
  <1>7. Keyed'
    <2>1. \A r \in Requests : step[r].window \in Nat
      BY <1>2, <1>3 DEF Step
    <2> QED BY <1>1, <1>3, <2>1 DEF RateInv, Keyed, n, m
  <1>8. Outage'
    BY <1>1 DEF RateInv, Outage, R!Current, m
  <1>9. Future' /\ Outlives'
    BY <1>1, <1>3, <1>4, <1>5, ClockInWindows DEF RateInv, Future, Outlives, n, m
  <1>10. ASSUME NEW w \in R!Windows \ disturbed'
         PROVE  Balanced(w, m, counter'[w].count, step, passed[w], refused)
    <2>1. Balanced(w, n, counter[w].count, step, passed[w], refused)
      BY <1>1 DEF RateInv, Books, n
    <2>2. ASSUME m <= w PROVE counter'[w] = counter[w]
      <3>1. R!WindowAt(counter[w].expires) > m /\ counter[w].expires \in Nat
        BY <1>2, <1>3, <2>2, ClockInWindows, WindowsInOrder DEF RateInv, Outlives
      <3>2. ~(counter[w].expires <= now')
        BY <1>2, <1>3, <3>1, WindowsInOrder, LimitAssumption DEF m
      <3> QED BY <1>1, <3>2
    <2>3. m <= w => n <= w
      BY <1>3
    <2> QED BY <2>1, <2>2, <2>3, BooksLater
  <1> QED BY <1>1, <1>6, <1>7, <1>8, <1>9, <1>10 DEF RateInv, Books, m

LEMMA LimitStep ==
    ASSUME RateInv, [R!Next]_(R!vars)
    PROVE  RateInv'
  <1>1. CASE UNCHANGED R!vars
    BY <1>1 DEF R!vars, RateInv, R!TypeOK, Keyed, Future, Outlives, Outage, R!Current, Books
  <1>2. CASE R!Next
    BY <1>2, LimitArrive, LimitIncr, LimitExpire, LimitCompare, LimitFailOpen, LimitDie,
       LimitRedis, LimitTick DEF R!Next
  <1> QED BY <1>1, <1>2

\* In every window whose count was neither lost nor late at most Max requests pass, and one is
\* refused only if Max pass, whatever processes die between INCR and EXPIRE and whenever a key
\* expires (api/deps.py: rate_limit).
THEOREM LimitHolds == SpecAll => []LimitIsPerWindow
  <1> DEFINE Inv == subject = "rate limit" => RateInv
  <1>1. InitAll => Inv
    BY LimitStart DEF InitAll
  <1>2. Inv /\ [NextAll]_all => Inv'
    BY LimitSteps, LimitStep
  <1>3. RateInv => R!LimitIsPerWindow
    <2> SUFFICES ASSUME RateInv, NEW w \in R!Windows \ disturbed
                 PROVE  /\ passed[w] <= Max
                        /\ w \in refused => passed[w] + Cardinality(R!Passing(w)) = Max
      <3>1. \A set : R!Cardinality(set) = Cardinality(set)
        BY DEF R!Cardinality, Cardinality
      <3> QED BY <3>1 DEF R!LimitIsPerWindow
    <2>1. R!Passing(w) = Takers(step, w)
      BY DEF R!Passing, Takers, Takes, CountedIn
    <2>2. Balanced(w, R!WindowAt(now), counter[w].count, step, passed[w], refused)
      BY DEF RateInv, Books
    <2>3. passed[w] \in Nat /\ Cardinality(Takers(step, w)) \in Nat
      BY TakersFinite, LimitAssumption DEF RateInv, R!TypeOK
    <2> QED BY <2>1, <2>2, <2>3, LimitAssumption DEF Balanced
  <1> QED BY <1>1, <1>2, <1>3, PTL DEF SpecAll, LimitIsPerWindow

(*****************************************************************************)
(* The users table (UserMirror)                                              *)
(*                                                                           *)
(* The users table follows the identity provider, for any number of          *)
(* people, addresses and requests.                                           *)
(*                                                                           *)
(* While an event is refused and delivered again, the table says less than   *)
(* the provider; the invariant says what the last of the events that are     *)
(* still to come will say, and what the one at hand has seen.                *)
(*****************************************************************************)

Hook == [at : Nat, saw : M!Maybe]
Asker == [stage : {"idle", "unknown"}, of : Identities \cup {None}, email : M!Maybe]

MirrorTypes ==
    /\ account \in [Identities -> M!Accounts]
    /\ events \in [Identities -> Seq(M!Event)]
    /\ mirror \in [Identities -> M!Maybe]
    /\ hook \in [Identities -> Hook]
    /\ asker \in [Calls -> Asker]
    /\ claims \in [Identities -> SUBSET Emails]
    /\ astray \subseteq Identities

\* Every address around is one the identity has had.
Claimed(i) ==
    /\ mirror[i] \in claims[i] \cup {None} /\ hook[i].saw \in claims[i] \cup {None}
    /\ \A k \in 1..Len(events[i]) : events[i][k].email \in claims[i] \cup {None}
    /\ account[i] = "unborn" => claims[i] = {} /\ events[i] = <<>>

\* What the event at hand has seen: a row that is there stays while the event is handled.
Seen(i) ==
    /\ hook[i].at \in 0..Len(events[i])
    /\ hook[i].at # 0 /\ hook[i].saw # None => mirror[i] = hook[i].saw

\* What an account that is gone has left to come: its deletion, last.
Closing(i) ==
    \A k \in 1..Len(events[i]) : events[i][k].type = "user.deleted" => account[i] = "gone"

\* In order, the last event is of the account as it is.
InTurn(i) ==
    i \notin astray =>
      /\ hook[i].at \in {0, 1}
      /\ events[i] = <<>> => M!Follows(i)
      /\ events[i] # <<>> =>
           /\ account[i] \in Emails => /\ events[i][Len(events[i])].type # "user.deleted"
                                       /\ events[i][Len(events[i])].email = account[i]
           /\ account[i] = "gone" => events[i][Len(events[i])].type = "user.deleted"
      /\ hook[i].at # 0 /\ events[i][hook[i].at].type = "user.deleted" /\ hook[i].saw = None
           => mirror[i] = None

AskerClaims(c) ==
    asker[c].stage = "unknown" => /\ asker[c].of \in Identities
                                  /\ asker[c].email \in claims[asker[c].of]

MirrorInv ==
    /\ MirrorTypes
    /\ \A i \in Identities : Claimed(i) /\ Seen(i) /\ Closing(i) /\ InTurn(i)
    /\ \A c \in Calls : AskerClaims(c)

LEMMA MirrorSteps ==
    ASSUME [NextAll]_all, subject' = "user mirror"
    PROVE  subject = "user mirror" /\ [M!Next]_(M!vars)
  <1>1. CASE NextAll
    BY <1>1 DEF NextAll
  <1>2. CASE UNCHANGED all
    BY <1>2 DEF all, mirrorVars, M!vars
  <1> QED BY <1>1, <1>2

LEMMA WithoutEvent ==
    ASSUME NEW s \in Seq(M!Event), NEW k \in 1..Len(s)
    PROVE  /\ M!RemoveAt(s, k) \in Seq(M!Event)
           /\ Len(M!RemoveAt(s, k)) = Len(s) - 1
           /\ \A j \in 1..(Len(s) - 1) : M!RemoveAt(s, k)[j] = IF j < k THEN s[j] ELSE s[j + 1]
  <1>1. M!RemoveAt(s, k) = SubSeq(s, 1, k - 1) \o SubSeq(s, k + 1, Len(s))
    BY DEF M!RemoveAt
  <1> DEFINE a == SubSeq(s, 1, k - 1)
             b == SubSeq(s, k + 1, Len(s))
  <1>2. a \in Seq(M!Event) /\ Len(a) = k - 1 /\ \A j \in 1..(k - 1) : a[j] = s[j]
    OBVIOUS
  <1>3. b \in Seq(M!Event) /\ Len(b) = Len(s) - k /\ \A j \in 1..(Len(s) - k) : b[j] = s[j + k]
    OBVIOUS
  <1> HIDE DEF a, b
  <1>4. a \o b \in Seq(M!Event) /\ Len(a \o b) = Len(s) - 1
    <2>0. a \in Seq(M!Event) /\ b \in Seq(M!Event)
      BY <1>2, <1>3
    <2>1. a \o b \in Seq(M!Event) /\ Len(a \o b) = Len(a) + Len(b)
      BY <2>0
    <2>2. Len(s) \in Nat
      OBVIOUS
    <2>3. (k - 1) + (Len(s) - k) = Len(s) - 1
      BY <2>2
    <2> QED BY <1>2, <1>3, <2>1, <2>2, <2>3
  <1>5. \A j \in 1..(Len(s) - 1) : (a \o b)[j] = IF j < k THEN s[j] ELSE s[j + 1]
    BY <1>2, <1>3
  <1> QED BY <1>1, <1>4, <1>5 DEF a, b

LEMMA WithoutFirst ==
    ASSUME NEW s \in Seq(M!Event), s # <<>>
    PROVE  /\ Tail(s) \in Seq(M!Event) /\ Len(Tail(s)) = Len(s) - 1
           /\ \A j \in 1..(Len(s) - 1) : Tail(s)[j] = s[j + 1]
  OBVIOUS

LEMMA WithLast ==
    ASSUME NEW s \in Seq(M!Event), NEW e \in M!Event
    PROVE  /\ Append(s, e) \in Seq(M!Event) /\ Len(Append(s, e)) = Len(s) + 1
           /\ Append(s, e)[Len(s) + 1] = e /\ Append(s, e) # <<>>
           /\ \A j \in 1..Len(s) : Append(s, e)[j] = s[j]
  OBVIOUS

LEMMA MirrorStart == M!Init => MirrorInv
  <1> SUFFICES ASSUME M!Init PROVE MirrorInv
    OBVIOUS
  <1>1. /\ account = [i \in Identities |-> "unborn"] /\ events = [i \in Identities |-> <<>>]
        /\ mirror = [i \in Identities |-> None] /\ hook = [i \in Identities |-> M!NoHook]
        /\ asker = [c \in Calls |-> M!NoCall] /\ claims = [i \in Identities |-> {}] /\ astray = {}
    BY DEF M!Init
  <1>2. M!NoHook \in Hook /\ M!NoHook.at = 0 /\ M!NoHook.saw = None
    BY DEF M!NoHook, Hook, M!Maybe
  <1>3. M!NoCall \in Asker /\ M!NoCall.stage = "idle"
    BY DEF M!NoCall, Asker, M!Maybe
  <1>4. MirrorTypes
    BY <1>1, <1>2, <1>3 DEF MirrorTypes, M!Accounts, M!Maybe
  <1>5. ASSUME NEW i \in Identities
        PROVE  Claimed(i) /\ Seen(i) /\ Closing(i) /\ InTurn(i)
    <2>1. events[i] = <<>> /\ Len(events[i]) = 0
      BY <1>1
    <2> QED BY <1>1, <1>2, <2>1, MirrorAssumption
            DEF Claimed, Seen, Closing, InTurn, M!Follows
  <1> QED BY <1>1, <1>3, <1>4, <1>5 DEF MirrorInv, AskerClaims
(* What no step of another person's changes *)

Rest(i) == <<account[i], events[i], mirror[i], hook[i], claims[i]>>
Sound(i) == Claimed(i) /\ Seen(i) /\ Closing(i) /\ InTurn(i)

LEMMA MirrorSame ==
    ASSUME NEW i \in Identities, Sound(i), Rest(i)' = Rest(i), (i \in astray) <=> (i \in astray')
    PROVE  Sound(i)'
  BY DEF Sound, Rest, Claimed, Seen, Closing, InTurn, M!Follows

LEMMA AskersSame ==
    ASSUME MirrorInv, asker' = asker, \A i \in Identities : claims[i] \subseteq claims'[i]
    PROVE  \A c \in Calls : AskerClaims(c)'
  BY DEF MirrorInv, AskerClaims

LEMMA AddressSets == M!Maybe = Emails \cup {None} /\ Emails \subseteq M!Accounts
  BY DEF M!Maybe, M!Accounts

(* The provider: one more event, which says what the account now is. *)

LEMMA Reported ==
    ASSUME MirrorInv, NEW i \in Identities, NEW t, NEW e \in M!Maybe, NEW a \in M!Accounts,
           NEW new \in SUBSET Emails, M!Report(i, t, e),
           account' = [account EXCEPT ![i] = a], claims' = [claims EXCEPT ![i] = new],
           claims[i] \subseteq new, e \in new \cup {None}, a # "unborn",
           account[i] \in M!Maybe \cup {"unborn"},
           \/ t \in {"user.created", "user.updated"} /\ a = e
           \/ t = "user.deleted" /\ a = "gone"
    PROVE  MirrorInv'
  <1> DEFINE ev == [type |-> t, email |-> e]
             s == events[i]
  <1>1. MirrorTypes /\ Sound(i)
    BY DEF MirrorInv, Sound
  <1>2. ev \in M!Event /\ ev.type = t /\ ev.email = e
    BY DEF M!Event
  <1>3. /\ events' = [events EXCEPT ![i] = Append(s, ev)]
        /\ mirror' = mirror /\ hook' = hook /\ asker' = asker /\ astray' = astray
    BY DEF M!Report
  <1>4. s \in Seq(M!Event) /\ Len(s) \in Nat
    BY <1>1 DEF MirrorTypes
  <1> HIDE DEF ev, s
  <1>5. /\ Append(s, ev) \in Seq(M!Event) /\ Len(Append(s, ev)) = Len(s) + 1
        /\ Append(s, ev)[Len(s) + 1] = ev /\ Append(s, ev) # <<>>
        /\ \A j \in 1..Len(s) : Append(s, ev)[j] = s[j]
    BY <1>2, <1>4, WithLast
  <1>6. MirrorTypes'
    BY <1>1, <1>3, <1>5 DEF MirrorTypes
  <1>7. /\ account'[i] = a /\ claims'[i] = new /\ events'[i] = Append(s, ev)
        /\ mirror'[i] = mirror[i] /\ hook'[i] = hook[i] /\ events[i] = s
    BY <1>1, <1>3 DEF MirrorTypes, s
  <1>8. Sound(i)'
    <2>1. Claimed(i)'
      BY <1>1, <1>2, <1>4, <1>5, <1>7 DEF Sound, Claimed
    <2>2. Seen(i)'
      BY <1>1, <1>4, <1>5, <1>7 DEF Sound, Seen
    <2>3. \A k \in 1..Len(s) : s[k].type # "user.deleted"
      BY <1>1, <1>7, MirrorAssumption, AddressSets DEF Sound, Closing
    <2>4. Closing(i)'
      BY <1>2, <1>4, <1>5, <1>7, <2>3 DEF Closing
    <2>5. hook[i].at # 0 => events'[i][hook[i].at] = s[hook[i].at]
      BY <1>1, <1>4, <1>5, <1>7 DEF Sound, Seen
    <2>6. InTurn(i)'
      <3>1. account'[i] \in Emails => ev.type # "user.deleted" /\ ev.email = account'[i]
        BY <1>2, <1>7, MirrorAssumption
      <3>2. account'[i] = "gone" => ev.type = "user.deleted"
        BY <1>2, <1>7, MirrorAssumption, AddressSets
      <3>3. events'[i][Len(events'[i])] = ev /\ events'[i] # <<>>
        BY <1>5, <1>7
      <3> QED BY <1>1, <1>3, <1>7, <2>5, <3>1, <3>2, <3>3 DEF Sound, InTurn
    <2> QED BY <2>1, <2>2, <2>4, <2>6 DEF Sound
  <1>9. ASSUME NEW j \in Identities PROVE Sound(j)'
    <2>1. CASE j # i
      <3>1. Rest(j)' = Rest(j) /\ Sound(j)
        BY <1>1, <1>3, <2>1 DEF Rest, MirrorTypes, MirrorInv, Sound
      <3> QED BY <3>1, <1>3, MirrorSame
    <2> QED BY <1>8, <2>1
  <1>10. \A j \in Identities : claims[j] \subseteq claims'[j]
    BY <1>1 DEF MirrorTypes
  <1> QED BY <1>3, <1>6, <1>9, <1>10, AskersSame DEF MirrorInv, Sound

LEMMA SignsUp ==
    ASSUME MirrorInv, NEW i \in Identities, NEW e \in M!Maybe, M!SignUp(i, e)
    PROVE  MirrorInv'
  <1>1. claims[i] = {} /\ account[i] = "unborn"
    BY DEF MirrorInv, Claimed, M!SignUp
  <1>2. {e} \ {None} \in SUBSET Emails /\ e \in ({e} \ {None}) \cup {None}
    BY AddressSets
  <1>3. e \in M!Accounts /\ e # "unborn"
    BY MirrorAssumption, AddressSets DEF M!Accounts
  <1> QED BY <1>1, <1>2, <1>3, Reported DEF M!SignUp

LEMMA ChangesEmail ==
    ASSUME MirrorInv, NEW i \in Identities, NEW e \in M!Maybe, M!ChangeEmail(i, e)
    PROVE  MirrorInv'
  <1> DEFINE new == claims[i] \cup ({e} \ {None})
  <1>1. new \in SUBSET Emails /\ e \in new \cup {None} /\ claims[i] \subseteq new
    BY AddressSets DEF MirrorInv, MirrorTypes
  <1>2. e \in M!Accounts /\ e # "unborn"
    BY MirrorAssumption, AddressSets DEF M!Accounts
  <1>3. claims' = [claims EXCEPT ![i] = new] /\ account' = [account EXCEPT ![i] = e]
    BY DEF M!ChangeEmail
  <1> HIDE DEF new
  <1> QED BY <1>1, <1>2, <1>3, Reported DEF M!ChangeEmail

LEMMA ClosesAccount ==
    ASSUME MirrorInv, NEW i \in Identities, M!CloseAccount(i)
    PROVE  MirrorInv'
  <1>1. claims' = [claims EXCEPT ![i] = claims[i]] /\ claims[i] \in SUBSET Emails
    BY DEF M!CloseAccount, MirrorInv, MirrorTypes
  <1>2. None \in M!Maybe /\ "gone" \in M!Accounts
    BY DEF M!Maybe, M!Accounts
  <1> QED BY <1>1, <1>2, Reported DEF M!CloseAccount

(* clerk_webhook *)

LEMMA Delivers ==
    ASSUME MirrorInv, NEW i \in Identities, NEW k \in 1..MaxEvents, M!Deliver(i, k)
    PROVE  MirrorInv'
  <1> DEFINE h == [at |-> k, saw |-> mirror[i]]
  <1>1. MirrorTypes /\ Sound(i)
    BY DEF MirrorInv, Sound
  <1>2. h \in Hook /\ h.at = k /\ h.saw = mirror[i]
    BY <1>1 DEF Hook, MirrorTypes
  <1>3. /\ hook' = [hook EXCEPT ![i] = h] /\ hook[i].at = 0
        /\ astray' = IF k = 1 THEN astray ELSE astray \cup {i}
        /\ UNCHANGED <<account, events, mirror, asker, claims>>
    BY DEF M!Deliver
  <1>4. events[i] \in Seq(M!Event) /\ k \in 1..Len(events[i])
    BY <1>1 DEF M!Deliver, MirrorTypes
  <1> HIDE DEF h
  <1>5. MirrorTypes'
    BY <1>1, <1>2, <1>3 DEF MirrorTypes
  <1>6. hook'[i] = h
    BY <1>1, <1>3 DEF MirrorTypes
  <1>7. Sound(i)'
    <2>1. Claimed(i)'
      BY <1>1, <1>2, <1>3, <1>6 DEF Sound, Claimed
    <2>2. Seen(i)' /\ Closing(i)'
      BY <1>1, <1>2, <1>3, <1>4, <1>6 DEF Sound, Seen, Closing
    <2>3. InTurn(i)'
      BY <1>1, <1>2, <1>3, <1>6 DEF Sound, InTurn, M!Follows
    <2> QED BY <2>1, <2>2, <2>3 DEF Sound
  <1>8. ASSUME NEW j \in Identities PROVE Sound(j)'
    <2>1. CASE j # i
      <3>1. Rest(j)' = Rest(j) /\ Sound(j)
        BY <1>1, <1>3, <2>1 DEF Rest, MirrorTypes, MirrorInv, Sound
      <3> QED BY <2>1, <3>1, <1>3, MirrorSame
    <2> QED BY <1>7, <2>1
  <1> QED BY <1>3, <1>5, <1>8, AskersSame DEF MirrorInv, Sound

\* What a commit writes is an address of the person's, or nothing.
LEMMA WrittenIsTheirs ==
    ASSUME MirrorInv, NEW i \in Identities, hook[i].at # 0
    PROVE  /\ M!Written(i) \in claims[i] \cup {None} /\ M!Written(i) \in M!Maybe
           /\ hook[i].at \in 1..Len(events[i])
  <1>1. MirrorTypes /\ Sound(i)
    BY DEF MirrorInv, Sound
  <1>2. events[i] \in Seq(M!Event) /\ hook[i] \in Hook /\ claims[i] \in SUBSET Emails
    BY <1>1 DEF MirrorTypes
  <1>3. hook[i].at \in 1..Len(events[i])
    BY <1>1, <1>2 DEF Sound, Seen, Hook
  <1>4. M!Handled(i).email \in claims[i] \cup {None}
    BY <1>1, <1>3 DEF Sound, Claimed, M!Handled
  <1>5. M!NewEmail(i) \in claims[i] \cup {None}
    BY <1>1, <1>4 DEF M!NewEmail, Sound, Claimed
  <1>6. M!Written(i) \in claims[i] \cup {None}
    BY <1>1, <1>5 DEF M!Written, Sound, Claimed
  <1> QED BY <1>2, <1>3, <1>6, AddressSets

LEMMA Fails ==
    ASSUME MirrorInv, NEW i \in Identities, M!Fail(i)
    PROVE  MirrorInv'
  <1> DEFINE w == mirror'[i]
  <1>1. MirrorTypes /\ Sound(i)
    BY DEF MirrorInv, Sound
  <1>2. /\ hook' = [hook EXCEPT ![i] = M!NoHook] /\ hook[i].at # 0
        /\ UNCHANGED <<account, events, asker, claims, astray>>
        /\ mirror' = mirror \/ mirror' = [mirror EXCEPT ![i] = M!Written(i)]
    BY DEF M!Fail
  <1>3. M!NoHook \in Hook /\ M!NoHook.at = 0 /\ M!NoHook.saw = None
    BY DEF M!NoHook, Hook, M!Maybe
  <1>4. /\ M!Written(i) \in claims[i] \cup {None} /\ M!Written(i) \in M!Maybe
        /\ hook[i].at \in 1..Len(events[i])
    BY <1>2, WrittenIsTheirs
  <1>5. /\ mirror' \in [Identities -> M!Maybe] /\ mirror'[i] \in claims[i] \cup {None}
        /\ \A j \in Identities : j # i => mirror'[j] = mirror[j]
    BY <1>1, <1>2, <1>4 DEF MirrorTypes, Sound, Claimed
  <1>6. MirrorTypes' /\ hook'[i] = M!NoHook
    BY <1>1, <1>2, <1>3, <1>5 DEF MirrorTypes
  <1>7. Sound(i)'
    <2>1. events[i] \in Seq(M!Event) /\ events[i] # <<>> /\ Len(events[i]) \in Nat
      BY <1>1, <1>4 DEF MirrorTypes
    <2>2. Claimed(i)'
      BY <1>1, <1>2, <1>3, <1>5, <1>6 DEF Sound, Claimed
    <2>3. Seen(i)' /\ Closing(i)'
      BY <1>1, <1>2, <1>3, <1>6, <2>1 DEF Sound, Seen, Closing
    <2>4. InTurn(i)'
      BY <1>1, <1>2, <1>3, <1>6, <2>1 DEF Sound, InTurn
    <2> QED BY <2>2, <2>3, <2>4 DEF Sound
  <1>8. ASSUME NEW j \in Identities PROVE Sound(j)'
    <2>1. CASE j # i
      <3>1. Rest(j)' = Rest(j) /\ Sound(j)
        BY <1>1, <1>2, <1>5, <2>1 DEF Rest, MirrorTypes, MirrorInv, Sound
      <3> QED BY <3>1, <1>2, MirrorSame
    <2> QED BY <1>7, <2>1
  <1> QED BY <1>2, <1>6, <1>8, AskersSame DEF MirrorInv, Sound

LEMMA Commits ==
    ASSUME MirrorInv, NEW i \in Identities, M!Commit(i)
    PROVE  MirrorInv'
  <1> DEFINE s == events[i]
             k == hook[i].at
             r == M!RemoveAt(s, k)
             w == M!Written(i)
  <1>1. MirrorTypes /\ Sound(i)
    BY DEF MirrorInv, Sound
  <1>2. /\ mirror' = [mirror EXCEPT ![i] = w] /\ events' = [events EXCEPT ![i] = r]
        /\ hook' = [hook EXCEPT ![i] = M!NoHook] /\ k # 0
        /\ UNCHANGED <<account, asker, claims, astray>>
    BY DEF M!Commit, M!Settle
  <1>3. M!NoHook \in Hook /\ M!NoHook.at = 0 /\ M!NoHook.saw = None
    BY DEF M!NoHook, Hook, M!Maybe
  <1>4. w \in claims[i] \cup {None} /\ w \in M!Maybe /\ k \in 1..Len(s)
    BY <1>2, WrittenIsTheirs
  <1>5. s \in Seq(M!Event) /\ Len(s) \in Nat \ {0} /\ s # <<>>
    BY <1>1, <1>4 DEF MirrorTypes
  <1>6. /\ r \in Seq(M!Event) /\ Len(r) = Len(s) - 1
        /\ \A j \in 1..(Len(s) - 1) : r[j] = IF j < k THEN s[j] ELSE s[j + 1]
    <2> HIDE DEF s, k
    <2> QED BY <1>4, <1>5, WithoutEvent
  <1>7. ~M!Refused(i) /\ M!Handled(i) = s[k]
    BY DEF M!Commit, M!Handled
  <1>8. i \notin astray => k = 1
    BY <1>1, <1>2 DEF Sound, InTurn
  <1> HIDE DEF r, w
  <1>9. MirrorTypes' /\ hook'[i] = M!NoHook /\ events'[i] = r /\ mirror'[i] = w
    BY <1>1, <1>2, <1>3, <1>4, <1>6 DEF MirrorTypes
  <1>10. \A j \in 1..Len(r) : \E n \in 1..Len(s) : r[j] = s[n]
    <2> HIDE DEF s, k
    <2> TAKE j \in 1..Len(r)
    <2>1. j \in 1..Len(s) /\ j + 1 \in 1..Len(s)
      BY <1>5, <1>6
    <2>2. r[j] = s[j] \/ r[j] = s[j + 1]
      BY <1>5, <1>6
    <2> QED BY <2>1, <2>2
  <1>11. Sound(i)'
    <2>1. Claimed(i)'
      <3>1. account[i] # "unborn"
        BY <1>1, <1>5 DEF Sound, Claimed
      <3> QED BY <1>1, <1>2, <1>3, <1>4, <1>9, <1>10, <3>1 DEF Sound, Claimed
    <2>2. Seen(i)' /\ Closing(i)'
      <3>1. Seen(i)'
        BY <1>3, <1>5, <1>6, <1>9 DEF Seen
      <3>2. Closing(i)'
        BY <1>1, <1>2, <1>9, <1>10 DEF Sound, Closing
      <3> QED BY <3>1, <3>2
    <2>3. ASSUME i \notin astray, r = <<>> PROVE M!Follows(i)'
      <3>1. Len(s) = 1 /\ k = 1
        BY <1>5, <1>6, <1>8, <2>3
      <3>2. CASE account[i] \in Emails
        <4>1. s[k].type # "user.deleted" /\ s[k].email = account[i] /\ s[k].email # None
          BY <1>1, <1>5, <2>3, <3>1, <3>2, MirrorAssumption DEF Sound, InTurn
        <4>2. M!NewEmail(i) = account[i]
          BY <1>7, <4>1 DEF M!NewEmail
        <4>3. w = account[i]
          BY <1>1, <1>2, <1>7, <4>1, <4>2 DEF w, M!Written, Sound, Seen
        <4> QED BY <1>2, <1>9, <3>2, <4>3, MirrorAssumption DEF M!Follows
      <3>3. CASE account[i] = "gone"
        <4>1. s[k].type = "user.deleted"
          BY <1>1, <1>5, <2>3, <3>1, <3>3 DEF Sound, InTurn
        <4>2. w = None
          BY <1>1, <1>2, <1>7, <2>3, <4>1 DEF w, M!Written, Sound, InTurn
        <4> QED BY <1>2, <1>9, <3>3, <4>2, MirrorAssumption DEF M!Follows
      <3>4. CASE account[i] \notin Emails /\ account[i] # "gone"
        <4>1. account[i] # "unborn"
          BY <1>1, <1>5 DEF Sound, Claimed
        <4> QED BY <1>2, <3>4, <4>1 DEF M!Follows
      <3> QED BY <3>2, <3>3, <3>4
    <2>4. ASSUME i \notin astray, r # <<>> PROVE r[Len(r)] = s[Len(s)]
      <3>1. Len(r) \in Nat \ {0} /\ k = 1
        BY <1>6, <1>8, <2>4
      <3> HIDE DEF s, k
      <3>2. r[Len(s) - 1] = s[(Len(s) - 1) + 1] /\ (Len(s) - 1) + 1 = Len(s)
        BY <1>5, <1>6, <3>1
      <3> QED BY <1>6, <3>2
    <2>5. InTurn(i)'
      BY <1>1, <1>2, <1>3, <1>5, <1>9, <2>3, <2>4 DEF Sound, InTurn
    <2> QED BY <2>1, <2>2, <2>5 DEF Sound
  <1>12. ASSUME NEW j \in Identities PROVE Sound(j)'
    <2>1. CASE j # i
      <3>1. Rest(j)' = Rest(j) /\ Sound(j)
        BY <1>1, <1>2, <2>1 DEF Rest, MirrorTypes, MirrorInv, Sound
      <3> QED BY <3>1, <1>2, MirrorSame
    <2> QED BY <1>11, <2>1
  <1> QED BY <1>2, <1>9, <1>12, AskersSame DEF MirrorInv, Sound

LEMMA GivesUp ==
    ASSUME MirrorInv, NEW i \in Identities, M!GiveUp(i)
    PROVE  MirrorInv'
  <1> DEFINE s == events[i]
  <1>1. MirrorTypes /\ Sound(i)
    BY DEF MirrorInv, Sound
  <1>2. /\ events' = [events EXCEPT ![i] = Tail(s)] /\ hook[i].at = 0 /\ s # <<>>
        /\ astray' = astray \cup {i}
        /\ UNCHANGED <<account, mirror, hook, asker, claims>>
    BY DEF M!GiveUp
  <1>3. s \in Seq(M!Event)
    BY <1>1 DEF MirrorTypes
  <1> HIDE DEF s
  <1>4. /\ Tail(s) \in Seq(M!Event) /\ Len(Tail(s)) = Len(s) - 1 /\ Len(s) \in Nat \ {0}
        /\ \A j \in 1..(Len(s) - 1) : Tail(s)[j] = s[j + 1]
    BY <1>2, <1>3, WithoutFirst
  <1>5. MirrorTypes' /\ events'[i] = Tail(s) /\ events[i] = s
    BY <1>1, <1>2, <1>4 DEF MirrorTypes, s
  <1>6. Sound(i)'
    <2>1. account[i] # "unborn"
      BY <1>1, <1>2, <1>5 DEF Sound, Claimed
    <2>2. Claimed(i)'
      BY <1>1, <1>2, <1>4, <1>5, <2>1 DEF Sound, Claimed
    <2>3. Seen(i)' /\ Closing(i)'
      BY <1>1, <1>2, <1>4, <1>5 DEF Sound, Seen, Closing
    <2> QED BY <1>2, <2>2, <2>3 DEF Sound, InTurn
  <1>7. ASSUME NEW j \in Identities PROVE Sound(j)'
    <2>1. CASE j # i
      <3>1. Rest(j)' = Rest(j) /\ Sound(j)
        BY <1>1, <1>2, <2>1 DEF Rest, MirrorTypes, MirrorInv, Sound
      <3> QED BY <2>1, <3>1, <1>2, MirrorSame
    <2> QED BY <1>6, <2>1
  <1> QED BY <1>2, <1>5, <1>7, AskersSame DEF MirrorInv, Sound

(* get_current_user *)

LEMMA SeesFirst ==
    ASSUME MirrorInv, NEW c \in Calls, NEW i \in Identities, NEW e \in Emails,
           M!FirstSight(c, i, e)
    PROVE  MirrorInv'
  <1> DEFINE a == [stage |-> "unknown", of |-> i, email |-> e]
  <1>1. MirrorTypes
    BY DEF MirrorInv
  <1>2. a \in Asker /\ a.of = i /\ a.email = e
    BY AddressSets DEF Asker
  <1>3. /\ asker' = [asker EXCEPT ![c] = a] /\ e \in claims[i]
        /\ UNCHANGED <<account, events, mirror, hook, claims, astray>>
    BY DEF M!FirstSight
  <1> HIDE DEF a
  <1>4. MirrorTypes'
    BY <1>1, <1>2, <1>3 DEF MirrorTypes
  <1>5. ASSUME NEW j \in Identities PROVE Sound(j)'
    BY <1>3, MirrorSame DEF Rest, MirrorInv, Sound
  <1>6. ASSUME NEW d \in Calls PROVE AskerClaims(d)'
    BY <1>1, <1>2, <1>3 DEF MirrorInv, MirrorTypes, AskerClaims
  <1> QED BY <1>4, <1>5, <1>6 DEF MirrorInv, Sound

LEMMA Collides ==
    ASSUME MirrorInv, NEW c \in Calls, M!Collide(c)
    PROVE  MirrorInv'
  <1>1. MirrorTypes
    BY DEF MirrorInv
  <1>2. M!NoCall \in Asker /\ M!NoCall.stage = "idle"
    BY DEF M!NoCall, Asker, M!Maybe
  <1>3. /\ asker' = [asker EXCEPT ![c] = M!NoCall]
        /\ UNCHANGED <<account, events, mirror, hook, claims, astray>>
    BY DEF M!Collide
  <1>4. MirrorTypes'
    BY <1>1, <1>2, <1>3 DEF MirrorTypes
  <1>5. ASSUME NEW j \in Identities PROVE Sound(j)'
    BY <1>3, MirrorSame DEF Rest, MirrorInv, Sound
  <1>6. ASSUME NEW d \in Calls PROVE AskerClaims(d)'
    BY <1>1, <1>2, <1>3 DEF MirrorInv, MirrorTypes, AskerClaims
  <1> QED BY <1>4, <1>5, <1>6 DEF MirrorInv, Sound

\* A row made for a person still there is one the events to come will see, or is of someone
\* without an address; one made for a person who is gone is a token outliving the account.
LEMMA Inserts ==
    ASSUME MirrorInv, NEW c \in Calls, M!Insert(c)
    PROVE  MirrorInv'
  <1>0. PICK i \in Identities, e \in Emails :
              i = asker[c].of /\ e = asker[c].email /\ e \in claims[i]
    <2>1. /\ asker[c].of \in Identities /\ asker[c].email \in claims[asker[c].of]
          /\ asker[c].email \in Emails
      BY DEF MirrorInv, MirrorTypes, AskerClaims, M!Insert
    <2> QED BY <2>1
  <1>1. MirrorTypes
    BY DEF MirrorInv
  <1>2. M!NoCall \in Asker /\ M!NoCall.stage = "idle"
    BY DEF M!NoCall, Asker, M!Maybe
  <1>3. /\ asker' = [asker EXCEPT ![c] = M!NoCall] /\ mirror[i] = None
        /\ mirror' = [mirror EXCEPT ![i] = e]
        /\ astray' = IF account[i] = "gone" THEN astray \cup {i} ELSE astray
        /\ UNCHANGED <<account, events, hook, claims>>
    BY <1>0 DEF M!Insert
  <1>4. e \in Emails /\ e \in M!Maybe
    BY <1>1, AddressSets DEF MirrorTypes
  <1>5. MirrorTypes' /\ mirror'[i] = e
    BY <1>1, <1>2, <1>3, <1>4 DEF MirrorTypes
  <1>6. Sound(i)
    BY <1>1 DEF MirrorInv, Sound
  <1>7. Sound(i)'
    <2>1. Claimed(i)'
      BY <1>0, <1>1, <1>3, <1>5, <1>6 DEF Sound, Claimed
    <2>2. hook[i].at # 0 => hook[i].saw = None
      BY <1>3, <1>6 DEF Sound, Seen
    <2>3. Seen(i)' /\ Closing(i)'
      BY <1>3, <1>6, <2>2 DEF Sound, Seen, Closing
    <2>4. CASE account[i] = "gone"
      BY <1>3, <2>1, <2>3, <2>4 DEF Sound, InTurn
    <2>5. CASE account[i] # "gone"
      <3>1. hook[i].at # 0 => events[i][hook[i].at].type # "user.deleted"
        <4>1. hook[i] \in Hook /\ events[i] \in Seq(M!Event)
          BY <1>1 DEF MirrorTypes
        <4> QED BY <1>6, <2>5, <4>1 DEF Sound, Seen, Closing, Hook
      <3>2. account[i] # "unborn"
        BY <1>0, <1>1, <1>6 DEF Sound, Claimed
      <3>3. ASSUME i \notin astray, events[i] = <<>> PROVE account[i] \notin Emails
        BY <1>3, <1>6, <3>3, MirrorAssumption DEF Sound, InTurn, M!Follows
      <3>4. InTurn(i)'
        BY <1>3, <1>6, <2>5, <3>1, <3>2, <3>3 DEF Sound, InTurn, M!Follows
      <3> QED BY <2>1, <2>3, <3>4 DEF Sound
    <2> QED BY <2>4, <2>5
  <1>8. ASSUME NEW j \in Identities PROVE Sound(j)'
    <2>1. CASE j # i
      <3>1. Rest(j)' = Rest(j) /\ Sound(j)
        BY <1>1, <1>3, <2>1 DEF Rest, MirrorTypes, MirrorInv, Sound
      <3>2. (j \in astray) <=> (j \in astray')
        BY <1>3, <2>1
      <3> QED BY <3>1, <3>2, MirrorSame
    <2> QED BY <1>7, <2>1
  <1>9. ASSUME NEW d \in Calls PROVE AskerClaims(d)'
    BY <1>1, <1>2, <1>3 DEF MirrorInv, MirrorTypes, AskerClaims
  <1> QED BY <1>5, <1>8, <1>9 DEF MirrorInv, Sound

LEMMA MirrorStep == MirrorInv /\ [M!Next]_(M!vars) => MirrorInv'
  <1> SUFFICES ASSUME MirrorInv, [M!Next]_(M!vars) PROVE MirrorInv'
    OBVIOUS
  <1>1. CASE UNCHANGED M!vars
    <2>1. UNCHANGED <<account, events, mirror, hook, asker, claims, astray>>
      BY <1>1 DEF M!vars
    <2>2. MirrorTypes'
      BY <2>1 DEF MirrorInv, MirrorTypes
    <2>3. ASSUME NEW j \in Identities PROVE Sound(j)'
      BY <2>1, MirrorSame DEF Rest, MirrorInv, Sound
    <2> QED BY <2>1, <2>2, <2>3, AskersSame DEF MirrorInv, Sound
  <1>2. ASSUME NEW i \in Identities, NEW e \in M!Maybe, M!SignUp(i, e) \/ M!ChangeEmail(i, e)
        PROVE  MirrorInv'
    BY <1>2, SignsUp, ChangesEmail
  <1>3. ASSUME NEW i \in Identities,
               M!CloseAccount(i) \/ M!Commit(i) \/ M!Fail(i) \/ M!GiveUp(i)
        PROVE  MirrorInv'
    BY <1>3, ClosesAccount, Commits, Fails, GivesUp
  <1>4. ASSUME NEW i \in Identities, NEW k \in 1..MaxEvents, M!Deliver(i, k)
        PROVE  MirrorInv'
    BY <1>4, Delivers
  <1>5. ASSUME NEW c \in Calls, NEW i \in Identities, NEW e \in Emails, M!FirstSight(c, i, e)
        PROVE  MirrorInv'
    BY <1>5, SeesFirst
  <1>6. ASSUME NEW c \in Calls, M!Insert(c) \/ M!Collide(c)
        PROVE  MirrorInv'
    BY <1>6, Inserts, Collides
  <1> QED BY <1>1, <1>2, <1>3, <1>4, <1>5, <1>6 DEF M!Next

\* The users table follows the provider: a row's address is one of its person's, and with all
\* events of a person answered in order it says what the account says (app/api/auth.py:
\* clerk_webhook, app/api/deps.py: get_current_user).
THEOREM MirrorKeepsUp == SpecAll => []MirrorFollows
  <1> DEFINE Inv == subject = "user mirror" => MirrorInv
  <1>1. InitAll => Inv
    BY MirrorStart DEF InitAll
  <1>2. Inv /\ [NextAll]_all => Inv'
    BY MirrorSteps, MirrorStep
  <1>3. Inv => MirrorFollows
    BY DEF MirrorFollows, M!MirrorFollows, MirrorInv, Claimed, InTurn
  <1> QED BY <1>1, <1>2, <1>3, PTL DEF SpecAll

(*****************************************************************************)
(* Connections and row-level security (Sessions)                             *)
(*                                                                           *)
(* Row-level security holds for every number of requests, connections and    *)
(* workspaces, whatever order the event loop serves them in.                 *)
(*                                                                           *)
(* ConfinedToWorkspace looks at what a query saw; what decides it is what    *)
(* the query's connection was last set to.  The invariant follows the        *)
(* connections: one that is free is set to no workspace, one that is held    *)
(* is held once, and set to no workspace but its holder's.  From who holds   *)
(* one, and where, follows as well that no cycle of waiting needs more than  *)
(* the pool's timeout to open (EveryRequestCanMove).                         *)
(*****************************************************************************)

Unset == {"null", "empty"}

\* A request q has a connection where it needs one, and between its authorization and its commit
\* that connection is set to the workspace it was authorized for.  Its threads run synchronous code.
Seated(q, set) ==
    /\ q.thread => q.stage \in {"auth", "role", "handler", "refresh", "close"}
    /\ q.stage \in {"idle", "auth", "refresh", "hook"} => q.conn = None
    /\ q.stage \in {"role", "handler"} => q.conn # None
    /\ q.conn # None => set[q.conn] \in Unset \cup {q.ws}
    /\ q.stage \in {"idle", "auth", "role", "hook"} => ~q.confined
    /\ q.confined \/ q.route = "workspace" => q.ws \in Tenants
    /\ q.confined /\ q.conn # None => set[q.conn] = q.ws
    /\ q.confined /\ q.stage # "handler" => q.saw = "own"
    /\ q.saw # "other"

SessionsInv ==
    /\ S!TypeOK
    /\ \A r \in Slots : Seated(request[r], setting)
    /\ \A c \in S!Free : setting[c] \in Unset
    /\ loop # None => request[loop].stage = "hook"

\* What a step of the whole does to the sessions is a step of the sessions.
LEMMA SessionsSteps ==
    ASSUME [NextAll]_all, subject' = "sessions"
    PROVE  subject = "sessions" /\ [S!Next]_(S!vars)
  <1>1. CASE NextAll
    BY <1>1 DEF NextAll
  <1>2. CASE UNCHANGED all
    BY <1>2 DEF all, sessionVars, S!vars
  <1> QED BY <1>1, <1>2

LEMMA SessionsStart == S!Init => SessionsInv
  <1> SUFFICES ASSUME S!Init PROVE SessionsInv
    OBVIOUS
  <1>1. S!TypeOK
    BY DEF S!Init, S!TypeOK, S!Settings, S!Idle, S!Request
  <1>2. \A r \in Slots : Seated(request[r], setting)
    BY PoolAssumption DEF S!Init, Seated, S!Idle
  <1>3. \A c \in S!Free : setting[c] \in Unset
    BY DEF S!Init, S!Free, Unset
  <1>4. loop = None
    BY DEF S!Init
  <1> QED BY <1>1, <1>2, <1>3, <1>4 DEF SessionsInv

\* What a query sees on a connection that is set to no workspace, and on one set to its own.
LEMMA RowsSeen ==
    ASSUME NEW ws
    PROVE  /\ \A s \in Unset : S!Rows(s, ws) \in {"all", "error"}
           /\ ws \in Tenants => S!Rows(ws, ws) = "own"
           /\ \A s \in Unset \cup {ws} : S!Rows(s, ws) \in {"all", "error", "own"}
  <1>1. S!Rows("null", ws) = "all"
    BY DEF S!Rows
  <1>2. S!Rows("empty", ws) = "error"
    BY DEF S!Rows
  <1>3. S!Rows(ws, ws) \in {"all", "error", "own"}
    BY DEF S!Rows
  <1>4. ws \in Tenants => S!Rows(ws, ws) = "own"
    BY PoolAssumption DEF S!Rows
  <1> QED BY <1>1, <1>2, <1>3, <1>4 DEF Unset

\* The invariant after a step of one request, r, which becomes q: q's connection is the one it had or
\* one that was free, only the one it had is set, and if it lets go of that it leaves it unset.
LEMMA SessionsTurn ==
    ASSUME SessionsInv, NEW r \in Slots, NEW q \in S!Request,
           request' = [request EXCEPT ![r] = q],
           setting' \in [Connections -> S!Settings],
           loop' \in Slots \cup {None},
           loop' # None => IF loop' = r THEN q.stage = "hook" ELSE loop' = loop,
           Seated(q, setting'),
           q.conn # None => q.conn = request[r].conn \/ q.conn \in S!Free,
           \A c \in Connections : c # request[r].conn => setting'[c] = setting[c],
           request[r].conn # None /\ q.conn # request[r].conn => setting'[request[r].conn] \in Unset
    PROVE  SessionsInv'
  <1> USE PoolAssumption
  <1>1. request \in [Slots -> S!Request] /\ setting \in [Connections -> S!Settings]
    BY DEF SessionsInv, S!TypeOK
  <1>2. /\ request'[r] = q
        /\ \A s \in Slots : s # r => request'[s] = request[s]
        /\ request' \in [Slots -> S!Request]
    BY <1>1
  <1>3. \A s \in Slots : request[s].conn \in Connections \cup {None}
    BY <1>1 DEF S!Request
  <1>4. \A s, t \in Slots : s # t /\ request[s].conn # None => request[s].conn # request[t].conn
    BY DEF SessionsInv, S!TypeOK
  <1>5. \A s \in Slots : q.conn # None /\ s # r => q.conn # request[s].conn
    BY <1>4 DEF S!Free
  <1>6. S!TypeOK'
    BY <1>2, <1>4, <1>5 DEF S!TypeOK
  <1>7. \A s \in Slots : Seated(request'[s], setting')
    <2> SUFFICES ASSUME NEW s \in Slots, s # r PROVE Seated(request[s], setting')
      BY <1>2
    <2>1. Seated(request[s], setting)
      BY DEF SessionsInv
    <2>2. request[s].conn # None => setting'[request[s].conn] = setting[request[s].conn]
      BY <1>3, <1>4
    <2> QED BY <2>1, <2>2 DEF Seated
  <1>8. \A c \in Connections : (\A s \in Slots : request'[s].conn # c) => setting'[c] \in Unset
    <2> SUFFICES ASSUME NEW c \in Connections, \A s \in Slots : request'[s].conn # c
                 PROVE  setting'[c] \in Unset
      OBVIOUS
    <2>1. CASE c = request[r].conn
      BY <1>2, <2>1
    <2>2. CASE c # request[r].conn
      <3>1. c \in S!Free
        BY <1>2, <2>2 DEF S!Free
      <3> QED BY <2>2, <3>1 DEF SessionsInv
    <2> QED BY <2>1, <2>2
  <1>9. (\A c \in S!Free : setting[c] \in Unset)'
    BY <1>8 DEF S!Free
  <1>10. loop' # None => request'[loop'].stage = "hook"
    BY <1>2 DEF SessionsInv
  <1> QED BY <1>6, <1>7, <1>9, <1>10 DEF SessionsInv

\* What the end of a transaction does to its connection.
Ended(c) ==
    /\ setting' \in [Connections -> S!Settings] /\ setting'[c] \in Unset
    /\ \A d \in Connections : d # c => setting'[d] = setting[d]

LEMMA SessionsEnded ==
    ASSUME setting \in [Connections -> S!Settings], NEW c \in Connections, S!EndTransaction(c)
    PROVE  Ended(c)
  <1>1. setting[c] \in S!Settings /\ setting' = [setting EXCEPT ![c] = S!AfterTransaction(setting[c])]
    BY DEF S!EndTransaction
  <1>2. S!AfterTransaction(setting[c]) \in Unset /\ Unset \subseteq S!Settings
    BY <1>1 DEF S!AfterTransaction, Unset, S!Settings
  <1> QED BY <1>1, <1>2 DEF Ended

LEMMA SessionsStep ==
    ASSUME SessionsInv, [S!Next]_(S!vars)
    PROVE  SessionsInv'
  <1> USE PoolAssumption
  <1>1. request \in [Slots -> S!Request] /\ setting \in [Connections -> S!Settings]
        /\ loop \in Slots \cup {None}
    BY DEF SessionsInv, S!TypeOK
  <1>2. \A s \in Slots : Seated(request[s], setting)
    BY DEF SessionsInv
  <1>3. CASE UNCHANGED S!vars
    BY <1>3 DEF SessionsInv, S!vars, S!TypeOK, S!Free
  <1>4. ASSUME NEW c \in Connections, S!Replace(c)
        PROVE  SessionsInv'
    <2>1. /\ \A s \in Slots : request[s].conn # c
          /\ setting' = [setting EXCEPT ![c] = "null"] /\ UNCHANGED <<request, loop>>
      BY <1>4 DEF S!Replace, S!Free
    <2>2. S!TypeOK'
      BY <1>1, <2>1 DEF SessionsInv, S!TypeOK, S!Settings
    <2>3. (\A s \in Slots : Seated(request[s], setting))'
      BY <1>1, <1>2, <2>1 DEF Seated
    <2>4. (\A d \in S!Free : setting[d] \in Unset)'
      BY <1>1, <2>1 DEF SessionsInv, S!Free, Unset
    <2> QED BY <2>1, <2>2, <2>3, <2>4 DEF SessionsInv
  <1>5. ASSUME NEW r \in Slots, S!Arrive(r) \/ S!Dispatch(r) \/ S!Run(r)
        PROVE  SessionsInv'
    <2>0. /\ request[r] \in S!Request /\ Seated(request[r], setting)
          /\ request[r].conn \in Connections \cup {None}
          /\ loop = r => request[r].stage = "hook"
      BY <1>1, <1>2 DEF S!Request, SessionsInv
    <2>1. CASE S!Arrive(r)
      <3>1. PICK q :
              /\ request' = [request EXCEPT ![r] = q]
              /\ \/ \E w \in Tenants : q = [S!Idle EXCEPT !.route = "workspace", !.ws = w,
                                                        !.stage = "auth"]
                 \/ q = [S!Idle EXCEPT !.route = "organization", !.stage = "auth"]
                 \/ q = [S!Idle EXCEPT !.route = "webhook", !.stage = "hook"]
        BY <2>1 DEF S!Arrive
      <3>2. q \in S!Request /\ Seated(q, setting') /\ q.conn = None
        BY <3>1 DEF Seated, S!Idle, S!Request
      <3>3. /\ request[r].conn = None /\ UNCHANGED <<setting, loop>>
            /\ loop # r
        BY <2>0, <2>1 DEF Seated, S!Arrive
      <3> QED BY <1>1, <3>1, <3>2, <3>3, SessionsTurn
    <2>2. CASE S!Dispatch(r)
      <3>1. CASE request[r].stage = "hook"
        <4>1. /\ request' = [request EXCEPT ![r] = request[r]] /\ UNCHANGED setting
              /\ loop' = r
          BY <1>1, <2>2, <3>1 DEF S!Dispatch
        <4> QED BY <1>1, <2>0, <3>1, <4>1, SessionsTurn
      <3>2. CASE request[r].stage # "hook"
        <4> DEFINE q == [request[r] EXCEPT !.thread = TRUE]
        <4>0. request[r].stage \in {"auth", "role", "handler", "refresh", "close"}
          BY <2>0, <2>2, <3>2 DEF S!Dispatch, S!CanDispatch, S!Request
        <4>1. /\ q \in S!Request /\ Seated(q, setting)
              /\ q.conn = request[r].conn
          BY <2>0, <4>0 DEF S!Request, Seated
        <4>2. request' = [request EXCEPT ![r] = q] /\ UNCHANGED <<setting, loop>> /\ loop # r
          BY <2>2, <3>2 DEF S!Dispatch, S!CanDispatch
        <4> QED BY <1>1, <4>1, <4>2, SessionsTurn
      <3> QED BY <3>1, <3>2
    <2>3. CASE S!Authenticate(r)
      <3>1. PICK c \in S!Free :
              /\ request' = [request EXCEPT ![r].conn = c, ![r].stage = "role", ![r].thread = FALSE]
              /\ request[r].stage = "auth" /\ UNCHANGED <<setting, loop>> /\ loop # r
        BY <2>0, <2>3 DEF S!Authenticate, S!InThread
      <3> DEFINE q == [request[r] EXCEPT !.conn = c, !.stage = "role", !.thread = FALSE]
      <3>2. request' = [request EXCEPT ![r] = q]
        BY <1>1, <3>1
      <3>3. c \in Connections /\ setting[c] \in Unset /\ request[r].conn = None
        BY <2>0, <3>1 DEF SessionsInv, S!Free, Seated
      <3>4. q \in S!Request /\ Seated(q, setting') /\ q.conn = c
        BY <2>0, <3>1, <3>3 DEF S!Request, Seated
      <3>5. UNCHANGED <<setting, loop>> /\ loop # r
        BY <3>1
      <3> HIDE DEF q
      <3> QED BY <1>1, <3>2, <3>3, <3>4, <3>5, SessionsTurn
    <2>4. CASE S!Authorize(r)
      <3> DEFINE rows == S!Rows(setting[request[r].conn], request[r].ws)
      <3>1. /\ request[r].stage = "role" /\ request[r].conn \in Connections
            /\ rows \in {"all", "error", "own"} /\ loop # r
        BY <2>0, <2>4, RowsSeen DEF S!Authorize, S!InThread, Seated
      <3>2. PICK allowed \in BOOLEAN :
              LET passes == allowed /\ rows # "error"
                  confines == passes /\ request[r].route = "workspace"
              IN /\ setting' = IF confines THEN [setting EXCEPT ![request[r].conn] = request[r].ws]
                               ELSE setting
                 /\ request' = [request EXCEPT ![r].saw = rows, ![r].thread = FALSE,
                                               ![r].confined = confines,
                                               ![r].stage = IF passes THEN "handler" ELSE "close"]
        BY <2>4 DEF S!Authorize
      <3> DEFINE passes == allowed /\ rows # "error"
                 confines == passes /\ request[r].route = "workspace"
                 q == [request[r] EXCEPT !.saw = rows, !.thread = FALSE, !.confined = confines,
                                         !.stage = IF passes THEN "handler" ELSE "close"]
      <3>3. q \in S!Request /\ q.conn = request[r].conn
        BY <2>0, <3>1 DEF S!Request
      <3>4. request' = [request EXCEPT ![r] = q]
        BY <1>1, <3>2
      <3>5. confines => request[r].ws \in Tenants
        BY <2>0 DEF Seated
      <3>6. setting' \in [Connections -> S!Settings]
        BY <1>1, <3>1, <3>2, <3>5 DEF S!Settings
      <3>7. Seated(q, setting')
        BY <1>1, <2>0, <3>1, <3>2, <3>5 DEF Seated, S!Request
      <3> QED BY <1>1, <2>4, <3>1, <3>2, <3>3, <3>4, <3>6, <3>7, SessionsTurn DEF S!Authorize
    <2>5. CASE S!Handle(r)
      <3> DEFINE rows == S!Rows(setting[request[r].conn], request[r].ws)
      <3>1. /\ request[r].stage = "handler" /\ request[r].conn \in Connections
            /\ rows \in {"all", "error", "own"}
            /\ request[r].confined => rows = "own"
            /\ loop # r
        BY <2>0, <2>5, RowsSeen DEF S!Handle, S!InThread, Seated
      <3>2. CASE /\ UNCHANGED setting
                 /\ request' = [request EXCEPT ![r].saw = rows, ![r].stage = "close",
                                               ![r].thread = FALSE]
        <4> DEFINE q == [request[r] EXCEPT !.saw = rows, !.stage = "close", !.thread = FALSE]
        <4>1. /\ q \in S!Request /\ q.conn = request[r].conn /\ Seated(q, setting')
          BY <2>0, <3>1, <3>2 DEF S!Request, Seated
        <4>2. request' = [request EXCEPT ![r] = q]
          BY <1>1, <3>2
        <4> QED BY <1>1, <2>5, <3>1, <3>2, <4>1, <4>2, SessionsTurn DEF S!Handle
      <3>3. CASE /\ S!EndTransaction(request[r].conn)
                 /\ request' = [request EXCEPT ![r].saw = rows, ![r].stage = "refresh",
                                               ![r].conn = None]
        <4> DEFINE q == [request[r] EXCEPT !.saw = rows, !.stage = "refresh", !.conn = None]
        <4>1. /\ q \in S!Request /\ q.conn = None /\ Seated(q, setting')
          BY <2>0, <3>1, <3>3 DEF S!Request, Seated
        <4>2. request' = [request EXCEPT ![r] = q]
          BY <1>1, <3>3
        <4>3. Ended(request[r].conn)
          BY <1>1, <3>1, <3>3, SessionsEnded
        <4> QED BY <1>1, <2>5, <3>1, <4>1, <4>2, <4>3, SessionsTurn DEF S!Handle, Ended
      <3> QED BY <2>5, <3>2, <3>3 DEF S!Handle
    <2>6. CASE S!Refresh(r)
      <3>1. PICK c \in S!Free :
              request' = [request EXCEPT ![r].conn = c, ![r].stage = "close", ![r].thread = FALSE,
                                         ![r].saw = S!Rows(setting[c], request[r].ws),
                                         ![r].confined = FALSE]
        BY <2>6 DEF S!Refresh
      <3> DEFINE rows == S!Rows(setting[c], request[r].ws)
                 q == [request[r] EXCEPT !.conn = c, !.stage = "close", !.thread = FALSE,
                                         !.saw = rows, !.confined = FALSE]
      <3>2. /\ c \in Connections /\ setting[c] \in Unset /\ request[r].conn = None
            /\ UNCHANGED <<setting, loop>> /\ loop # r
        BY <2>0, <2>6 DEF S!Refresh, S!InThread, SessionsInv, S!Free, Seated
      <3>3. rows \in {"all", "error"}
        BY <3>2, RowsSeen
      <3>4. q \in S!Request /\ Seated(q, setting) /\ q.conn = c
        BY <2>0, <3>2, <3>3 DEF S!Request, Seated
      <3>5. request' = [request EXCEPT ![r] = q]
        BY <1>1, <3>1
      <3> QED BY <1>1, <3>2, <3>4, <3>5, SessionsTurn
    <2>7. CASE S!Close(r)
      <3>1. S!Idle \in S!Request /\ S!Idle.conn = None /\ Seated(S!Idle, setting')
        BY DEF S!Idle, S!Request, Seated
      <3>2. request' = [request EXCEPT ![r] = S!Idle] /\ UNCHANGED loop /\ loop # r
        BY <2>0, <2>7 DEF S!Close, S!InThread
      <3>3. CASE request[r].conn = None
        BY <1>1, <2>7, <3>1, <3>2, <3>3, SessionsTurn DEF S!Close
      <3>4. CASE request[r].conn # None
        <4>1. Ended(request[r].conn)
          BY <1>1, <2>0, <2>7, <3>4, SessionsEnded DEF S!Close
        <4> QED BY <1>1, <3>1, <3>2, <4>1, SessionsTurn DEF Ended
      <3> QED BY <3>3, <3>4
    <2>8. CASE S!TimesOut(r)
      <3> DEFINE q == [request[r] EXCEPT !.stage = "close", !.thread = FALSE]
      <3>1. request' = [request EXCEPT ![r] = q]
        BY <1>1, <2>8 DEF S!TimesOut
      <3>2. /\ UNCHANGED setting /\ loop' \in Slots \cup {None}
            /\ request[r].stage \in {"auth", "refresh", "hook"}
            /\ loop' # None => loop' = loop /\ loop # r
        BY <1>1, <2>0, <2>8 DEF S!TimesOut, S!GivesUp, S!AsksPool, S!InThread
      <3>3. q \in S!Request /\ Seated(q, setting) /\ q.conn = request[r].conn
        BY <2>0, <3>1, <3>2 DEF S!Request, Seated
      <3> QED BY <1>1, <3>1, <3>2, <3>3, SessionsTurn
    <2>9. CASE S!RunHook(r)
      <3> DEFINE q == [request[r] EXCEPT !.stage = "close"]
      <3>1. /\ request' = [request EXCEPT ![r] = q] /\ UNCHANGED setting /\ loop' = None
        BY <1>1, <2>9 DEF S!RunHook
      <3>2. request[r].stage = "hook"
        BY <2>0, <2>9 DEF S!RunHook
      <3>3. q \in S!Request /\ Seated(q, setting) /\ q.conn = request[r].conn
        BY <2>0, <3>2 DEF S!Request, Seated
      <3> QED BY <1>1, <3>1, <3>3, SessionsTurn
    <2> QED BY <1>5, <2>1, <2>2, <2>3, <2>4, <2>5, <2>6, <2>7, <2>8, <2>9 DEF S!Run
  <1> QED BY <1>3, <1>4, <1>5 DEF S!Next

\* No query sees another workspace's rows, and between its authorization and its commit a request
\* sees its own workspace's alone: for any number of requests, connections and workspaces, however
\* their steps and the pool's interleave (core/rls.py, core/database.py).
THEOREM RowsStayConfined == SpecAll => []ConfinedToWorkspace
  <1> DEFINE Inv == subject = "sessions" => SessionsInv
  <1>1. InitAll => Inv
    BY SessionsStart DEF InitAll
  <1>2. Inv /\ [NextAll]_all => Inv'
    BY SessionsSteps, SessionsStep
  <1>3. Inv => ConfinedToWorkspace
    BY DEF SessionsInv, Seated, ConfinedToWorkspace, S!ConfinedToWorkspace
  <1> QED BY <1>1, <1>2, <1>3, PTL DEF SpecAll

\* What runs in a thread or on the loop can take its step: with a connection, or without one once
\* the pool gives up.
LEMMA CodeGoesOn ==
    ASSUME SessionsInv
    PROVE  /\ \A r \in Slots : request[r].thread => S!CanRun(r)
           /\ loop # None => S!CanRun(loop)
  <1>1. ASSUME NEW r \in Slots, request[r].thread PROVE S!CanRun(r)
    <2>1. request[r].stage \in {"auth", "role", "handler", "refresh", "close"}
      BY <1>1 DEF SessionsInv, Seated
    <2>2. CASE request[r].stage \in {"role", "handler", "close"}
      BY <1>1, <2>2 DEF S!CanRun, S!Proceeds, S!InThread
    <2>3. CASE request[r].stage \in {"auth", "refresh"}
      BY <1>1, <2>3 DEF S!CanRun, S!GivesUp, S!AsksPool, S!InThread
    <2> QED BY <2>1, <2>2, <2>3
  <1>2. loop # None => S!CanRun(loop)
    BY DEF S!CanRun, S!GivesUp, S!AsksPool
  <1> QED BY <1>1, <1>2

\* When every connection is taken, a request that holds one is past its checkout: it wants the loop
\* or a thread, and no connection.
LEMMA HolderGoesOn ==
    ASSUME SessionsInv, S!Free = {}, loop = None, S!ThreadLeft
    PROVE  \E s \in Slots : request[s].conn # None /\ (S!Proceeds(s) \/ S!CanDispatch(s))
  <1>1. PICK c \in Connections : TRUE
    BY PoolAssumption
  <1>2. PICK s \in Slots : request[s].conn = c
    BY <1>1 DEF S!Free
  <1>3. request[s].conn # None
    BY <1>2, PoolAssumption
  <1>4. request[s].stage \in {"role", "handler", "close"}
    <2>1. Seated(request[s], setting) /\ request[s] \in S!Request
      BY DEF SessionsInv, S!TypeOK
    <2> QED BY <1>3, <2>1 DEF Seated, S!Request
  <1>5. CASE request[s].thread
    BY <1>3, <1>4, <1>5 DEF S!Proceeds, S!InThread
  <1>6. CASE ~request[s].thread
    BY <1>3, <1>4, <1>6 DEF S!CanDispatch
  <1> QED BY <1>5, <1>6

\* Who waits for a thread waits for one that is taken, and whoever has it can go on.
LEMMA ThreadGoesOn ==
    ASSUME SessionsInv, ~S!ThreadLeft
    PROVE  \E s \in S!Busy : S!CanRun(s)
  <1>1. IsFiniteSet(S!Busy)
    BY PoolAssumption, FS_Subset DEF S!Busy
  <1>2. S!Busy # {}
    <2>1. Cardinality(S!Busy) \in Nat /\ Cardinality({}) = 0
      BY <1>1, FS_CardinalityType, FS_EmptySet
    <2>2. ~(Cardinality(S!Busy) < Threads) /\ Threads \in Nat \ {0}
      <3>1. S!Cardinality(S!Busy) = Cardinality(S!Busy)
        BY DEF S!Cardinality, Cardinality
      <3> QED BY <3>1, PoolAssumption DEF S!ThreadLeft
    <2> QED BY <2>1, <2>2
  <1>3. PICK s \in S!Busy : TRUE
    BY <1>2
  <1>4. s \in Slots /\ request[s].thread
    BY <1>3 DEF S!Busy
  <1> QED BY <1>3, <1>4, CodeGoesOn

\* No cycle of waiting is closed: for any number of requests, connections and threads, a request
\* that has come can move or waits for the loop or for threads whose own requests can, and only
\* when the loop or every thread itself waits for a connection is it the pool's timeout that
\* opens the circle (core/database.py, api/billing.py).
THEOREM RequestsKeepMoving == SpecAll => []EveryRequestCanMove
  <1> DEFINE Inv == subject = "sessions" => SessionsInv
  <1>1. InitAll => Inv
    BY SessionsStart DEF InitAll
  <1>2. Inv /\ [NextAll]_all => Inv'
    BY SessionsSteps, SessionsStep
  <1>3. ASSUME SessionsInv, NEW r \in Slots, request[r].stage # "idle"
        PROVE  /\ \/ S!CanRun(r) \/ S!CanDispatch(r)
                  \/ loop # None /\ S!CanRun(loop)
                  \/ ~S!ThreadLeft /\ \E s \in S!Busy : S!CanRun(s)
               /\ S!AsksPool(r) /\ S!Free = {} /\ loop = None /\ S!ThreadLeft =>
                    \E s \in Slots : request[s].conn # None /\ (S!Proceeds(s) \/ S!CanDispatch(s))
    <2>1. CASE request[r].thread
      BY <1>3, <2>1, CodeGoesOn, HolderGoesOn
    <2>2. CASE loop # None
      BY <1>3, <2>2, CodeGoesOn
    <2>3. CASE ~S!ThreadLeft
      BY <1>3, <2>3, ThreadGoesOn
    <2>4. CASE ~request[r].thread /\ loop = None /\ S!ThreadLeft
      <3>1. S!CanDispatch(r)
        BY <1>3, <2>4 DEF S!CanDispatch
      <3> QED BY <1>3, <3>1, HolderGoesOn
    <2> QED BY <2>1, <2>2, <2>3, <2>4
  <1>4. Inv => EveryRequestCanMove
    BY <1>3 DEF EveryRequestCanMove, S!EveryRequestCanMove
  <1> QED BY <1>1, <1>2, <1>4, PTL DEF SpecAll
===============================================================================
