----------------------------- MODULE RateLimit -----------------------------
(***************************************************************************)
(* rate_limit of app/api/deps.py: at most Max requests of a user in a      *)
(* window of Length ticks.  Redis counts them under a key that names the   *)
(* window, with two commands, INCR and EXPIRE, between which the process   *)
(* may die or Redis become unreachable.  Whatever Redis cannot answer is   *)
(* let through.                                                            *)
(***************************************************************************)
EXTENDS Integers, FiniteSets

CONSTANTS
    Requests,      \* requests of one user in flight at once
    Max,           \* max_requests
    Length,        \* window_seconds
    EndOfTime      \* bound on the clock

VARIABLES
    now,
    counter,       \* Redis: the window named in the key -> its count and when it expires
    reachable,     \* Redis answers
    step,          \* request -> what the dependency does next
    passed,        \* window -> how many of its requests were let through, up to Max + 1
    refused,       \* windows one of whose requests was refused
    disturbed      \* windows whose count may have been lost or come too late

vars == <<now, counter, reachable, step, passed, refused, disturbed>>

WindowAt(t) == t \div Length
Windows == 0..WindowAt(EndOfTime)

\* A key that is not there counts from zero.  A count beyond Max + 1 means the same as Max + 1.
Never == EndOfTime + Length + 1
NoKey == [count |-> 0, expires |-> Never]
Capped(n) == IF n > Max + 1 THEN Max + 1 ELSE n

\* window: the one it came in; key: the one in the name of its counter
Start == [pc |-> "idle", window |-> 0, key |-> 0, count |-> 0]

TypeOK ==
    /\ now \in 0..EndOfTime
    /\ counter \in [Windows -> [count : 0..(Max + 1), expires : 0..Never]]
    /\ reachable \in BOOLEAN
    /\ step \in [Requests -> [pc : {"idle", "incr", "expire", "compare"}, window : Windows,
                              key : Windows, count : 0..(Max + 1)]]
    /\ passed \in [Windows -> 0..(Max + 1)]
    /\ refused \subseteq Windows /\ disturbed \subseteq Windows

Current == {WindowAt(now)} \cup {step[r].window : r \in {q \in Requests : step[q].pc # "idle"}}

---------------------------------------------------------------------------
\* compute_fixed_window names the key.
KeyAlways(t) == 0
KeyWindow(t) == t \div Length

Arrive(r) ==
    /\ step[r].pc = "idle"
    /\ step' = [step EXCEPT ![r] = [pc |-> "incr", window |-> WindowAt(now),
                                    key |-> KeyWindow(now), count |-> 0]]
    /\ UNCHANGED <<now, counter, reachable, passed, refused, disturbed>>

\* Counted after its window has ended, it may find the key gone.
Incr(r) ==
    /\ step[r].pc = "incr" /\ reachable
    /\ LET n == Capped(counter[step[r].key].count + 1) IN
        /\ counter' = [counter EXCEPT ![step[r].key].count = n]
        /\ step' = [step EXCEPT ![r].count = n, ![r].pc = IF n = 1 THEN "expire" ELSE "compare"]
    /\ disturbed' = IF WindowAt(now) = step[r].window THEN disturbed
                    ELSE disturbed \cup {step[r].window}
    /\ UNCHANGED <<now, reachable, passed, refused>>

\* EXPIRE does nothing to a key that is not there.
Expire(r) ==
    /\ step[r].pc = "expire" /\ reachable
    /\ LET k == step[r].key IN
        counter' = IF counter[k].count = 0 THEN counter
                   ELSE [counter EXCEPT ![k].expires = now + Length]
    /\ step' = [step EXCEPT ![r].pc = "compare"]
    /\ UNCHANGED <<now, reachable, passed, refused, disturbed>>

LetThrough(r) ==
    /\ passed' = [passed EXCEPT ![step[r].window] = Capped(@ + 1)]
    /\ step' = [step EXCEPT ![r] = Start]
    /\ UNCHANGED refused

Compare(r) ==
    /\ step[r].pc = "compare"
    /\ IF step[r].count <= Max THEN LetThrough(r)
       ELSE /\ refused' = refused \cup {step[r].window}
            /\ step' = [step EXCEPT ![r] = Start]
            /\ UNCHANGED passed
    /\ UNCHANGED <<now, counter, reachable, disturbed>>

\* RedisError in either command: the counter keeps what it has, the request passes.
FailOpen(r) ==
    /\ step[r].pc \in {"incr", "expire"} /\ ~reachable
    /\ LetThrough(r)
    /\ UNCHANGED <<now, counter, reachable, disturbed>>

\* The process dies; a count that has just been created never gets its expiry.
Die(r) ==
    /\ step[r].pc \in {"expire", "compare"}
    /\ step' = [step EXCEPT ![r] = Start]
    /\ disturbed' = disturbed \cup {step[r].window}
    /\ UNCHANGED <<now, counter, reachable, passed, refused>>

---------------------------------------------------------------------------
LoseRedis ==
    /\ reachable /\ reachable' = FALSE
    /\ disturbed' = disturbed \cup Current
    /\ UNCHANGED <<now, counter, step, passed, refused>>

\* Redis is back, with what it knew or, after a restart, with nothing.
FindRedis ==
    /\ ~reachable /\ reachable' = TRUE
    /\ counter' \in {counter, [w \in Windows |-> NoKey]}
    /\ disturbed' = disturbed \cup Current
    /\ UNCHANGED <<now, step, passed, refused>>

\* Keys that have come to their time are gone.
Tick ==
    /\ now < EndOfTime
    /\ now' = now + 1
    /\ counter' = [w \in Windows |-> IF counter[w].expires <= now' THEN NoKey ELSE counter[w]]
    /\ disturbed' = IF reachable THEN disturbed ELSE disturbed \cup {WindowAt(now')}
    /\ UNCHANGED <<reachable, step, passed, refused>>

Init ==
    /\ now = 0
    /\ counter = [w \in Windows |-> NoKey]
    /\ reachable = TRUE
    /\ step = [r \in Requests |-> Start]
    /\ passed = [w \in Windows |-> 0]
    /\ refused = {} /\ disturbed = {}

Next ==
    \/ \E r \in Requests : \/ Arrive(r) \/ Incr(r) \/ Expire(r) \/ Compare(r) \/ FailOpen(r)
                           \/ Die(r)
    \/ LoseRedis \/ FindRedis \/ Tick

Spec == Init /\ [][Next]_vars

---------------------------------------------------------------------------
(* Properties *)

\* Of the requests that come in one window at most Max pass, and one is refused only if Max of
\* that same window pass, in every window whose count was neither lost nor late: a counter that
\* missed its EXPIRE, or that outlives its window, never reaches into another one
\* (app/api/deps.py).
Passing(w) == {r \in Requests : /\ step[r].pc \in {"expire", "compare"}
                                /\ step[r].window = w /\ step[r].count <= Max}
LimitIsPerWindow ==
    \A w \in Windows \ disturbed :
        /\ passed[w] <= Max
        /\ w \in refused => passed[w] + Cardinality(Passing(w)) = Max
=============================================================================
