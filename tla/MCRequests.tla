----------------------------- MODULE MCRequests -----------------------------
(* Small instances of what a request passes and of what it asks for. *)
EXTENDS Backend, TLC

CONSTANTS u1, u2, a1, a2, t1, t2, t3

\* Columns of five rows: duplicates, outliers, gaps, padded words, a number among words, no value
\* at all.  A text is written as Cleaning's Word and Digits write it: whether a word is padded comes
\* last.
a == <<"word", "a", FALSE>>
b == <<"word", "b", FALSE>>
pad == <<"word", "a", TRUE>>
two == <<"digits", 2>>
SomeNames == {<<a, a, b, pad, None>>, <<a, b, a, b, a>>, <<pad, pad, pad, a, pad>>,
              <<None, two, None, pad, b>>}
SomeAmounts == {<<2, 2, 4, 20, 4>>, <<2, 4, 2, 4, 2>>, <<None, 2, 4, 6, 40>>, <<2, 2, 2, 2, 30>>,
                <<None, 2, 2, None, 6>>, <<None, None, None, None, None>>}

\* Two sets stand for whatever comes in twos: u1 and u2 for users, requests, identities, people and
\* readers, a1 and a2 for addresses, e-mails and posts; t1, t2 and t3 are Sessions' requests.  Within
\* each set its members are interchangeable: Init and every action treat them alike, and only
\* safety is checked.
Symmetry == Permutations({u1, u2}) \cup Permutations({a1, a2}) \cup Permutations({t1, t2, t3})
=============================================================================
