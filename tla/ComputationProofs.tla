-------------------------- MODULE ComputationProofs ---------------------------
(*****************************************************************************)
(* What is computed from data: cleaned versions and trained models; and the  *)
(* types of everything Backend brings together.                              *)
(*****************************************************************************)
EXTENDS AccessProofs, PassageProofs, ContentProofs

(*****************************************************************************)
(* Sums                                                                      *)
(*                                                                           *)
(* Cleaning and Training add numbers up as the cardinality of a disjoint     *)
(* union, in which every summand is a stack of its own.                      *)
(*****************************************************************************)

Stacks(E, W) == UNION {{i} \X W[i] : i \in E}

\* Finitely many finite stacks are finite.
LEMMA StacksFinite ==
    ASSUME NEW E, IsFiniteSet(E), NEW W, \A i \in E : IsFiniteSet(W[i])
    PROVE  IsFiniteSet(Stacks(E, W)) /\ Cardinality(Stacks(E, W)) \in Nat
  <1> DEFINE f == [i \in E |-> {i} \X W[i]]
             stacks == {{i} \X W[i] : i \in E}
  <1>1. f \in Surjection(E, stacks)
    BY DEF Surjection
  <1>2. IsFiniteSet(stacks)
    BY <1>1, FS_Surjection
  <1>3. \A i \in E : IsFiniteSet({i} \X W[i])
    <2> TAKE i \in E
    <2>1. IsFiniteSet({i}) /\ IsFiniteSet(W[i])
      BY FS_Singleton
    <2> QED BY <2>1, FS_Product
  <1>4. IsFiniteSet(UNION stacks)
    <2>1. \A s \in stacks : IsFiniteSet(s)
      BY <1>3
    <2> HIDE DEF stacks
    <2> QED BY <1>2, <2>1, FS_UNION
  <1> QED BY <1>4, FS_CardinalityType DEF Stacks

\* One more stack adds its own size.
LEMMA StacksAdd ==
    ASSUME NEW E, IsFiniteSet(E), NEW W, \A i \in E : IsFiniteSet(W[i]),
           NEW x, x \notin E, IsFiniteSet(W[x])
    PROVE  Cardinality(Stacks(E \cup {x}, W)) = Cardinality(Stacks(E, W)) + Cardinality(W[x])
  <1> DEFINE P == {x} \X W[x]
  <1>1. IsFiniteSet(P) /\ Cardinality(P) = Cardinality(W[x])
    <2>1. IsFiniteSet({x}) /\ Cardinality({x}) = 1
      BY FS_Singleton
    <2>2. IsFiniteSet(P) /\ Cardinality(P) = Cardinality({x}) * Cardinality(W[x])
      BY <2>1, FS_Product
    <2>3. Cardinality(W[x]) \in Nat
      BY FS_CardinalityType
    <2> QED BY <2>1, <2>2, <2>3
  <1>2. Stacks(E \cup {x}, W) = Stacks(E, W) \cup P
    BY DEF Stacks
  <1>3. Stacks(E, W) \cap P = {}
    BY DEF Stacks
  <1>4. IsFiniteSet(Stacks(E, W)) /\ Cardinality(Stacks(E, W)) \in Nat
    BY StacksFinite
  <1>5. Cardinality(W[x]) \in Nat /\ Cardinality({}) = 0
    BY FS_CardinalityType, FS_EmptySet
  <1> HIDE DEF P
  <1>6. Cardinality(Stacks(E, W) \cup P)
          = Cardinality(Stacks(E, W)) + Cardinality(P) - Cardinality(Stacks(E, W) \cap P)
    BY <1>1, <1>4, FS_Union
  <1>7. Cardinality(Stacks(E, W) \cap P) = 0
    BY <1>3, <1>5
  <1>8. Cardinality(Stacks(E \cup {x}, W)) = Cardinality(Stacks(E, W) \cup P)
    BY <1>2
  <1>9. \A k, p \in Nat : k + p - 0 = k + p
    OBVIOUS
  <1> QED BY <1>1, <1>4, <1>5, <1>6, <1>7, <1>8, <1>9

\* A sum over fewer stacks is no greater.
LEMMA StacksMonotone ==
    ASSUME NEW E, IsFiniteSet(E), NEW W, \A i \in E : IsFiniteSet(W[i]), NEW D, D \subseteq E
    PROVE  Cardinality(Stacks(D, W)) <= Cardinality(Stacks(E, W))
  <1>1. Stacks(D, W) \subseteq Stacks(E, W)
    BY DEF Stacks
  <1> QED BY <1>1, StacksFinite, FS_Subset

(*****************************************************************************)
(* Cleaning                                                                  *)
(*                                                                           *)
(* The log accounts for every row that is gone and every cell that differs,  *)
(* for every frame and every number of operations.                           *)
(*                                                                           *)
(* LineageAccounts counts a column's differing cells; what an operation      *)
(* adds to them depends on whether they had a value to begin with.  The      *)
(* invariant therefore counts those that had apart: they are always within   *)
(* the log, and those that had none are too until a trim makes texts of      *)
(* them.                                                                     *)
(*****************************************************************************)

LEMMA CleaningCounts == \A set : K!Cardinality(set) = Cardinality(set)
  BY DEF K!Cardinality, Cardinality

Cell(x) == \/ x = K!Missing
           \/ \E n : x = K!Number(n) \/ x = K!Digits(n)
           \/ \E w, b : b \in BOOLEAN /\ x = K!Word(w, b)
Celled(f) == \A i \in DOMAIN f, c \in K!Columns : Cell(f[i][c])

LogEntry == [op : K!Ops, columns : SUBSET K!Columns, affected : Nat]
Counts(es) == [i \in DOMAIN es |-> 1..es[i].affected]

\* The cells that had a value, and are written differently.
Altered(c) == {i \in DOMAIN frame : /\ K!Text(frame[i][c]) # K!Text(origin[i][c])
                                    /\ origin[i][c] # K!Missing}

CleanTypes ==
    /\ IsFiniteSet(DOMAIN origin)
    /\ DOMAIN frame \subseteq DOMAIN origin
    /\ \A i \in DOMAIN frame : DOMAIN frame[i] = K!Columns
    /\ Celled(frame)
    /\ log \in Seq(LogEntry)
    /\ \A i \in DOMAIN log : log[i].affected <= 2 * Cardinality(DOMAIN origin)

CleanInv ==
    /\ CleanTypes
    /\ cleaning \in {"apply", "saved", "rejected", "failed"}
    /\ dtype \in [K!Columns -> {"object", "string", "number"}]
    /\ cleaning = "saved" => DOMAIN frame # {}
    /\ Cardinality(DOMAIN origin) - Cardinality(DOMAIN frame) = K!Affected(log, K!Drops(log))
    /\ \A c \in K!Columns :
         /\ Cardinality(Altered(c)) <= K!Affected(log, K!Changes(log, c))
         /\ K!Blind(log, c) \/ Cardinality(K!Changed(c)) <= K!Affected(log, K!Changes(log, c))

\* The sum over a log's entries is one of stacks.
LEMMA AffectedStacks ==
    ASSUME NEW es \in Seq(LogEntry), NEW E, E \subseteq DOMAIN es
    PROVE  /\ K!Affected(es, E) = Cardinality(Stacks(E, Counts(es)))
           /\ IsFiniteSet(E) /\ \A i \in E : IsFiniteSet(Counts(es)[i])
           /\ K!Affected(es, E) \in Nat
  <1>1. {{i} \X (1..es[i].affected) : i \in E} = {{i} \X Counts(es)[i] : i \in E}
    BY DEF Counts
  <1>2. K!Affected(es, E) = Cardinality(Stacks(E, Counts(es)))
    BY <1>1, CleaningCounts DEF K!Affected, Stacks
  <1>3. IsFiniteSet(E)
    <2>1. DOMAIN es = 1..Len(es) /\ Len(es) \in Nat
      OBVIOUS
    <2>2. IsFiniteSet(1..Len(es))
      BY <2>1, FS_Interval
    <2> QED BY <2>1, <2>2, FS_Subset
  <1>4. ASSUME NEW i \in E PROVE IsFiniteSet(Counts(es)[i])
    <2>1. es[i] \in LogEntry
      BY <1>4
    <2> QED BY <1>4, <2>1, FS_Interval DEF Counts, LogEntry
  <1> QED BY <1>2, <1>3, <1>4, StacksFinite

\* A new entry leaves the sums over the others as they are, and adds its count to those it is in.
LEMMA AffectedGrows ==
    ASSUME NEW es \in Seq(LogEntry), NEW e \in LogEntry, NEW E, E \subseteq DOMAIN es
    PROVE  /\ K!Affected(Append(es, e), E) = K!Affected(es, E)
           /\ K!Affected(Append(es, e), E \cup {Len(es) + 1}) = K!Affected(es, E) + e.affected
  <1> DEFINE fs == Append(es, e)
             n == Len(es) + 1
  <1>1. /\ fs \in Seq(LogEntry) /\ DOMAIN fs = DOMAIN es \cup {n} /\ n \notin DOMAIN es
        /\ fs[n] = e /\ \A i \in DOMAIN es : fs[i] = es[i]
    OBVIOUS
  <1> HIDE DEF fs, n
  <1>2. Stacks(E, Counts(fs)) = Stacks(E, Counts(es))
    <2>1. \A i \in E : Counts(fs)[i] = Counts(es)[i]
      BY <1>1 DEF Counts
    <2>2. {{i} \X Counts(fs)[i] : i \in E} = {{i} \X Counts(es)[i] : i \in E}
      BY <2>1
    <2> QED BY <2>2 DEF Stacks
  <1>3. K!Affected(fs, E) = K!Affected(es, E)
    BY <1>1, <1>2, AffectedStacks
  <1>4. /\ E \cup {n} \subseteq DOMAIN fs /\ n \notin E
    BY <1>1
  <1>5. Counts(fs)[n] = 1..e.affected /\ e.affected \in Nat
    BY <1>1 DEF Counts, LogEntry
  <1>6. Cardinality(Counts(fs)[n]) = e.affected /\ IsFiniteSet(Counts(fs)[n])
    BY <1>5, FS_Interval
  <1>7. K!Affected(fs, E \cup {n}) = Cardinality(Stacks(E \cup {n}, Counts(fs)))
    BY <1>1, <1>4, AffectedStacks
  <1>8. Cardinality(Stacks(E \cup {n}, Counts(fs))) = Cardinality(Stacks(E, Counts(fs))) + e.affected
    <2>1. IsFiniteSet(E) /\ \A i \in E : IsFiniteSet(Counts(fs)[i])
      BY <1>1, AffectedStacks
    <2> QED BY <1>4, <1>6, <2>1, StacksAdd
  <1>9. K!Affected(fs, E) = Cardinality(Stacks(E, Counts(fs)))
    BY <1>1, AffectedStacks
  <1> QED BY <1>3, <1>7, <1>8, <1>9 DEF fs, n

\* What a new entry is one of.
LEMMA LogSets ==
    ASSUME NEW es \in Seq(LogEntry), NEW e \in LogEntry, NEW c
    PROVE  /\ K!Drops(es) \subseteq DOMAIN es /\ K!Changes(es, c) \subseteq DOMAIN es
           /\ K!Drops(Append(es, e)) =
                IF e.op \in K!Dropping THEN K!Drops(es) \cup {Len(es) + 1} ELSE K!Drops(es)
           /\ K!Changes(Append(es, e), c) =
                IF c \in e.columns /\ e.op \notin K!Dropping
                THEN K!Changes(es, c) \cup {Len(es) + 1} ELSE K!Changes(es, c)
           /\ K!Blind(es, c) => K!Blind(Append(es, e), c)
           /\ e.op = "trim_whitespace" /\ c \in e.columns => K!Blind(Append(es, e), c)
  <1> DEFINE fs == Append(es, e)
             n == Len(es) + 1
  <1>1. /\ DOMAIN fs = DOMAIN es \cup {n} /\ n \notin DOMAIN es
        /\ fs[n] = e /\ \A i \in DOMAIN es : fs[i] = es[i]
    OBVIOUS
  <1> HIDE DEF fs, n
  <1>2. K!Drops(fs) = IF e.op \in K!Dropping THEN K!Drops(es) \cup {n} ELSE K!Drops(es)
    BY <1>1 DEF K!Drops
  <1>3. K!Changes(fs, c) = IF c \in e.columns /\ e.op \notin K!Dropping
                           THEN K!Changes(es, c) \cup {n} ELSE K!Changes(es, c)
    BY <1>1 DEF K!Changes
  <1>4. /\ K!Blind(es, c) => K!Blind(fs, c)
        /\ e.op = "trim_whitespace" /\ c \in e.columns => K!Blind(fs, c)
    BY <1>1 DEF K!Blind
  <1> QED BY <1>2, <1>3, <1>4 DEF fs, n, K!Drops, K!Changes

\* What is in one of two sets is no more than both.
LEMMA WithinBoth ==
    ASSUME NEW a, IsFiniteSet(a), NEW b, IsFiniteSet(b), NEW c, c \subseteq a \cup b
    PROVE  Cardinality(c) \in Nat /\ Cardinality(c) <= Cardinality(a) + Cardinality(b)
  <1>1. /\ IsFiniteSet(a \cup b)
        /\ Cardinality(a \cup b) = Cardinality(a) + Cardinality(b) - Cardinality(a \cap b)
    BY FS_Union
  <1>2. IsFiniteSet(c) /\ Cardinality(c) <= Cardinality(a \cup b)
    BY <1>1, FS_Subset
  <1>3. IsFiniteSet(a \cap b)
    BY FS_Subset
  <1>4. /\ Cardinality(a) \in Nat /\ Cardinality(b) \in Nat /\ Cardinality(c) \in Nat
        /\ Cardinality(a \cap b) \in Nat /\ Cardinality(a \cup b) \in Nat
    BY <1>1, <1>2, <1>3, FS_CardinalityType
  <1> QED BY <1>1, <1>2, <1>4

\* What a logged operation e makes of column c, where at most its count of cells change that are not
\* in turn the blank spots of a trim.
Tallied(f, g, e, c) ==
    IF c \notin e.columns THEN \A i \in DOMAIN f : g[i][c] = f[i][c]
    ELSE \E new \in SUBSET DOMAIN f :
            /\ Cardinality(new) <= e.affected
            /\ \A i \in DOMAIN f \ new :
                 K!Text(g[i][c]) # K!Text(f[i][c]) =>
                     f[i][c] = K!Missing /\ e.op = "trim_whitespace"

\* Nothing but a missing value is written as one.
LEMMA TextOfMissing == K!Text(K!Missing) = K!Missing /\ \A x : K!Text(x) = K!Missing => x = K!Missing
  <1>1. ASSUME NEW x, x[1] = "number" PROVE K!Text(x) # K!Missing
    BY <1>1 DEF K!Text, K!Digits, K!Missing
  <1>2. K!Missing[1] # "number"
    BY DEF K!Missing
  <1> QED BY <1>1, <1>2 DEF K!Text

\* The invariant after an operation that drops rows and counts them, or covers every column.
LEMMA OperationAccounts ==
    ASSUME CleanInv, cleaning = "apply", UNCHANGED <<cleaning, origin>>,
           dtype' \in [K!Columns -> {"object", "string", "number"}],
           NEW e \in LogEntry, e.affected <= 2 * Cardinality(DOMAIN origin),
           log' = Append(log, e),
           DOMAIN frame' \subseteq DOMAIN frame, Celled(frame'),
           \A i \in DOMAIN frame' : DOMAIN frame'[i] = K!Columns,
           e.op \in K!Dropping =>
               /\ Cardinality(DOMAIN frame') = Cardinality(DOMAIN frame) - e.affected
               /\ \A i \in DOMAIN frame' : frame'[i] = frame[i],
           e.op \notin K!Dropping =>
               /\ DOMAIN frame' = DOMAIN frame
               /\ \A c \in K!Columns : Tallied(frame, frame', e, c)
    PROVE  CleanInv'
  <1>1. CleanTypes /\ e.affected \in Nat
    BY DEF CleanInv, LogEntry
  <1>2. CleanTypes'
    <2>1. /\ log' \in Seq(LogEntry) /\ DOMAIN log' = DOMAIN log \cup {Len(log) + 1}
          /\ log'[Len(log) + 1] = e /\ \A i \in DOMAIN log : log'[i] = log[i]
      BY <1>1 DEF CleanTypes
    <2> QED BY <1>1, <2>1 DEF CleanTypes
  <1>3. log \in Seq(LogEntry) /\ IsFiniteSet(DOMAIN frame) /\ IsFiniteSet(DOMAIN frame')
    BY <1>1, <1>2, FS_Subset DEF CleanTypes
  <1>4. /\ Cardinality(DOMAIN origin) \in Nat /\ Cardinality(DOMAIN frame) \in Nat
        /\ Cardinality(DOMAIN frame') \in Nat
    BY <1>1, <1>3, FS_CardinalityType DEF CleanTypes
  <1>5. Cardinality(DOMAIN origin) - Cardinality(DOMAIN frame') = K!Affected(log', K!Drops(log'))
    <2>1. Cardinality(DOMAIN origin) - Cardinality(DOMAIN frame) = K!Affected(log, K!Drops(log))
      BY DEF CleanInv
    <2>2. K!Drops(log) \subseteq DOMAIN log
      BY <1>3, LogSets
    <2>3. CASE e.op \in K!Dropping
      <3>1. K!Affected(log', K!Drops(log')) = K!Affected(log, K!Drops(log)) + e.affected
        <4>1. K!Drops(log') = K!Drops(log) \cup {Len(log) + 1}
          BY <1>3, <2>3, LogSets
        <4>2. K!Affected(log', K!Drops(log) \cup {Len(log) + 1})
                = K!Affected(log, K!Drops(log)) + e.affected
          BY <1>3, <2>2, AffectedGrows
        <4> QED BY <4>1, <4>2
      <3> QED BY <1>1, <1>4, <2>1, <2>3, <3>1
    <2>4. CASE e.op \notin K!Dropping
      <3>1. K!Affected(log', K!Drops(log')) = K!Affected(log, K!Drops(log))
        <4>1. K!Drops(log') = K!Drops(log)
          BY <1>3, <2>4, LogSets
        <4>2. K!Affected(Append(log, e), K!Drops(log)) = K!Affected(log, K!Drops(log))
          BY <1>3, <2>2, AffectedGrows
        <4> QED BY <4>1, <4>2
      <3> QED BY <2>1, <2>4, <3>1
    <2> QED BY <2>3, <2>4
  <1>6. ASSUME NEW c \in K!Columns
        PROVE  /\ Cardinality(Altered(c)') <= K!Affected(log', K!Changes(log', c))
               /\ \/ K!Blind(log', c)
                  \/ Cardinality(K!Changed(c)') <= K!Affected(log', K!Changes(log', c))
    <2> DEFINE sum == K!Affected(log, K!Changes(log, c))
    <2>1. /\ K!Changes(log, c) \subseteq DOMAIN log /\ sum \in Nat
          /\ Cardinality(Altered(c)) <= sum
          /\ K!Blind(log, c) \/ Cardinality(K!Changed(c)) <= sum
      BY <1>3, LogSets, AffectedStacks DEF CleanInv
    <2>2. IsFiniteSet(Altered(c)) /\ IsFiniteSet(K!Changed(c))
      BY <1>3, FS_Subset DEF Altered, K!Changed
    <2>3. Cardinality(Altered(c)) \in Nat /\ Cardinality(K!Changed(c)) \in Nat
      BY <2>2, FS_CardinalityType
    <2>4. K!Blind(log, c) => K!Blind(log', c)
      BY <1>3, LogSets
    <2>5. CASE e.op \in K!Dropping \/ c \notin e.columns
      <3>1. K!Affected(log', K!Changes(log', c)) = sum
        <4>1. K!Changes(log', c) = K!Changes(log, c)
          BY <1>3, <2>5, LogSets
        <4>2. K!Affected(Append(log, e), K!Changes(log, c)) = K!Affected(log, K!Changes(log, c))
          BY <1>3, <2>1, AffectedGrows
        <4> QED BY <4>1, <4>2
      <3>2. \A i \in DOMAIN frame' : frame'[i][c] = frame[i][c]
        BY <2>5 DEF Tallied
      <3>3. Altered(c)' \subseteq Altered(c) /\ K!Changed(c)' \subseteq K!Changed(c)
        BY <3>2 DEF Altered, K!Changed
      <3>4. /\ Cardinality(Altered(c)') <= Cardinality(Altered(c))
            /\ Cardinality(K!Changed(c)') <= Cardinality(K!Changed(c))
            /\ Cardinality(Altered(c)') \in Nat /\ Cardinality(K!Changed(c)') \in Nat
        BY <2>2, <3>3, FS_Subset, FS_CardinalityType
      <3> HIDE DEF sum
      <3> QED BY <2>1, <2>3, <2>4, <3>1, <3>4
    <2>6. CASE e.op \notin K!Dropping /\ c \in e.columns
      <3>1. K!Affected(log', K!Changes(log', c)) = sum + e.affected
        BY <1>3, <2>1, <2>6, LogSets, AffectedGrows
      <3>2. PICK new \in SUBSET DOMAIN frame :
              /\ Cardinality(new) <= e.affected
              /\ \A i \in DOMAIN frame \ new :
                   K!Text(frame'[i][c]) # K!Text(frame[i][c]) =>
                      frame[i][c] = K!Missing /\ e.op = "trim_whitespace"
        BY <2>6 DEF Tallied
      <3>3. DOMAIN frame' = DOMAIN frame
        BY <2>6
      <3>4. IsFiniteSet(new) /\ Cardinality(new) \in Nat
        BY <1>3, FS_Subset, FS_CardinalityType
      <3>5. Altered(c)' \subseteq Altered(c) \cup new
        BY <3>2, <3>3, TextOfMissing DEF Altered
      <3>6. e.op # "trim_whitespace" => K!Changed(c)' \subseteq K!Changed(c) \cup new
        BY <3>2, <3>3 DEF K!Changed
      <3>7. e.op = "trim_whitespace" => K!Blind(log', c)
        BY <1>3, <2>6, LogSets
      <3>8. /\ Cardinality(Altered(c)') \in Nat
            /\ Cardinality(Altered(c)') <= Cardinality(Altered(c)) + Cardinality(new)
        BY <2>2, <3>4, <3>5, WithinBoth
      <3>9. e.op # "trim_whitespace" =>
              /\ Cardinality(K!Changed(c)') \in Nat
              /\ Cardinality(K!Changed(c)') <= Cardinality(K!Changed(c)) + Cardinality(new)
        BY <2>2, <3>4, <3>6, WithinBoth
      <3> HIDE DEF sum
      <3> QED BY <1>1, <2>1, <2>3, <2>4, <3>1, <3>2, <3>4, <3>7, <3>8, <3>9
    <2> QED BY <2>5, <2>6
  <1> QED BY <1>2, <1>5, <1>6 DEF CleanInv

\* A cell of each kind, as a text.
LEMMA CellKinds ==
    /\ Cell(K!Missing) /\ \A n : Cell(K!Number(n)) /\ Cell(K!Digits(n))
    /\ \A w, b : b \in BOOLEAN => Cell(K!Word(w, b))
  BY DEF Cell

LEMMA CellTexts ==
    /\ \A n : /\ K!Number(n)[1] = "number" /\ K!Number(n)[2] = n
              /\ K!Digits(n)[1] = "digits" /\ K!Digits(n)[2] = n
              /\ K!Text(K!Number(n)) = K!Digits(n) /\ K!Text(K!Digits(n)) = K!Digits(n)
    /\ \A w, b : /\ K!Word(w, b)[1] = "word" /\ K!Word(w, b)[2] = w /\ K!Word(w, b)[3] = b
                 /\ K!Text(K!Word(w, b)) = K!Word(w, b)
  <1>1. ASSUME NEW n
        PROVE  /\ K!Number(n)[1] = "number" /\ K!Number(n)[2] = n
               /\ K!Digits(n)[1] = "digits" /\ K!Digits(n)[2] = n
    BY DEF K!Number, K!Digits
  <1>2. ASSUME NEW w, NEW b
        PROVE  K!Word(w, b)[1] = "word" /\ K!Word(w, b)[2] = w /\ K!Word(w, b)[3] = b
    BY DEF K!Word
  <1> QED BY <1>1, <1>2 DEF K!Text

\* Stripping a cell that has a value makes it be written differently only if it is a padded word.
LEMMA StrippedCell ==
    ASSUME NEW x, Cell(x)
    PROVE  /\ Cell(K!Strip(x))
           /\ x # K!Missing /\ K!Text(K!Strip(x)) # K!Text(x) => K!IsWord(x) /\ x[3]
  <1>1. CASE x = K!Missing
    BY <1>1, CellKinds DEF K!Strip
  <1>2. ASSUME NEW n, x = K!Number(n) \/ x = K!Digits(n), x # K!Missing
        PROVE  Cell(K!Strip(x)) /\ K!Text(K!Strip(x)) = K!Text(x)
    <2>1. K!Strip(x) = K!Text(x)
      BY <1>2, CellTexts DEF K!Strip, K!IsWord
    <2>2. K!Text(x) = K!Digits(n)
      BY <1>2, CellTexts
    <2> QED BY <2>1, <2>2, CellTexts, CellKinds
  <1>3. ASSUME NEW w, NEW b \in BOOLEAN, x = K!Word(w, b), x # K!Missing
        PROVE  /\ Cell(K!Strip(x))
               /\ K!Text(K!Strip(x)) # K!Text(x) => K!IsWord(x) /\ x[3]
    <2>1. x[1] = "word" /\ x[2] = w /\ x[3] = b
      BY <1>3, CellTexts
    <2>2. K!Strip(x) = K!Word(w, FALSE)
      BY <1>3, <2>1 DEF K!Strip, K!IsWord
    <2>3. Cell(K!Word(w, FALSE)) /\ (b = FALSE => x = K!Word(w, FALSE))
      BY <1>3, CellKinds
    <2>4. b = TRUE \/ b = FALSE
      OBVIOUS
    <2> QED BY <2>1, <2>2, <2>3, <2>4 DEF K!IsWord
  <1> QED BY <1>1, <1>2, <1>3 DEF Cell

\* A cast makes a cell of a cell.
LEMMA CastCells ==
    ASSUME NEW x, Cell(x)
    PROVE  Cell(K!Numeric(x)) /\ Cell(K!Text(x))
  <1>1. CASE x = K!Missing
    <2>1. x[1] = "missing"
      BY <1>1 DEF K!Missing
    <2> QED BY <1>1, <2>1, CellKinds DEF K!Numeric, K!Text, K!IsWord
  <1>2. ASSUME NEW n, x = K!Number(n) \/ x = K!Digits(n) PROVE Cell(K!Numeric(x)) /\ Cell(K!Text(x))
    <2>1. K!Numeric(x) = K!Number(n)
      BY <1>2, CellTexts DEF K!Numeric, K!IsWord
    <2> QED BY <1>2, <2>1, CellTexts, CellKinds
  <1>3. ASSUME NEW w, NEW b \in BOOLEAN, x = K!Word(w, b) PROVE Cell(K!Numeric(x)) /\ Cell(K!Text(x))
    BY <1>3, CellTexts, CellKinds DEF K!Numeric, K!IsWord
  <1> QED BY <1>1, <1>2, <1>3 DEF Cell

\* The operations that drop rows.
LEMMA DropsRows ==
    ASSUME CleanInv, K!Applying, NEW op \in K!Dropping, NEW cols \in SUBSET K!Columns,
           NEW rows \in SUBSET DOMAIN frame, K!DropRows(op, cols, rows)
    PROVE  CleanInv'
  <1> DEFINE e == [op |-> op, columns |-> cols, affected |-> Cardinality(rows)]
  <1>1. CleanTypes /\ cleaning = "apply"
    BY DEF CleanInv, K!Applying
  <1>2. /\ frame' = [i \in DOMAIN frame \ rows |-> frame[i]] /\ log' = Append(log, e)
        /\ UNCHANGED <<dtype, cleaning, origin>>
    BY CleaningCounts DEF K!DropRows, K!Entry, K!Unmoved
  <1>3. IsFiniteSet(DOMAIN origin) /\ IsFiniteSet(DOMAIN frame) /\ IsFiniteSet(rows)
    BY <1>1, FS_Subset DEF CleanTypes
  <1>4. /\ Cardinality(rows) \in Nat /\ Cardinality(DOMAIN origin) \in Nat
        /\ Cardinality(rows) <= Cardinality(DOMAIN origin)
    BY <1>1, <1>3, FS_Subset, FS_CardinalityType DEF CleanTypes
  <1>5. e \in LogEntry /\ e.op = op /\ e.affected = Cardinality(rows)
    BY <1>4 DEF LogEntry, K!Dropping, K!Ops
  <1>6. e.affected <= 2 * Cardinality(DOMAIN origin)
    BY <1>4, <1>5
  <1>7. DOMAIN frame' = DOMAIN frame \ rows /\ \A i \in DOMAIN frame' : frame'[i] = frame[i]
    BY <1>2
  <1>8. Cardinality(DOMAIN frame') = Cardinality(DOMAIN frame) - e.affected
    <2>1. DOMAIN frame \cap rows = rows
      OBVIOUS
    <2>2. Cardinality(DOMAIN frame \ rows)
            = Cardinality(DOMAIN frame) - Cardinality(DOMAIN frame \cap rows)
      BY <1>3, FS_Difference
    <2> QED BY <1>5, <1>7, <2>1, <2>2
  <1>9. /\ DOMAIN frame' \subseteq DOMAIN frame /\ Celled(frame')
        /\ \A i \in DOMAIN frame' : DOMAIN frame'[i] = K!Columns
    BY <1>1, <1>7 DEF CleanTypes, Celled
  <1>10. dtype' \in [K!Columns -> {"object", "string", "number"}]
    BY <1>2 DEF CleanInv
  <1> HIDE DEF e
  <1> QED BY <1>1, <1>2, <1>5, <1>6, <1>7, <1>8, <1>9, <1>10, OperationAccounts

\* fill_nulls counts the cells that had no value.
LEMMA FillsColumn ==
    ASSUME CleanInv, K!Applying, NEW c \in K!Columns, NEW value, Cell(value),
           K!FillColumn(c, value)
    PROVE  CleanInv'
  <1> DEFINE gaps == K!MissingIn(frame, c)
             e == [op |-> "fill_nulls", columns |-> {c}, affected |-> Cardinality(gaps)]
  <1>1. CleanTypes /\ cleaning = "apply"
    BY DEF CleanInv, K!Applying
  <1>2. /\ frame' = K!Filled(frame, c, value) /\ log' = Append(log, e)
        /\ UNCHANGED <<cleaning, origin>>
        /\ dtype' = [dtype EXCEPT ![c] = IF @ = "number" /\ K!IsWord(value)
                                        THEN "object" ELSE @]
    BY CleaningCounts DEF K!FillColumn, K!Entry, K!Unmoved, K!NullsBefore
  <1>3. gaps \in SUBSET DOMAIN frame /\ \A i \in DOMAIN frame \ gaps : frame[i][c] # K!Missing
    BY DEF K!MissingIn, K!Present
  <1>4. IsFiniteSet(DOMAIN origin) /\ IsFiniteSet(gaps)
    BY <1>1, <1>3, FS_Subset DEF CleanTypes
  <1>5. /\ Cardinality(gaps) \in Nat /\ Cardinality(DOMAIN origin) \in Nat
        /\ Cardinality(gaps) <= Cardinality(DOMAIN origin)
    BY <1>1, <1>3, <1>4, FS_Subset, FS_CardinalityType DEF CleanTypes
  <1>6. /\ e \in LogEntry /\ e.op = "fill_nulls" /\ e.columns = {c}
        /\ e.affected = Cardinality(gaps) /\ e.op \notin K!Dropping
    BY <1>5 DEF LogEntry, K!Ops, K!Dropping
  <1>7. e.affected <= 2 * Cardinality(DOMAIN origin)
    BY <1>5, <1>6
  <1>8. /\ DOMAIN frame' = DOMAIN frame
        /\ \A i \in DOMAIN frame : DOMAIN frame'[i] = K!Columns
        /\ \A i \in DOMAIN frame, d \in K!Columns :
             frame'[i][d] = IF d = c /\ frame[i][d] = K!Missing THEN value ELSE frame[i][d]
    BY <1>1, <1>2 DEF CleanTypes, K!Filled
  <1>9. Celled(frame')
    BY <1>1, <1>8 DEF CleanTypes, Celled
  <1> HIDE DEF e, gaps
  <1>10. \A d \in K!Columns : Tallied(frame, frame', e, d)
    <2> TAKE d \in K!Columns
    <2>1. CASE d # c
      BY <1>6, <1>8, <2>1 DEF Tallied
    <2>2. CASE d = c
      <3>1. /\ Cardinality(gaps) <= e.affected
            /\ \A i \in DOMAIN frame \ gaps : frame'[i][c] = frame[i][c]
        BY <1>3, <1>5, <1>6, <1>8
      <3> QED BY <1>3, <1>6, <2>2, <3>1 DEF Tallied
    <2> QED BY <2>1, <2>2
  <1>11. dtype' \in [K!Columns -> {"object", "string", "number"}]
    BY <1>2 DEF CleanInv
  <1> QED BY <1>1, <1>2, <1>6, <1>7, <1>8, <1>9, <1>10, <1>11, OperationAccounts

\* Whatever strategy, a cell is filled with a cell.
LEMMA FillersAreCells ==
    ASSUME CleanInv, NEW c \in K!Columns
    PROVE  Cell(K!Median(frame, c)) /\ \A value \in K!Modes(frame, c) : Cell(value)
  <1>1. Celled(frame)
    BY DEF CleanInv, CleanTypes
  <1>2. Cell(K!Median(frame, c))
    BY CellKinds DEF K!Median
  <1>3. ASSUME NEW value \in K!Modes(frame, c) PROVE Cell(value)
    <2> DEFINE held == {frame[i][c] : i \in K!Present(frame, c)}
    <2>1. value \in held \/ value = K!Word("", FALSE)
      BY <1>3 DEF K!Modes
    <2>2. \A x \in held : Cell(x)
      BY <1>1 DEF Celled, K!Present
    <2> QED BY <2>1, <2>2, CellKinds
  <1> QED BY <1>2, <1>3

\* trim_whitespace counts the padded words, and leaves what it makes of missing values out.
LEMMA TrimsColumns ==
    ASSUME CleanInv, K!TrimWhitespace
    PROVE  CleanInv'
  <1>0. PICK cols \in SUBSET K!Columns :
           /\ frame' = K!Trimmed(frame, cols)
           /\ log' = Append(log, [op |-> "trim_whitespace", columns |-> cols,
                                  affected |-> Cardinality(K!PaddedCells(cols))])
           /\ dtype' = [c \in K!Columns |-> IF c \in cols THEN "object" ELSE dtype[c]]
    BY CleaningCounts DEF K!TrimWhitespace, K!Entry
  <1> DEFINE cells == K!PaddedCells(cols)
             e == [op |-> "trim_whitespace", columns |-> cols, affected |-> Cardinality(cells)]
  <1>1. CleanTypes /\ cleaning = "apply" /\ UNCHANGED <<cleaning, origin>>
    BY DEF CleanInv, K!TrimWhitespace, K!Applying, K!Unmoved
  <1>2. cells \subseteq (DOMAIN origin) \X K!Columns
    BY <1>1 DEF CleanTypes, K!PaddedCells, K!Padded, K!Present
  <1>3. IsFiniteSet(cells) /\ Cardinality(cells) \in Nat /\ Cardinality(DOMAIN origin) \in Nat
        /\ Cardinality(cells) <= 2 * Cardinality(DOMAIN origin)
    <2>1. IsFiniteSet(K!Columns) /\ Cardinality(K!Columns) = 2
      <3>1. IsFiniteSet({"name"}) /\ Cardinality({"name"}) = 1
        BY FS_Singleton
      <3>2. K!Columns = {"name"} \cup {"amount"} /\ "amount" \notin {"name"}
        BY DEF K!Columns
      <3> QED BY <3>1, <3>2, FS_AddElement
    <2>2. IsFiniteSet(DOMAIN origin) /\ Cardinality(DOMAIN origin) \in Nat
      BY <1>1, FS_CardinalityType DEF CleanTypes
    <2>3. /\ IsFiniteSet((DOMAIN origin) \X K!Columns)
          /\ Cardinality((DOMAIN origin) \X K!Columns)
               = Cardinality(DOMAIN origin) * Cardinality(K!Columns)
      BY <2>1, <2>2, FS_Product
    <2>4. /\ IsFiniteSet(cells) /\ Cardinality(cells) \in Nat
          /\ Cardinality(cells) <= Cardinality((DOMAIN origin) \X K!Columns)
      BY <1>2, <2>3, FS_Subset, FS_CardinalityType
    <2> HIDE DEF cells
    <2> QED BY <2>1, <2>2, <2>3, <2>4
  <1>4. /\ e \in LogEntry /\ e.op = "trim_whitespace" /\ e.columns = cols
        /\ e.affected = Cardinality(cells) /\ e.op \notin K!Dropping
    BY <1>3 DEF LogEntry, K!Ops, K!Dropping
  <1>5. /\ DOMAIN frame' = DOMAIN frame
        /\ \A i \in DOMAIN frame : DOMAIN frame'[i] = K!Columns
        /\ \A i \in DOMAIN frame, c \in K!Columns :
             frame'[i][c] = IF c \in cols THEN K!Strip(frame[i][c]) ELSE frame[i][c]
    BY <1>0 DEF K!Trimmed
  <1>6. Celled(frame')
    BY <1>1, <1>5, StrippedCell DEF CleanTypes, Celled
  <1>7. \A c \in K!Columns : Tallied(frame, frame', e, c)
    <2> TAKE c \in K!Columns
    <2>1. CASE c \notin cols
      BY <1>4, <1>5, <2>1 DEF Tallied
    <2>2. CASE c \in cols
      <3> DEFINE new == K!Padded(frame, c)
                 f == [i \in new |-> <<i, c>>]
      <3>1. f \in Injection(new, cells)
        <4>1. \A i \in new : <<i, c>> \in cells
          BY <2>2 DEF K!PaddedCells
        <4>2. f \in [new -> cells]
          <5> HIDE DEF new, cells
          <5> QED BY <4>1
        <4>3. \A i, j \in new : f[i] = f[j] => i = j
          <5> HIDE DEF new
          <5> QED OBVIOUS
        <4> HIDE DEF new, cells, f
        <4> QED BY <4>2, <4>3 DEF Injection, IsInjective
      <3>2. Cardinality(new) <= Cardinality(cells)
        BY <1>3, <3>1, FS_Injection
      <3>3. new \in SUBSET DOMAIN frame
        BY DEF K!Padded, K!Present
      <3>4. ASSUME NEW i \in DOMAIN frame \ new, K!Text(frame'[i][c]) # K!Text(frame[i][c])
            PROVE  frame[i][c] = K!Missing
        <4>1. Cell(frame[i][c]) /\ frame'[i][c] = K!Strip(frame[i][c])
          BY <1>1, <1>5, <2>2 DEF CleanTypes, Celled
        <4> QED BY <3>4, <4>1, StrippedCell DEF K!Padded, K!Present
      <3> HIDE DEF new, cells, e
      <3> QED BY <1>4, <2>2, <3>2, <3>3, <3>4 DEF Tallied
    <2> QED BY <2>1, <2>2
  <1>8. dtype' \in [K!Columns -> {"object", "string", "number"}]
    BY <1>0 DEF CleanInv
  <1>9. log' = Append(log, e) /\ e.affected <= 2 * Cardinality(DOMAIN origin)
    BY <1>0, <1>3, <1>4
  <1> HIDE DEF e, cells
  <1> QED BY <1>1, <1>4, <1>5, <1>6, <1>7, <1>8, <1>9, OperationAccounts

\* cast_type counts every row.
LEMMA CastsColumn ==
    ASSUME CleanInv, K!CastType
    PROVE  CleanInv'
  <1>0. PICK c \in K!Columns :
           /\ log' = Append(log, [op |-> "cast_type", columns |-> {c},
                                  affected |-> Cardinality(DOMAIN frame)])
           /\ \/ frame' = K!Coerced(frame, c) /\ dtype' = [dtype EXCEPT ![c] = "number"]
              \/ frame' = K!Worded(frame, c) /\ dtype' = [dtype EXCEPT ![c] = "string"]
    BY CleaningCounts DEF K!CastType, K!Entry
  <1> DEFINE e == [op |-> "cast_type", columns |-> {c}, affected |-> Cardinality(DOMAIN frame)]
  <1>1. CleanTypes /\ cleaning = "apply" /\ UNCHANGED <<cleaning, origin>>
    BY DEF CleanInv, K!CastType, K!Applying, K!Unmoved
  <1>2. /\ Cardinality(DOMAIN frame) \in Nat /\ Cardinality(DOMAIN origin) \in Nat
        /\ Cardinality(DOMAIN frame) <= Cardinality(DOMAIN origin)
    BY <1>1, FS_Subset, FS_CardinalityType DEF CleanTypes
  <1>3. /\ e \in LogEntry /\ e.op = "cast_type" /\ e.columns = {c}
        /\ e.affected = Cardinality(DOMAIN frame) /\ e.op \notin K!Dropping
    BY <1>2 DEF LogEntry, K!Ops, K!Dropping
  <1>4. /\ DOMAIN frame' = DOMAIN frame
        /\ \A i \in DOMAIN frame : DOMAIN frame'[i] = K!Columns
        /\ \A i \in DOMAIN frame, d \in K!Columns :
             /\ frame'[i][d] \in {frame[i][d], K!Numeric(frame[i][d]), K!Text(frame[i][d])}
             /\ d # c => frame'[i][d] = frame[i][d]
    BY <1>0, <1>1 DEF CleanTypes, K!Coerced, K!Worded
  <1>5. Celled(frame')
    BY <1>1, <1>4, CastCells DEF CleanTypes, Celled
  <1> HIDE DEF e
  <1>6. \A d \in K!Columns : Tallied(frame, frame', e, d)
    <2> TAKE d \in K!Columns
    <2>1. CASE d # c
      BY <1>3, <1>4, <2>1 DEF Tallied
    <2>2. CASE d = c
      <3>1. /\ DOMAIN frame \in SUBSET DOMAIN frame
            /\ Cardinality(DOMAIN frame) <= e.affected
        BY <1>2, <1>3
      <3> QED BY <1>3, <2>2, <3>1 DEF Tallied
    <2> QED BY <2>1, <2>2
  <1>7. dtype' \in [K!Columns -> {"object", "string", "number"}]
    BY <1>0 DEF CleanInv
  <1>8. log' = Append(log, e) /\ e.affected <= 2 * Cardinality(DOMAIN origin)
    BY <1>0, <1>2, <1>3 DEF e
  <1> QED BY <1>1, <1>3, <1>4, <1>5, <1>6, <1>7, <1>8, OperationAccounts

LEMMA CleanSteps ==
    ASSUME [NextAll]_all, subject' = "cleaning"
    PROVE  subject = "cleaning" /\ [K!Next]_(K!vars)
  <1>1. CASE NextAll
    BY <1>1 DEF NextAll
  <1>2. CASE UNCHANGED all
    BY <1>2 DEF all, cleanVars, K!vars
  <1> QED BY <1>1, <1>2

LEMMA CleanStart == K!Init => CleanInv
  <1> SUFFICES ASSUME K!Init PROVE CleanInv
    OBVIOUS
  <1>1. /\ cleaning = "apply" /\ frame = origin /\ log = <<>>
        /\ dtype \in [K!Columns -> {"object", "string", "number"}]
    BY DEF K!Init
  <1>2. PICK n \in Names, a \in Amounts : origin = K!FrameOf(n, a)
    BY DEF K!Init
  <1>3. DOMAIN origin = DOMAIN n /\ \A i \in DOMAIN n : DOMAIN origin[i] = K!Columns
    BY <1>2 DEF K!FrameOf
  <1>4. Celled(frame)
    <2>1. ASSUME NEW i \in DOMAIN n PROVE Cell(origin[i]["name"]) /\ Cell(origin[i]["amount"])
      <3>1. n[i] # None => \/ \E w, b : b \in BOOLEAN /\ n[i] = K!Word(w, b)
                           \/ \E k : n[i] = K!Digits(k)
        BY <2>1, TextsAssumption DEF K!Word, K!Digits
      <3>2. /\ origin[i]["name"] = IF n[i] = None THEN K!Missing ELSE n[i]
            /\ origin[i]["amount"] = IF a[i] = None THEN K!Missing ELSE K!Number(a[i])
        BY <1>2, <2>1 DEF K!FrameOf, K!Columns
      <3> QED BY <3>1, <3>2 DEF Cell
    <2> QED BY <1>1, <1>3, <2>1 DEF Celled, K!Columns
  <1>5. CleanTypes
    BY <1>1, <1>3, <1>4, TextsAssumption DEF CleanTypes
  <1>6. K!Drops(log) = {} /\ \A c \in K!Columns : K!Changes(log, c) = {}
    BY <1>1 DEF K!Drops, K!Changes
  <1>7. K!Affected(log, {}) = 0
    <2>1. UNION {{i} \X (1..log[i].affected) : i \in {}} = {}
      OBVIOUS
    <2> QED BY <2>1, FS_EmptySet, CleaningCounts DEF K!Affected
  <1>8. Cardinality(DOMAIN origin) \in Nat
    BY <1>5, FS_CardinalityType DEF CleanTypes
  <1>9. \A c \in K!Columns : Altered(c) = {} /\ K!Changed(c) = {}
    BY <1>1 DEF Altered, K!Changed
  <1>10. Cardinality({}) = 0
    BY FS_EmptySet
  <1>11. Cardinality(DOMAIN origin) - Cardinality(DOMAIN frame) = K!Affected(log, K!Drops(log))
    <2>1. Cardinality(DOMAIN frame) = Cardinality(DOMAIN origin)
      BY <1>1
    <2> QED BY <1>6, <1>7, <1>8, <2>1
  <1>12. ASSUME NEW c \in K!Columns
         PROVE  /\ Cardinality(Altered(c)) <= K!Affected(log, K!Changes(log, c))
                /\ Cardinality(K!Changed(c)) <= K!Affected(log, K!Changes(log, c))
    <2>1. Cardinality(Altered(c)) = 0 /\ Cardinality(K!Changed(c)) = 0
      BY <1>9, <1>10
    <2>2. K!Affected(log, K!Changes(log, c)) = 0
      BY <1>6, <1>7
    <2> QED BY <2>1, <2>2
  <1> QED BY <1>1, <1>5, <1>11, <1>12 DEF CleanInv

LEMMA CleanStep == CleanInv /\ [K!Next]_(K!vars) => CleanInv'
  <1> SUFFICES ASSUME CleanInv, [K!Next]_(K!vars) PROVE CleanInv'
    OBVIOUS
  <1>1. ASSUME K!DropDuplicateRows PROVE CleanInv'
    <2>1. K!Applying
      BY <1>1 DEF K!DropDuplicateRows
    <2>2. PICK cols \in SUBSET K!Columns :
            K!DropRows("drop_duplicate_rows", cols, K!Duplicates(frame, cols))
      BY <1>1 DEF K!DropDuplicateRows
    <2>3. K!Duplicates(frame, cols) \in SUBSET DOMAIN frame
      BY DEF K!Duplicates
    <2>4. "drop_duplicate_rows" \in K!Dropping
      BY DEF K!Dropping
    <2> QED BY <2>1, <2>2, <2>3, <2>4, DropsRows
  <1>2. ASSUME K!DropNullRows PROVE CleanInv'
    <2>1. K!Applying
      BY <1>2 DEF K!DropNullRows
    <2>2. PICK cols \in SUBSET K!Columns :
            K!DropRows("drop_null_rows", cols, K!NullRows(frame, cols))
      BY <1>2 DEF K!DropNullRows
    <2>3. K!NullRows(frame, cols) \in SUBSET DOMAIN frame
      BY DEF K!NullRows, K!MissingIn, K!Present
    <2>4. "drop_null_rows" \in K!Dropping
      BY DEF K!Dropping
    <2> QED BY <2>1, <2>2, <2>3, <2>4, DropsRows
  <1>3. ASSUME K!RemoveOutliers PROVE CleanInv'
    <2>1. K!Applying
      BY <1>3 DEF K!RemoveOutliers
    <2>2. PICK c \in K!Columns : K!DropRows("remove_outliers", {c}, K!Outliers(frame, c))
      BY <1>3 DEF K!RemoveOutliers
    <2>3. K!Outliers(frame, c) \in SUBSET DOMAIN frame
      BY DEF K!Outliers, K!Present
    <2>4. "remove_outliers" \in K!Dropping /\ {c} \in SUBSET K!Columns
      BY DEF K!Dropping
    <2> QED BY <2>1, <2>2, <2>3, <2>4, DropsRows
  <1>4. ASSUME K!FillNulls PROVE CleanInv'
    <2>1. K!Applying
      BY <1>4 DEF K!FillNulls
    <2>2. PICK c \in K!Columns :
            \/ dtype[c] = "number" /\ K!FillColumn(c, K!Median(frame, c))
            \/ \E value \in K!Modes(frame, c) : K!FillColumn(c, value)
            \/ K!FillColumn(c, IF dtype[c] = "number" THEN K!Number(0) ELSE K!Word("k", FALSE))
      BY <1>4 DEF K!FillNulls
    <2>3. CASE K!FillColumn(c, K!Median(frame, c))
      BY <2>1, <2>3, FillersAreCells, FillsColumn
    <2>4. CASE \E value \in K!Modes(frame, c) : K!FillColumn(c, value)
      BY <2>1, <2>4, FillersAreCells, FillsColumn
    <2>5. CASE K!FillColumn(c, IF dtype[c] = "number" THEN K!Number(0) ELSE K!Word("k", FALSE))
      <3>1. Cell(IF dtype[c] = "number" THEN K!Number(0) ELSE K!Word("k", FALSE))
        BY CellKinds
      <3> QED BY <2>1, <2>5, <3>1, FillsColumn
    <2> QED BY <2>2, <2>3, <2>4, <2>5
  <1>5. ASSUME K!Refuse PROVE CleanInv'
    <2>1. cleaning' \in {"rejected", "failed"} /\ UNCHANGED <<origin, frame, dtype, log>>
      BY <1>5 DEF K!Refuse
    <2>2. /\ CleanTypes' /\ \A c \in K!Columns : Altered(c)' = Altered(c)
          /\ \A c \in K!Columns : K!Changed(c)' = K!Changed(c)
      BY <2>1 DEF CleanInv, CleanTypes, Altered, K!Changed
    <2> QED BY <2>1, <2>2 DEF CleanInv
  <1>6. ASSUME K!SaveOrReject PROVE CleanInv'
    <2>1. /\ cleaning' \in {"saved", "rejected"} /\ (cleaning' = "saved" => DOMAIN frame # {})
          /\ UNCHANGED <<origin, frame, dtype, log>>
      BY <1>6 DEF K!SaveOrReject
    <2>2. /\ CleanTypes' /\ \A c \in K!Columns : Altered(c)' = Altered(c)
          /\ \A c \in K!Columns : K!Changed(c)' = K!Changed(c)
      BY <2>1 DEF CleanInv, CleanTypes, Altered, K!Changed
    <2> QED BY <2>1, <2>2 DEF CleanInv
  <1>7. ASSUME UNCHANGED K!vars PROVE CleanInv'
    <2>1. UNCHANGED <<cleaning, origin, frame, dtype, log>>
      BY <1>7 DEF K!vars
    <2>2. /\ CleanTypes' /\ \A c \in K!Columns : Altered(c)' = Altered(c)
          /\ \A c \in K!Columns : K!Changed(c)' = K!Changed(c)
      BY <2>1 DEF CleanInv, CleanTypes, Altered, K!Changed
    <2> QED BY <2>1, <2>2 DEF CleanInv
  <1> QED BY <1>1, <1>2, <1>3, <1>4, <1>5, <1>6, <1>7, TrimsColumns, CastsColumn DEF K!Next

\* What the invariant says of the cells that had a value bounds those that differ, by the parent's
\* missing ones.
LEMMA CleanAccounts == ASSUME CleanInv PROVE K!LineageAccounts
  <1>1. CleanTypes /\ log \in Seq(LogEntry) /\ IsFiniteSet(DOMAIN frame) /\ IsFiniteSet(DOMAIN origin)
    BY FS_Subset DEF CleanInv, CleanTypes
  <1>2. ASSUME NEW c \in K!Columns
        PROVE  Cardinality(K!Changed(c))
                 <= K!Affected(log, K!Changes(log, c))
                    + (IF K!Blind(log, c) THEN Cardinality(K!MissingIn(origin, c)) ELSE 0)
    <2> DEFINE sum == K!Affected(log, K!Changes(log, c))
               gaps == K!MissingIn(origin, c)
    <2>1. /\ sum \in Nat /\ Cardinality(Altered(c)) <= sum
          /\ K!Blind(log, c) \/ Cardinality(K!Changed(c)) <= sum
      BY <1>1, LogSets, AffectedStacks DEF CleanInv, K!Changes
    <2>2. IsFiniteSet(Altered(c)) /\ IsFiniteSet(gaps) /\ K!Changed(c) \subseteq DOMAIN frame
      BY <1>1, FS_Subset DEF Altered, K!Changed, K!MissingIn, K!Present
    <2>3. K!Changed(c) \subseteq Altered(c) \cup gaps
      BY <1>1 DEF CleanTypes, Altered, K!Changed, K!MissingIn, K!Present
    <2> HIDE DEF sum, gaps
    <2>4. /\ Cardinality(K!Changed(c)) \in Nat
          /\ Cardinality(K!Changed(c)) <= Cardinality(Altered(c)) + Cardinality(gaps)
      BY <2>2, <2>3, WithinBoth
    <2>5. Cardinality(Altered(c)) \in Nat /\ Cardinality(gaps) \in Nat
      BY <2>2, FS_CardinalityType
    <2>6. CASE K!Blind(log, c)
      <3>1. Cardinality(K!Changed(c)) <= sum + Cardinality(gaps)
        BY <2>1, <2>4, <2>5
      <3> QED BY <2>6, <3>1 DEF sum, gaps
    <2>7. CASE ~K!Blind(log, c)
      <3>1. Cardinality(K!Changed(c)) <= sum + 0
        BY <2>1, <2>4, <2>7
      <3> QED BY <2>7, <3>1 DEF sum
    <2> QED BY <2>6, <2>7
  <1>3. /\ DOMAIN frame \subseteq DOMAIN origin
        /\ Cardinality(DOMAIN origin) - Cardinality(DOMAIN frame) = K!Affected(log, K!Drops(log))
        /\ cleaning = "saved" => DOMAIN frame # {}
    BY DEF CleanInv, CleanTypes
  <1> QED BY <1>2, <1>3, CleaningCounts DEF K!LineageAccounts

\* However many operations are applied to a frame of whatever size, the log that is saved accounts
\* for every row that is gone; and of a column's cells no more are written differently than it
\* counts, or, after a trim, than it counts and the parent version had missing there
\* (data_cleaning.apply_operations).
THEOREM LineageIsAccounted == SpecAll => []LineageAccounts
  <1> DEFINE Inv == subject = "cleaning" => CleanInv
  <1>1. InitAll => Inv
    BY CleanStart DEF InitAll
  <1>2. Inv /\ [NextAll]_all => Inv'
    BY CleanSteps, CleanStep
  <1>3. Inv => LineageAccounts
    BY CleanAccounts DEF LineageAccounts
  <1> QED BY <1>1, <1>2, <1>3, PTL DEF SpecAll

(*****************************************************************************)
(* Training                                                                  *)
(*                                                                           *)
(* Importances are mapped back by position.  Places are ordered as the       *)
(* preprocessor puts their outputs (PlacesInOrder), so what two of them put  *)
(* out is apart (OutputsApart).  Where no place up to one's own is without   *)
(* an output, the widths dealt are those of the columns they are dealt to    *)
(* (DealtItsOwn), and its segment is what it puts out.                       *)
(*****************************************************************************)

LEMMA TrainingCounts == \A set : T!Cardinality(set) = Cardinality(set)
  BY DEF T!Cardinality, Cardinality

ChosenTypes == features \in Seq(Features) /\ column \in [Features -> T!Column]
Made == [j \in DOMAIN features |-> 1..T!Width(j)]

\* Every place up to this one has an output.
NoneEmpty(i) == \A j \in T!Before(i) \cup {i} : T!Width(j) > 0

LEMMA PlacesTyped ==
    ASSUME ChosenTypes
    PROVE  /\ DOMAIN features \subseteq Nat /\ IsFiniteSet(DOMAIN features)
           /\ \A i \in DOMAIN features :
                /\ T!Width(i) \in Nat /\ T!Kind(i) \in {"numeric", "categorical"}
                /\ T!Kind(i) = "numeric" => T!Width(i) <= 1
                /\ T!LikeBefore(i) \subseteq T!Before(i) /\ T!Before(i) \subseteq DOMAIN features
                /\ IsFiniteSet(T!Before(i)) /\ IsFiniteSet(T!LikeBefore(i))
  <1>1. DOMAIN features = 1..Len(features) /\ Len(features) \in Nat
    BY DEF ChosenTypes
  <1>2. DOMAIN features \subseteq Nat /\ IsFiniteSet(DOMAIN features)
    BY <1>1, FS_Interval
  <1>3. ASSUME NEW i \in DOMAIN features
        PROVE  /\ T!Width(i) \in Nat /\ T!Kind(i) \in {"numeric", "categorical"}
               /\ T!Kind(i) = "numeric" => T!Width(i) <= 1
    <2>1. features[i] \in Features
      BY <1>1 DEF ChosenTypes
    <2>2. column[features[i]] \in T!Column
      BY <2>1 DEF ChosenTypes
    <2>3. ASSUME NEW r \in T!Column
          PROVE  /\ r.width \in Nat /\ r.kind \in {"numeric", "categorical"}
                 /\ r.kind = "numeric" => r.width <= 1
      <3>1. CASE r \in [kind : {"numeric"}, width : {0, 1}, identifier : {FALSE}]
        BY <3>1
      <3>2. CASE r \in [kind : {"categorical"}, width : {0} \cup Categories, identifier : {FALSE}]
        <4>1. r.width \in {0} \cup Categories /\ r.kind = "categorical"
          BY <3>2
        <4>2. {0} \cup Categories \subseteq Nat
          BY FeaturesAssumption
        <4> QED BY <4>1, <4>2
      <3>3. CASE r \in [kind : {"categorical"}, width : Categories, identifier : {TRUE}]
        BY <3>3, FeaturesAssumption
      <3> QED BY <2>3, <3>1, <3>2, <3>3 DEF T!Column
    <2> QED BY <2>2, <2>3 DEF T!Width, T!Kind
  <1>4. ASSUME NEW i \in DOMAIN features
        PROVE  T!LikeBefore(i) \subseteq T!Before(i) /\ T!Before(i) \subseteq DOMAIN features
    BY DEF T!LikeBefore, T!Before
  <1> QED BY <1>2, <1>3, <1>4, FS_Subset

\* The preprocessor's order of the places is total.
LEMMA PlacesInOrder ==
    ASSUME ChosenTypes, NEW i \in DOMAIN features, NEW j \in DOMAIN features
    PROVE  /\ i \notin T!Before(i)
           /\ i # j => i \in T!Before(j) \/ j \in T!Before(i)
           /\ i \in T!Before(j) => T!Before(i) \cup {i} \subseteq T!Before(j)
  <1>1. i \notin T!Before(i)
    BY PlacesTyped DEF T!Before, T!LikeBefore
  <1>2. i # j => i \in T!Before(j) \/ j \in T!Before(i)
    <2>1. /\ i \in Nat /\ j \in Nat
          /\ T!Kind(i) \in {"numeric", "categorical"} /\ T!Kind(j) \in {"numeric", "categorical"}
      BY PlacesTyped
    <2>2. CASE T!Kind(i) = T!Kind(j)
      BY <2>1, <2>2 DEF T!Before, T!LikeBefore
    <2>3. CASE T!Kind(i) # T!Kind(j)
      <3>1. \/ T!Kind(i) = "numeric" /\ T!Kind(j) = "categorical"
            \/ T!Kind(j) = "numeric" /\ T!Kind(i) = "categorical"
        BY <2>1, <2>3
      <3> QED BY <3>1 DEF T!Before
    <2> QED BY <2>2, <2>3
  <1>3. ASSUME i \in T!Before(j), NEW k \in T!Before(i) PROVE k \in T!Before(j)
    BY <1>3, PlacesTyped DEF T!Before, T!LikeBefore
  <1> QED BY <1>1, <1>2, <1>3

\* A proper part of a finite set has fewer members.
LEMMA Fewer ==
    ASSUME NEW b, IsFiniteSet(b), NEW a, a \subseteq b, NEW x \in b, x \notin a
    PROVE  Cardinality(a) \in Nat /\ Cardinality(b) \in Nat /\ Cardinality(a) < Cardinality(b)
  <1>1. IsFiniteSet(a) /\ Cardinality(a) \in Nat /\ Cardinality(b) \in Nat
    BY FS_Subset, FS_CardinalityType
  <1>2. IsFiniteSet(a \cup {x}) /\ Cardinality(a \cup {x}) = Cardinality(a) + 1
    BY <1>1, FS_AddElement
  <1>3. Cardinality(a \cup {x}) <= Cardinality(b) /\ Cardinality(a \cup {x}) \in Nat
    BY <1>2, FS_Subset, FS_CardinalityType
  <1> QED BY <1>1, <1>2, <1>3

\* The widths that were fitted are dealt to their own places.
LEMMA DealtItsOwn ==
    ASSUME ChosenTypes, NEW i \in DOMAIN features, NoneEmpty(i)
    PROVE  T!Declared(i) = 1..T!Width(i)
  <1> DEFINE Full(j) == {k \in T!LikeBefore(j) : T!Width(k) > 0}
  <1>1. T!Width(i) \in Nat /\ T!Width(i) > 0 /\ T!Kind(i) \in {"numeric", "categorical"}
    BY PlacesTyped DEF NoneEmpty
  <1>2. CASE T!Kind(i) = "numeric"
    <2>1. T!Width(i) = 1
      BY <1>1, <1>2, PlacesTyped
    <2> QED BY <1>2, <2>1 DEF T!Declared
  <1>3. CASE T!Kind(i) = "categorical"
    <2>1. Full(i) = T!LikeBefore(i)
      BY PlacesTyped DEF NoneEmpty
    <2>2. i \in T!Fitted(i)
      BY <1>1, <1>3, <2>1 DEF T!Fitted
    <2>3. ASSUME NEW j \in T!Fitted(i), j # i PROVE FALSE
      <3>1. /\ j \in DOMAIN features /\ T!Kind(j) = "categorical" /\ T!Width(j) > 0
            /\ Cardinality(Full(j)) = Cardinality(T!LikeBefore(i))
        BY <2>3, TrainingCounts DEF T!Fitted
      <3>2. i \in Nat /\ j \in Nat /\ IsFiniteSet(T!LikeBefore(i)) /\ IsFiniteSet(T!LikeBefore(j))
        BY <3>1, PlacesTyped
      <3>3. CASE j < i
        <4>1. j \in T!LikeBefore(i) /\ j \notin Full(j) /\ Full(j) \subseteq T!LikeBefore(i)
          BY <1>3, <3>1, <3>2, <3>3, PlacesTyped DEF T!LikeBefore
        <4> HIDE DEF Full
        <4>2. Cardinality(Full(j)) < Cardinality(T!LikeBefore(i)) /\ Cardinality(Full(j)) \in Nat
          BY <3>2, <4>1, Fewer
        <4> QED BY <3>1, <4>2
      <3>4. CASE i < j
        <4>1. /\ i \in Full(j) /\ i \notin T!LikeBefore(i)
              /\ T!LikeBefore(i) \subseteq Full(j)
          <5>1. \A k \in T!LikeBefore(i) : T!Width(k) > 0
            BY <2>1
          <5> QED BY <1>1, <1>3, <3>1, <3>2, <3>4, <5>1, PlacesTyped DEF T!LikeBefore
        <4>2. IsFiniteSet(Full(j))
          BY <3>2, FS_Subset
        <4> HIDE DEF Full
        <4>3. /\ Cardinality(T!LikeBefore(i)) < Cardinality(Full(j)) /\ Cardinality(Full(j)) \in Nat
              /\ Cardinality(T!LikeBefore(i)) \in Nat
          BY <4>1, <4>2, Fewer
        <4> QED BY <3>1, <4>3
      <3> QED BY <2>3, <3>2, <3>3, <3>4
    <2>4. T!Fitted(i) = {i}
      BY <2>2, <2>3
    <2>5. UNION {1..T!Width(j) : j \in {i}} = 1..T!Width(i)
      OBVIOUS
    <2> QED BY <1>3, <2>4, <2>5 DEF T!Declared
  <1> QED BY <1>1, <1>2, <1>3

\* What comes before a place is a sum of stacks.
LEMMA FirstOfStacks ==
    ASSUME ChosenTypes, NEW i \in DOMAIN features
    PROVE  /\ T!FirstOf(i) = Cardinality(Stacks(T!Before(i), Made))
           /\ IsFiniteSet(T!Before(i)) /\ \A j \in T!Before(i) : IsFiniteSet(Made[j])
           /\ T!FirstOf(i) \in Nat
  <1>1. {{j} \X (1..T!Width(j)) : j \in T!Before(i)} = {{j} \X Made[j] : j \in T!Before(i)}
    BY PlacesTyped DEF Made
  <1>2. T!FirstOf(i) = Cardinality(Stacks(T!Before(i), Made))
    BY <1>1, TrainingCounts DEF T!FirstOf, Stacks
  <1>3. IsFiniteSet(T!Before(i))
    BY PlacesTyped
  <1>4. ASSUME NEW j \in T!Before(i) PROVE IsFiniteSet(Made[j])
    <2>1. Made[j] = 1..T!Width(j) /\ T!Width(j) \in Nat
      BY PlacesTyped DEF Made
    <2> QED BY <2>1, FS_Interval
  <1> QED BY <1>2, <1>3, <1>4, StacksFinite

\* What two places put out is apart.
LEMMA OutputsApart ==
    ASSUME ChosenTypes, NEW i \in DOMAIN features, NEW j \in DOMAIN features, i # j
    PROVE  T!Outputs(i) \cap T!Outputs(j) = {}
  <1>1. ASSUME NEW k \in DOMAIN features
        PROVE  /\ T!FirstOf(k) = Cardinality(Stacks(T!Before(k), Made))
               /\ IsFiniteSet(T!Before(k)) /\ \A m \in T!Before(k) : IsFiniteSet(Made[m])
               /\ T!FirstOf(k) \in Nat
    BY <1>1, FirstOfStacks
  <1>2. ASSUME NEW k \in DOMAIN features, NEW m \in DOMAIN features, k \in T!Before(m)
        PROVE  T!FirstOf(k) + T!Width(k) <= T!FirstOf(m)
    <2>1. /\ T!Before(k) \cup {k} \subseteq T!Before(m) /\ k \notin T!Before(k)
          /\ IsFiniteSet(Made[k]) /\ Cardinality(Made[k]) = T!Width(k)
      <3>1. Made[k] = 1..T!Width(k) /\ T!Width(k) \in Nat
        BY PlacesTyped DEF Made
      <3>2. IsFiniteSet(Made[k]) /\ Cardinality(Made[k]) = T!Width(k)
        BY <3>1, FS_Interval
      <3> QED BY <1>2, <3>2, PlacesInOrder
    <2>2. Cardinality(Stacks(T!Before(k) \cup {k}, Made)) = T!FirstOf(k) + T!Width(k)
      BY <1>1, <2>1, StacksAdd
    <2>3. Cardinality(Stacks(T!Before(k) \cup {k}, Made)) <= T!FirstOf(m)
      BY <1>1, <2>1, StacksMonotone
    <2> QED BY <2>2, <2>3
  <1>3. /\ T!FirstOf(i) \in Nat /\ T!FirstOf(j) \in Nat /\ T!Width(i) \in Nat /\ T!Width(j) \in Nat
        /\ \/ T!FirstOf(i) + T!Width(i) <= T!FirstOf(j)
           \/ T!FirstOf(j) + T!Width(j) <= T!FirstOf(i)
    BY <1>1, <1>2, PlacesInOrder, PlacesTyped
  <1> QED BY <1>3 DEF T!Outputs

\* The segment of a place is what it puts out, if no place up to it is without an output.
LEMMA SegmentIsItsOwn ==
    ASSUME ChosenTypes, NEW i \in DOMAIN features, NoneEmpty(i)
    PROVE  T!Segment(i) = T!Outputs(i) /\ T!Outputs(i) # {}
  <1>1. ASSUME NEW j \in T!Before(i) \cup {i}
        PROVE  j \in DOMAIN features /\ T!Declared(j) = 1..T!Width(j)
    <2>1. j \in DOMAIN features
      BY <1>1, PlacesTyped
    <2>2. NoneEmpty(j)
      BY <1>1, <2>1, PlacesInOrder DEF NoneEmpty
    <2> QED BY <2>1, <2>2, DealtItsOwn
  <1>2. {{j} \X T!Declared(j) : j \in T!Before(i)} = {{j} \X (1..T!Width(j)) : j \in T!Before(i)}
    BY <1>1
  <1>3. T!Start(i) = T!FirstOf(i)
    BY <1>2 DEF T!Start, T!FirstOf
  <1>4. T!Width(i) \in Nat /\ T!Width(i) > 0
    BY PlacesTyped DEF NoneEmpty
  <1>5. T!Cardinality(T!Declared(i)) = T!Width(i)
    BY <1>1, <1>4, TrainingCounts, FS_Interval
  <1>6. T!FirstOf(i) \in Nat
    BY FirstOfStacks
  <1>7. T!FirstOf(i) + 1 \in T!Outputs(i)
    BY <1>4, <1>6 DEF T!Outputs
  <1> QED BY <1>3, <1>5, <1>7 DEF T!Segment, T!Outputs

---------------------------------------------------------------------------
(* The steps of a training. *)

\* Explain's importances.
Explained == [c \in Features |->
    {features[j] : j \in {j \in DOMAIN features : \E i \in DOMAIN features :
       features[i] = c /\ T!Segment(i) \cap T!Outputs(j) # {}}}]

\* Of the candidates fitted so far none beats the best, and it is the first of its equals.
Best == \A i \in DOMAIN scores :
    scores[best] > scores[i] \/ (scores[best] = scores[i] /\ best <= i)

TrainInv ==
    /\ T!TypeOK
    /\ training \in {"ask", "features"} => scores = <<>>
    /\ training = "fit" => Len(scores) <= 1
    /\ best = 0 <=> scores = <<>>
    /\ Best
    /\ training \in {"fit", "explain", "trained"} => ~T!Repeats(features)
    /\ training = "trained" => importance = Explained

LEMMA TrainSteps ==
    ASSUME [NextAll]_all, subject' = "training"
    PROVE  subject = "training" /\ [T!Next]_(T!vars)
  <1>1. CASE NextAll
    BY <1>1 DEF NextAll
  <1>2. CASE UNCHANGED all
    BY <1>2 DEF all, trainVars, T!vars
  <1> QED BY <1>1, <1>2

LEMMA TrainStart == T!Init => TrainInv
  BY DEF T!Init, TrainInv, T!TypeOK, Best

\* A candidate replaces the best if it beats it, and comes behind it otherwise.
LEMMA FitsCandidate ==
    ASSUME TrainInv, T!FitCandidate
    PROVE  TrainInv'
  <1>1. PICK s \in Scores :
          /\ scores' = Append(scores, s)
          /\ best' = IF best = 0 \/ s > scores[best] THEN Len(scores) + 1 ELSE best
    BY DEF T!FitCandidate, T!Beats
  <1>2. /\ training = "fit" /\ training' = (IF Len(scores) = 1 THEN "explain" ELSE "fit")
        /\ UNCHANGED <<column, task, features, importance>>
    BY DEF T!FitCandidate
  <1>3. /\ scores \in Seq(Scores) /\ Len(scores) <= 1 /\ Len(scores) \in Nat
        /\ best \in {0} \cup DOMAIN scores /\ (best = 0 <=> scores = <<>>) /\ Best
    BY <1>2 DEF TrainInv, T!TypeOK
  <1>4. /\ scores' \in Seq(Scores) /\ Len(scores') = Len(scores) + 1
        /\ DOMAIN scores' = DOMAIN scores \cup {Len(scores) + 1}
        /\ scores'[Len(scores) + 1] = s /\ \A i \in DOMAIN scores : scores'[i] = scores[i]
        /\ DOMAIN scores = 1..Len(scores)
    BY <1>1, <1>3
  <1>5. \A i \in DOMAIN scores : scores[i] \in Int
    <2>1. \A i \in DOMAIN scores : scores[i] \in Scores
      BY <1>3
    <2> QED BY <2>1, FeaturesAssumption
  <1>6. s \in Int
    BY FeaturesAssumption
  <1>7. best' \in DOMAIN scores' /\ best' # 0 /\ scores' # <<>>
    BY <1>1, <1>3, <1>4
  <1>8. Best'
    <2>1. CASE best = 0
      <3>1. Len(scores) = 0 /\ DOMAIN scores = {}
        BY <1>3, <2>1
      <3>2. DOMAIN scores' = {1} /\ best' = 1
        BY <1>1, <1>4, <2>1, <3>1
      <3> QED BY <1>4, <1>6, <3>1, <3>2 DEF Best
    <2>2. CASE best # 0 /\ s > scores[best]
      <3>1. best' = Len(scores) + 1 /\ best \in DOMAIN scores
        BY <1>1, <1>3, <2>2
      <3>2. \A i \in DOMAIN scores : s > scores[i]
        BY <1>3, <1>5, <1>6, <2>2, <3>1 DEF Best
      <3> QED BY <1>4, <1>6, <3>1, <3>2 DEF Best
    <2>3. CASE best # 0 /\ ~(s > scores[best])
      <3>1. best' = best /\ best \in DOMAIN scores /\ best <= Len(scores) + 1
        BY <1>1, <1>3, <1>4, <2>3
      <3>2. scores[best] > s \/ scores[best] = s
        BY <1>5, <1>6, <2>3, <3>1
      <3> QED BY <1>3, <1>4, <3>1, <3>2 DEF Best
    <2> QED BY <2>1, <2>2, <2>3
  <1>9. T!TypeOK'
    BY <1>2, <1>3, <1>4, <1>7 DEF TrainInv, T!TypeOK
  <1>10. ~T!Repeats(features)' /\ (training' = "fit" => Len(scores') <= 1)
    BY <1>2, <1>3, <1>4 DEF TrainInv, T!Repeats
  <1> QED BY <1>2, <1>7, <1>8, <1>9, <1>10 DEF TrainInv

LEMMA TrainStep == TrainInv /\ [T!Next]_(T!vars) => TrainInv'
  <1> SUFFICES ASSUME TrainInv, [T!Next]_(T!vars) PROVE TrainInv'
    OBVIOUS
  <1>1. ASSUME T!AskTask PROVE TrainInv'
    <2>1. /\ training = "ask" /\ UNCHANGED <<column, features, scores, best, importance>>
          /\ \/ training' = "features" /\ task' \in T!Tasks
             \/ training' = "rejected" /\ task' = task
      BY <1>1 DEF T!AskTask
    <2>2. T!TypeOK'
      BY <2>1 DEF TrainInv, T!TypeOK
    <2> QED BY <2>1, <2>2 DEF TrainInv, Best
  <1>2. ASSUME T!ChooseFeatures PROVE TrainInv'
    <2>1. /\ training = "features" /\ UNCHANGED <<column, task, scores, best, importance>>
      BY <1>2 DEF T!ChooseFeatures
    <2>2. \/ training' \in {"rejected", "failed"} /\ features' = features
          \/ \E fs \in T!Lists : training' = "fit" /\ features' = fs /\ ~T!Repeats(fs)
      BY <1>2 DEF T!ChooseFeatures
    <2>3. features' \in Seq(Features)
      <3>1. \A fs \in T!Lists : fs \in Seq(Features)
        BY FeaturesAssumption, FS_CardinalityType, TrainingCounts DEF T!Lists
      <3> QED BY <2>2, <3>1 DEF TrainInv, T!TypeOK
    <2>4. T!TypeOK' /\ Best' /\ scores' = <<>>
      BY <2>1, <2>2, <2>3 DEF TrainInv, T!TypeOK, Best
    <2>5. training' \in {"fit", "explain", "trained"} => ~T!Repeats(features)'
      BY <2>2 DEF T!Repeats
    <2> QED BY <2>1, <2>2, <2>4, <2>5 DEF TrainInv
  <1>3. ASSUME T!FitRaises PROVE TrainInv'
    BY <1>3 DEF TrainInv, T!FitRaises, T!TypeOK, Best
  <1>4. ASSUME T!Explain PROVE TrainInv'
    <2>1. /\ training = "explain" /\ training' = "trained"
          /\ UNCHANGED <<column, task, features, scores, best>>
      BY <1>4 DEF T!Explain
    <2>2. importance' = Explained
      BY <1>4 DEF T!Explain, Explained
    <2>3. Explained' = Explained
      BY <2>1 DEF Explained, T!Segment, T!Outputs, T!Start, T!FirstOf, T!Before, T!LikeBefore,
                  T!Kind, T!Width, T!Declared, T!Fitted
    <2>4. Explained \in [Features -> SUBSET Features]
      BY DEF Explained, TrainInv, T!TypeOK
    <2>5. T!TypeOK'
      BY <2>1, <2>2, <2>4 DEF TrainInv, T!TypeOK
    <2> QED BY <2>1, <2>2, <2>3, <2>5 DEF TrainInv, Best, T!Repeats
  <1>5. ASSUME UNCHANGED T!vars PROVE TrainInv'
    <2>1. UNCHANGED <<training, column, task, features, scores, best, importance>>
      BY <1>5 DEF T!vars
    <2>2. Explained' = Explained
      BY <2>1 DEF Explained, T!Segment, T!Outputs, T!Start, T!FirstOf, T!Before, T!LikeBefore,
                  T!Kind, T!Width, T!Declared, T!Fitted
    <2> QED BY <2>1, <2>2 DEF TrainInv, T!TypeOK, Best, T!Repeats
  <1> QED BY <1>1, <1>2, <1>3, <1>4, <1>5, FitsCandidate DEF T!Next

\* What a trained model says of its columns.
LEMMA ColumnsAreExplained ==
    ASSUME TrainInv, training = "trained"
    PROVE  /\ \A i \in DOMAIN features :
                NoneEmpty(i) => importance[features[i]] = {features[i]}
           /\ \A c \in Features \ T!Range(features) : importance[c] = {}
  <1>1. ChosenTypes /\ ~T!Repeats(features) /\ importance = Explained
    BY DEF TrainInv, T!TypeOK, ChosenTypes
  <1>2. ASSUME NEW i \in DOMAIN features, NoneEmpty(i)
        PROVE  importance[features[i]] = {features[i]}
    <2> DEFINE mine == {j \in DOMAIN features : \E k \in DOMAIN features :
                          features[k] = features[i] /\ T!Segment(k) \cap T!Outputs(j) # {}}
    <2>1. \A k \in DOMAIN features : features[k] = features[i] => k = i
      BY <1>1 DEF T!Repeats
    <2>2. T!Segment(i) = T!Outputs(i) /\ T!Outputs(i) # {}
      BY <1>1, <1>2, SegmentIsItsOwn
    <2>3. \A j \in DOMAIN features : j # i => T!Outputs(i) \cap T!Outputs(j) = {}
      BY <1>1, OutputsApart
    <2>4. mine = {i}
      BY <2>1, <2>2, <2>3
    <2>5. features[i] \in Features
      BY <1>1 DEF ChosenTypes
    <2>6. importance[features[i]] = {features[j] : j \in mine}
      BY <1>1, <2>5 DEF Explained
    <2> HIDE DEF mine
    <2> QED BY <2>4, <2>6
  <1>3. ASSUME NEW c \in Features, c \notin T!Range(features)
        PROVE  importance[c] = {}
    BY <1>1, <1>3 DEF Explained, T!Range
  <1> QED BY <1>2, <1>3

\* For any number of columns of any kinds and widths, in any order: the winner is the best candidate
\* and a column's importance its own, if no column whose outputs come before its own is without one
\* (automl.train_automl_model, _feature_segments).
THEOREM ModelsAreExplained == SpecAll => []ModelIsExplained
  <1> DEFINE Inv == subject = "training" => TrainInv
  <1>1. InitAll => Inv
    BY TrainStart DEF InitAll
  <1>2. Inv /\ [NextAll]_all => Inv'
    BY TrainSteps, TrainStep
  <1>3. ASSUME TrainInv PROVE T!ModelIsExplained
    BY <1>3, ColumnsAreExplained DEF T!ModelIsExplained, NoneEmpty, TrainInv, Best
  <1>4. Inv => ModelIsExplained
    BY <1>3 DEF ModelIsExplained
  <1> QED BY <1>1, <1>2, <1>4, PTL DEF SpecAll

(*****************************************************************************)
(* Types                                                                     *)
(*                                                                           *)
(* Every component's inductive invariant has its types, but for the counts   *)
(* of what has happened, which bound the runs and nothing rests on.          *)
(*****************************************************************************)

EventsCounted == happened \in 0..MaxEvents
AsksCounted == asks \in 0..MaxAsks

LEMMA EventsStayCounted == EventsCounted /\ [M!Next]_(M!vars) => EventsCounted'
  <1> SUFFICES ASSUME EventsCounted, [M!Next]_(M!vars) PROVE EventsCounted'
    OBVIOUS
  <1>1. ASSUME NEW i, NEW type, NEW e, M!Report(i, type, e) PROVE EventsCounted'
    BY <1>1, TrafficAssumption DEF M!Report, EventsCounted
  <1>2. ASSUME NEW i \in Identities, NEW e \in M!Maybe, M!SignUp(i, e) \/ M!ChangeEmail(i, e)
        PROVE  EventsCounted'
    BY <1>1, <1>2 DEF M!SignUp, M!ChangeEmail
  <1>3. ASSUME NEW i \in Identities, M!CloseAccount(i) PROVE EventsCounted'
    BY <1>1, <1>3 DEF M!CloseAccount
  <1>4. ASSUME NEW i \in Identities,
               \/ M!Commit(i) \/ M!Fail(i) \/ M!GiveUp(i)
               \/ \E k \in 1..MaxEvents : M!Deliver(i, k)
        PROVE  EventsCounted'
    BY <1>4 DEF M!Commit, M!Fail, M!FailAnswering, M!GiveUp, M!Deliver, EventsCounted
  <1>5. ASSUME NEW c \in Calls,
               \/ \E i \in Identities, e \in Emails : M!FirstSight(c, i, e)
               \/ M!Insert(c) \/ M!Collide(c)
        PROVE  EventsCounted'
    BY <1>5 DEF M!FirstSight, M!Insert, M!Collide, EventsCounted
  <1>6. CASE UNCHANGED M!vars
    BY <1>6 DEF M!vars, EventsCounted
  <1> QED BY <1>2, <1>3, <1>4, <1>5, <1>6 DEF M!Next

LEMMA AsksStayCounted == AsksCounted /\ [A!Next]_(A!vars) => AsksCounted'
  <1> SUFFICES ASSUME AsksCounted, [A!Next]_(A!vars) PROVE AsksCounted'
    OBVIOUS
  <1>1. ASSUME NEW r \in Readers, NEW kind \in A!Kinds, NEW v \in Versions,
               NEW q \in Words \cup {None}, NEW refresh \in BOOLEAN, A!Ask(r, kind, v, q, refresh)
        PROVE  AsksCounted'
    <2>1. asks < MaxAsks /\ asks' = asks + 1
      BY <1>1 DEF A!Ask
    <2> QED BY <2>1, TrafficAssumption DEF AsksCounted
  <1>2. ASSUME NEW r \in Readers,
               \/ A!Look(r) \/ A!NoFile(r) \/ A!ComputeProfile(r) \/ A!ComputeInsights(r)
               \/ A!ComputeSummary(r) \/ A!ComputeQuery(r)
               \/ A!GenerateFails(r) \/ A!GenerateNothing(r) \/ A!RunQuery(r)
               \/ \E s \in A!Statements : A!Generate(r, s)
        PROVE  UNCHANGED asks
    BY <1>2 DEF A!Look, A!NoFile, A!ComputeProfile, A!ComputeInsights, A!ComputeSummary,
       A!ComputeQuery, A!GenerateFails, A!GenerateNothing, A!RunQuery, A!Generate
  <1>3. ASSUME NEW r \in Readers,
               \/ A!NarrateInsights(r) \/ A!FallBackInsights(r) \/ A!NarrateSummary(r)
               \/ A!FallBackSummary(r) \/ A!ClientFails(r) \/ A!Store(r) \/ A!Finish(r)
        PROVE  UNCHANGED asks
    BY <1>3 DEF A!NarrateInsights, A!FallBackInsights, A!NarrateSummary, A!FallBackSummary,
       A!Phrased, A!ClientFails, A!Store, A!Finish
  <1>4. ASSUME NEW k \in A!Entries, A!Forget(k) PROVE UNCHANGED asks
    BY <1>4 DEF A!Forget
  <1>5. CASE UNCHANGED A!vars
    BY <1>5 DEF A!vars, AsksCounted
  <1> QED BY <1>1, <1>2, <1>3, <1>4, <1>5 DEF A!Next, AsksCounted

LEMMA AccessSteps ==
    ASSUME [NextAll]_all, subject' = "access"
    PROVE  subject = "access" /\ [Next]_vars
  <1>1. CASE NextAll
    BY <1>1 DEF NextAll
  <1>2. CASE UNCHANGED all
    BY <1>2 DEF all, vars
  <1> QED BY <1>1, <1>2

---------------------------------------------------------------------------
(* What the invariants say of the types. *)

LEMMA MirrorIsTyped == ASSUME MirrorInv, EventsCounted PROVE M!TypeOK
  <1>1. ASSUME NEW i \in Identities
        PROVE  /\ \A k \in DOMAIN events[i] : events[i][k] \in M!Event
               /\ hook[i].at \in {0} \cup DOMAIN events[i] /\ hook[i].saw \in M!Maybe
    <2>1. /\ events[i] \in Seq(M!Event) /\ hook[i] \in Hook /\ hook[i].at \in 0..Len(events[i])
      BY DEF MirrorInv, MirrorTypes, Seen
    <2>2. DOMAIN events[i] = 1..Len(events[i])
      BY <2>1
    <2> QED BY <2>1, <2>2 DEF Hook
  <1> QED BY <1>1 DEF MirrorInv, MirrorTypes, EventsCounted, M!TypeOK, Asker

LEMMA CommentsAreTyped == ASSUME CommentsInv PROVE C!TypeOK
  <1>1. begun \in 0..MaxPosts /\ MaxPosts \in Nat /\ 1..begun \subseteq C!Ids
    BY PostsAssumption DEF CommentsInv, CommentTypes, C!Ids
  <1>2. ASSUME NEW p \in Posts
        PROVE  /\ post[p].op \in {"none", "create", "update", "delete"}
               /\ post[p].id \in C!Ids \cup {0} /\ post[p].who \in People \cup {None}
               /\ {post[p].row, post[p].old} \subseteq C!Comment \cup {None}
    <2>1. post[p] \in Post
      BY DEF CommentsInv, CommentTypes
    <2> QED BY <2>1 DEF Post
  <1> QED BY <1>1, <1>2 DEF CommentsInv, CommentTypes, C!TypeOK

LEMMA AnswersAreTyped == ASSUME AnswersInv, AsksCounted PROVE A!TypeOK
  <1>1. ASSUME NEW r \in Readers
        PROVE  /\ reader[r].stage \in {"idle", "look", "compute", "ask", "run", "phrase", "store",
                                       "answered", "failed"}
               /\ reader[r].version \in Versions \cup {None}
               /\ reader[r].question \in Words \cup {None}
               /\ reader[r].answer \in A!Answer \cup {None}
    <2>1. reader[r] \in Reader
      BY DEF AnswersInv
    <2> QED BY <2>1 DEF Reader
  <1> QED BY <1>1 DEF AnswersInv, AsksCounted, A!TypeOK

LEMMA DraftIsTyped == ASSUME DraftInv PROVE G!TypeOK
  BY DEF DraftInv, G!TypeOK, G!GridCols, Cursor, Spot

LEMMA CleaningIsTyped == ASSUME CleanInv PROVE K!TypeOK
  <1> DEFINE Kept == [op : K!Ops, columns : SUBSET K!Columns,
                      affected : 0..2 * K!Cardinality(DOMAIN origin)]
  <1>1. log \in Seq(LogEntry) /\ Cardinality(DOMAIN origin) \in Nat
    BY FS_CardinalityType DEF CleanInv, CleanTypes
  <1>2. ASSUME NEW i \in DOMAIN log PROVE log[i] \in Kept
    <2>1. log[i] \in LogEntry /\ log[i].affected <= 2 * Cardinality(DOMAIN origin)
      BY <1>1 DEF CleanInv, CleanTypes
    <2>2. log[i].affected \in 0..2 * Cardinality(DOMAIN origin)
      BY <1>1, <2>1 DEF LogEntry
    <2> QED BY <2>1, <2>2, CleaningCounts DEF LogEntry
  <1> HIDE DEF Kept
  <1>3. log \in Seq(Kept)
    BY <1>1, <1>2
  <1> QED BY <1>3 DEF Kept, CleanInv, CleanTypes, K!TypeOK

\* Every component's state stays within its types, for any number of everything.
THEOREM TypesStayCorrect == SpecAll => []TypesOK
  <1> DEFINE Passing ==
               /\ subject = "access" => IndInv
               /\ subject = "rate limit" => RateInv
               /\ subject = "sessions" => SessionsInv
               /\ subject = "user mirror" => MirrorInv /\ EventsCounted
             Contents ==
               /\ subject = "comments" => CommentsInv
               /\ subject = "answers" => AnswersInv /\ AsksCounted
               /\ subject = "generator" => DraftInv
               /\ subject = "cleaning" => CleanInv
               /\ subject = "training" => TrainInv
  <1>1. InitAll => Passing /\ Contents
    <2>1. M!Init => EventsCounted
      BY TrafficAssumption DEF M!Init, EventsCounted
    <2>2. A!Init => AsksCounted
      BY TrafficAssumption DEF A!Init, AsksCounted
    <2> QED BY <2>1, <2>2, InitInv, LimitStart, SessionsStart, MirrorStart, CommentsStart,
               AnswersStart, DraftStart, CleanStart, TrainStart DEF InitAll
  <1>2. Passing /\ [NextAll]_all => Passing'
    <2> SUFFICES ASSUME Passing, [NextAll]_all PROVE Passing'
      OBVIOUS
    <2>1. ASSUME subject' = "access" PROVE IndInv'
      BY <2>1, AccessSteps, NextInv
    <2>2. ASSUME subject' = "rate limit" PROVE RateInv'
      BY <2>2, LimitSteps, LimitStep
    <2>3. ASSUME subject' = "sessions" PROVE SessionsInv'
      BY <2>3, SessionsSteps, SessionsStep
    <2>4. ASSUME subject' = "user mirror" PROVE MirrorInv' /\ EventsCounted'
      BY <2>4, MirrorSteps, MirrorStep, EventsStayCounted
    <2> QED BY <2>1, <2>2, <2>3, <2>4
  <1>3. Contents /\ [NextAll]_all => Contents'
    <2> SUFFICES ASSUME Contents, [NextAll]_all PROVE Contents'
      OBVIOUS
    <2>1. ASSUME subject' = "comments" PROVE CommentsInv'
      BY <2>1, CommentsSteps, CommentsStep
    <2>2. ASSUME subject' = "answers" PROVE AnswersInv' /\ AsksCounted'
      BY <2>2, AnswersSteps, AnswersStep, AsksStayCounted
    <2>3. ASSUME subject' = "generator" PROVE DraftInv'
      BY <2>3, DraftSteps, DraftStep
    <2>4. ASSUME subject' = "cleaning" PROVE CleanInv'
      BY <2>4, CleanSteps, CleanStep
    <2>5. ASSUME subject' = "training" PROVE TrainInv'
      BY <2>5, TrainSteps, TrainStep
    <2> QED BY <2>1, <2>2, <2>3, <2>4, <2>5
  <1>4. Passing /\ Contents => TypesOK
    BY TypesImplyTypeOK, MirrorIsTyped, CommentsAreTyped, AnswersAreTyped, DraftIsTyped,
       CleaningIsTyped DEF IndInv, RateInv, SessionsInv, TrainInv, TypesOK
  <1> QED BY <1>1, <1>2, <1>3, <1>4, PTL DEF SpecAll
===============================================================================
