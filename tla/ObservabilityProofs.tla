------------------------- MODULE ObservabilityProofs --------------------------
(***************************************************************************)
(* Theorems about Observability, for any schedulers, collectors,           *)
(* configurations and runs: summaries are delivered to those one           *)
(* configuration names, pages are exact, and a trace has one owner.        *)
(***************************************************************************)
EXTENDS Observability, FiniteSetTheorems, SequenceTheorems, WellFoundedInduction, TLAPS

-----------------------------------------------------------------------------
(* Induction on the natural numbers, for sets of them: what is not in a set*)
(* has a least element.                                                    *)

LessThan == {pair \in Nat \X Nat : pair[1] < pair[2]}

LEMMA LessThanIsWellFounded == IsWellFoundedOn(LessThan, Nat)
  BY NatLessThanWellFounded, Zenon DEF LessThan, OpToRel

LEMMA SetInduction ==
  ASSUME NEW S, 0 \in S, \A n \in Nat : n \in S => n + 1 \in S
  PROVE  Nat \subseteq S
  <1> DEFINE Rest == Nat \ S
  <1> SUFFICES ASSUME Rest # {} PROVE FALSE
    OBVIOUS
  <1>1. Rest \subseteq Nat
    OBVIOUS
  <1> HIDE DEF Rest
  <1>2. PICK n \in Rest : \A m \in Rest : ~ (<<m, n>> \in LessThan)
    BY <1>1, LessThanIsWellFounded, WFMin
  <1>3. n \in Nat /\ n \notin S
    BY DEF Rest
  <1>4. n - 1 \in Nat
    BY <1>3
  <1>5. <<n - 1, n>> \in LessThan
    BY <1>3, <1>4 DEF LessThan
  <1>6. n - 1 \in S
    BY <1>2, <1>4, <1>5 DEF Rest
  <1>7. (n - 1) + 1 \in S
    BY <1>4, <1>6
  <1> QED
    BY <1>3, <1>7

-----------------------------------------------------------------------------
(* The sum of a sequence.                                                  *)

IsSum(sum, amounts, length) ==
  sum = [n \in 0 .. length |-> IF n = 0 THEN 0 ELSE sum[n - 1] + amounts[n]]

LEMMA SumExists ==
  ASSUME NEW amounts
  PROVE  \A length \in Nat : \E sum : IsSum(sum, amounts, length)
  <1> DEFINE S == {length \in Nat : \E sum : IsSum(sum, amounts, length)}
  <1>1. 0 \in S
    <2>1. IsSum([n \in 0 .. 0 |-> 0], amounts, 0)
      BY DEF IsSum
    <2> QED
      BY <2>1
  <1>2. ASSUME NEW length \in Nat, length \in S PROVE length + 1 \in S
    <2>1. PICK sum : IsSum(sum, amounts, length)
      BY <1>2
    <2> DEFINE longer == [n \in 0 .. length + 1 |->
                            IF n = length + 1 THEN sum[length] + amounts[n] ELSE sum[n]]
    <2>2. \A n \in 0 .. length : sum[n] = IF n = 0 THEN 0 ELSE sum[n - 1] + amounts[n]
      BY <2>1 DEF IsSum
    <2>3. \A n \in 0 .. length + 1 :
            longer[n] = IF n = 0 THEN 0 ELSE longer[n - 1] + amounts[n]
      BY <2>2
    <2>4. IsSum(longer, amounts, length + 1)
      BY <2>3 DEF IsSum
    <2> QED
      BY <2>4
  <1> HIDE DEF S
  <1>3. Nat \subseteq S
    BY <1>1, <1>2, SetInduction
  <1> QED
    BY <1>3 DEF S

(* Two of them agree as far as their sequences do.                         *)
LEMMA SumsAgree ==
  ASSUME NEW a, NEW b, NEW f, NEW g, NEW k \in Nat, NEW l \in Nat, k <= l,
         IsSum(f, a, k), IsSum(g, b, l),
         \A n \in 1 .. k : a[n] = b[n]
  PROVE  \A n \in 0 .. k : f[n] = g[n]
  <1> DEFINE S == {n \in Nat : n <= k => f[n] = g[n]}
  <1>1. /\ \A n \in 0 .. k : f[n] = IF n = 0 THEN 0 ELSE f[n - 1] + a[n]
        /\ \A n \in 0 .. l : g[n] = IF n = 0 THEN 0 ELSE g[n - 1] + b[n]
    BY DEF IsSum
  <1>2. 0 \in S
    BY <1>1
  <1>3. ASSUME NEW n \in Nat, n \in S PROVE n + 1 \in S
    <2> SUFFICES ASSUME n + 1 <= k PROVE f[n + 1] = g[n + 1]
      OBVIOUS
    <2>1. f[n] = g[n] /\ a[n + 1] = b[n + 1]
      BY <1>3
    <2>2. f[n + 1] = f[n] + a[n + 1] /\ g[n + 1] = g[n] + b[n + 1]
      BY <1>1
    <2> QED
      BY <2>1, <2>2
  <1> HIDE DEF S
  <1>4. Nat \subseteq S
    BY <1>2, <1>3, SetInduction
  <1> QED
    BY <1>4 DEF S

LEMMA SumOfIsSum ==
  ASSUME NEW T, NEW amounts \in Seq(T)
  PROVE  \E sum : IsSum(sum, amounts, Len(amounts)) /\ SumOf(amounts) = sum[Len(amounts)]
  <1>1. Len(amounts) \in Nat
    OBVIOUS
  <1> DEFINE sum == CHOOSE sum : IsSum(sum, amounts, Len(amounts))
  <1>2. IsSum(sum, amounts, Len(amounts))
    BY <1>1, SumExists
  <1>3. SumOf(amounts) = sum[Len(amounts)]
    BY DEF SumOf, IsSum
  <1> QED
    BY <1>2, <1>3

LEMMA SumOfAppend ==
  ASSUME NEW amounts \in Seq(Nat), NEW amount \in Nat
  PROVE  SumOf(Append(amounts, amount)) = SumOf(amounts) + amount
  <1> DEFINE more == Append(amounts, amount)
             k == Len(amounts)
  <1>1. /\ k \in Nat /\ more \in Seq(Nat) /\ Len(more) = k + 1
        /\ \A n \in 1 .. k : amounts[n] = more[n]
        /\ more[k + 1] = amount
    OBVIOUS
  <1> HIDE DEF more
  <1>2. PICK f : IsSum(f, amounts, k) /\ SumOf(amounts) = f[k]
    BY SumOfIsSum
  <1>3. PICK g : IsSum(g, more, k + 1) /\ SumOf(more) = g[k + 1]
    BY <1>1, SumOfIsSum
  <1> HIDE DEF k
  <1>4. f[k] = g[k]
    BY <1>1, <1>2, <1>3, SumsAgree
  <1>5. g[k + 1] = g[k] + more[k + 1]
    BY <1>1, <1>3 DEF IsSum
  <1> QED
    BY <1>1, <1>2, <1>3, <1>4, <1>5 DEF more

LEMMA SumOfNat ==
  ASSUME NEW amounts \in Seq(Nat)
  PROVE  /\ SumOf(amounts) \in Nat
         /\ (\A n \in 1 .. Len(amounts) : amounts[n] = 0) => SumOf(amounts) = 0
  <1> DEFINE k == Len(amounts)
  <1>1. k \in Nat /\ \A n \in 1 .. k : amounts[n] \in Nat
    OBVIOUS
  <1>2. PICK f : IsSum(f, amounts, k) /\ SumOf(amounts) = f[k]
    BY SumOfIsSum
  <1>3. \A n \in 0 .. k : f[n] = IF n = 0 THEN 0 ELSE f[n - 1] + amounts[n]
    BY <1>2 DEF IsSum
  <1> HIDE DEF k
  <1> DEFINE Typed == {n \in Nat : n <= k => f[n] \in Nat}
             Zero  == {n \in Nat : n <= k => f[n] = 0}
  <1>4. 0 \in Typed /\ 0 \in Zero
    BY <1>1, <1>3
  <1>5. ASSUME NEW n \in Nat, n \in Typed PROVE n + 1 \in Typed
    <2> SUFFICES ASSUME n + 1 <= k PROVE f[n + 1] \in Nat
      OBVIOUS
    <2>1. f[n + 1] = f[n] + amounts[n + 1] /\ amounts[n + 1] \in Nat
      BY <1>1, <1>3
    <2>2. f[n] \in Nat
      BY <1>1, <1>5
    <2> QED
      BY <2>1, <2>2
  <1>6. ASSUME \A n \in 1 .. k : amounts[n] = 0, NEW n \in Nat, n \in Zero
        PROVE  n + 1 \in Zero
    <2> SUFFICES ASSUME n + 1 <= k PROVE f[n + 1] = 0
      OBVIOUS
    <2>1. f[n + 1] = f[n] + amounts[n + 1] /\ amounts[n + 1] = 0
      BY <1>1, <1>3, <1>6
    <2>2. f[n] = 0
      BY <1>1, <1>6
    <2> QED
      BY <2>1, <2>2
  <1> HIDE DEF Typed, Zero
  <1>7. Nat \subseteq Typed
    BY <1>4, <1>5, SetInduction
  <1>8. (\A n \in 1 .. k : amounts[n] = 0) => Nat \subseteq Zero
    BY <1>4, <1>6, SetInduction
  <1> QED
    BY <1>1, <1>2, <1>7, <1>8 DEF Typed, Zero, k

-----------------------------------------------------------------------------
(* What runs add up to.                                                    *)

Amounts(runs, key, amount) ==
  [i \in DOMAIN runs |-> IF runs[i].key = key THEN amount[runs[i]] ELSE 0]

LEMMA AmountsAreNat ==
  ASSUME NEW runs \in Seq(Runs), NEW key, NEW amount \in [Runs -> Nat]
  PROVE  Amounts(runs, key, amount) \in Seq(Nat)
  <1> DEFINE F == Amounts(runs, key, amount)
  <1>1. DOMAIN runs = 1 .. Len(runs) /\ Len(runs) \in Nat
    OBVIOUS
  <1>2. \A i \in 1 .. Len(runs) : F[i] \in Nat
    BY <1>1 DEF Amounts
  <1>3. F \in [1 .. Len(runs) -> Nat]
    BY <1>1, <1>2 DEF Amounts
  <1> QED
    BY <1>1, <1>3

LEMMA TotalOfNone ==
  ASSUME NEW runs \in Seq(Runs), NEW key, NEW amount \in [Runs -> Nat],
         \A i \in DOMAIN runs : runs[i].key # key
  PROVE  Total(runs, key, amount) = 0
  <1> DEFINE F == Amounts(runs, key, amount)
  <1>1. F \in Seq(Nat)
    BY AmountsAreNat
  <1>2. \A i \in 1 .. Len(F) : F[i] = 0
    BY DEF Amounts
  <1>3. Total(runs, key, amount) = SumOf(F)
    BY DEF Total, Amounts
  <1> HIDE DEF F
  <1> QED
    BY <1>1, <1>2, <1>3, SumOfNat

LEMMA TotalAppend ==
  ASSUME NEW runs \in Seq(Runs), NEW run \in Runs, NEW key, NEW amount \in [Runs -> Nat]
  PROVE  Total(Append(runs, run), key, amount) =
           IF run.key = key THEN Total(runs, key, amount) + amount[run]
                            ELSE Total(runs, key, amount)
  <1> DEFINE F == Amounts(runs, key, amount)
             G == Amounts(Append(runs, run), key, amount)
             more == IF run.key = key THEN amount[run] ELSE 0
  <1>1. F \in Seq(Nat) /\ more \in Nat
    BY AmountsAreNat
  <1>2. G = Append(F, more)
    <2>1. Append(runs, run) \in Seq(Runs)
      OBVIOUS
    <2>2. G \in Seq(Nat)
      BY <2>1, AmountsAreNat
    <2>3. /\ DOMAIN G = 1 .. Len(runs) + 1
          /\ DOMAIN F = 1 .. Len(runs)
          /\ G[Len(runs) + 1] = more
          /\ \A i \in 1 .. Len(runs) : G[i] = F[i]
      BY DEF Amounts
    <2> HIDE DEF F, G, more
    <2>4. Len(F) = Len(runs) /\ Len(G) = Len(runs) + 1
      BY <1>1, <2>2, <2>3
    <2>5. /\ Append(F, more) \in Seq(Nat)
          /\ Len(Append(F, more)) = Len(runs) + 1
          /\ \A i \in 1 .. Len(runs) : Append(F, more)[i] = F[i]
          /\ Append(F, more)[Len(runs) + 1] = more
      BY <1>1, <2>4, AppendProperties
    <2>6. \A i \in 1 .. Len(runs) + 1 : G[i] = Append(F, more)[i]
      BY <2>3, <2>5
    <2> QED
      BY <2>2, <2>4, <2>5, <2>6, SeqEqual
  <1>3. /\ Total(runs, key, amount) = SumOf(F)
        /\ Total(Append(runs, run), key, amount) = SumOf(G)
    BY DEF Total, Amounts
  <1> HIDE DEF F, G
  <1>4. SumOf(G) = SumOf(F) + more /\ SumOf(F) \in Nat
    BY <1>1, <1>2, SumOfAppend, SumOfNat
  <1> QED
    BY <1>3, <1>4

-----------------------------------------------------------------------------
(* The summary of a run against the run itself.                            *)

WithOutcome(run, outcome) == {i \in DOMAIN run.outcomes : run.outcomes[i] = outcome}

LEMMA OutcomesAreFinite ==
  ASSUME NEW run \in Runs, NEW outcome
  PROVE  /\ IsFiniteSet(WithOutcome(run, outcome))
         /\ Times(run, outcome) = Cardinality(WithOutcome(run, outcome))
         /\ Times(run, outcome) \in Nat
  <1>1. run.outcomes \in Seq(Outcomes)
    BY ObservabilityAssumption DEF WorkGroupRun
  <1>2. IsFiniteSet(1 .. Len(run.outcomes))
    BY <1>1, FS_Interval
  <1>3. WithOutcome(run, outcome) \subseteq 1 .. Len(run.outcomes)
    BY <1>1 DEF WithOutcome
  <1>4. IsFiniteSet(WithOutcome(run, outcome))
    BY <1>2, <1>3, FS_Subset
  <1> QED
    BY <1>4, FS_CardinalityType DEF Times, WithOutcome

LEMMA EndedIsFailed ==
  ASSUME NEW run \in Runs
  PROVE  Ended(run) = IF RunWorkGroup(run).failed THEN 1 ELSE 0
  <1> DEFINE n == Len(run.outcomes)
  <1>1. /\ run.outcomes \in Seq(Outcomes)
        /\ \A i \in DOMAIN run.outcomes : Stops(run.outcomes[i]) => i = n
    BY ObservabilityAssumption DEF WorkGroupRun
  <1>2. Ended(run) = Cardinality(WithOutcome(run, "failed"))
                     + Cardinality(WithOutcome(run, "cancelled"))
    BY OutcomesAreFinite DEF Ended
  <1>3. Cardinality({}) = 0 /\ Cardinality({n}) = 1
    BY FS_EmptySet, FS_Singleton
  <1>4. CASE n \in DOMAIN run.outcomes /\ run.outcomes[n] = "failed"
    <2>1. WithOutcome(run, "failed") = {n} /\ WithOutcome(run, "cancelled") = {}
      BY <1>1, <1>4 DEF WithOutcome, Stops
    <2>2. RunWorkGroup(run).failed
      BY <1>4 DEF RunWorkGroup, Stops
    <2>3. Cardinality({n}) + Cardinality({}) = 1
      BY <1>3
    <2> QED
      BY <1>2, <2>1, <2>2, <2>3, Zenon
  <1>5. CASE n \in DOMAIN run.outcomes /\ run.outcomes[n] = "cancelled"
    <2>1. WithOutcome(run, "cancelled") = {n} /\ WithOutcome(run, "failed") = {}
      BY <1>1, <1>5 DEF WithOutcome, Stops
    <2>2. RunWorkGroup(run).failed
      BY <1>5 DEF RunWorkGroup, Stops
    <2>3. Cardinality({}) + Cardinality({n}) = 1
      BY <1>3
    <2> QED
      BY <1>2, <2>1, <2>2, <2>3, Zenon
  <1>6. CASE ~ (n \in DOMAIN run.outcomes /\ Stops(run.outcomes[n]))
    <2>1. WithOutcome(run, "cancelled") = {} /\ WithOutcome(run, "failed") = {}
      BY <1>1, <1>6 DEF WithOutcome, Stops
    <2>2. ~ RunWorkGroup(run).failed
      BY <1>1, <1>6 DEF RunWorkGroup
    <2>3. Cardinality({}) + Cardinality({}) = 0
      BY <1>3
    <2> QED
      BY <1>2, <2>1, <2>2, <2>3, Zenon
  <1> QED
    BY <1>4, <1>5, <1>6 DEF Stops

LEMMA DisjointUnion ==
  ASSUME NEW S, NEW T, IsFiniteSet(S), IsFiniteSet(T), S \cap T = {}
  PROVE  /\ IsFiniteSet(S \cup T)
         /\ Cardinality(S \cup T) = Cardinality(S) + Cardinality(T)
  <1>1. Cardinality(S \cap T) = 0
    BY FS_EmptySet
  <1>2. Cardinality(S) \in Nat /\ Cardinality(T) \in Nat
    BY FS_CardinalityType
  <1>3. /\ IsFiniteSet(S \cup T)
        /\ Cardinality(S \cup T) = Cardinality(S) + Cardinality(T) - Cardinality(S \cap T)
    BY FS_Union
  <1> QED
    BY <1>1, <1>2, <1>3

(* Every system was executed, skipped or stopped at.                       *)
LEMMA SkippedIsRest ==
  ASSUME NEW run \in Runs
  PROVE  RunWorkGroup(run).skipped =
           Len(run.outcomes) - Ended(run) - Times(run, "executed")
  <1> DEFINE e == WithOutcome(run, "executed")
             s == WithOutcome(run, "skipped")
             d == WithOutcome(run, "notDue")
             f == WithOutcome(run, "failed")
             c == WithOutcome(run, "cancelled")
  <1>1. run.outcomes \in Seq(Outcomes)
    BY ObservabilityAssumption DEF WorkGroupRun
  <1>2. Cardinality(1 .. Len(run.outcomes)) = Len(run.outcomes)
    BY <1>1, FS_Interval
  <1>3. 1 .. Len(run.outcomes) = (e \cup s) \cup (d \cup (f \cup c))
    BY <1>1 DEF WithOutcome, Outcomes
  <1>4. /\ e \cap s = {} /\ d \cap (f \cup c) = {} /\ f \cap c = {}
        /\ (e \cup s) \cap (d \cup (f \cup c)) = {}
    BY DEF WithOutcome
  <1>5. /\ IsFiniteSet(e) /\ IsFiniteSet(s) /\ IsFiniteSet(d)
        /\ IsFiniteSet(f) /\ IsFiniteSet(c)
    BY OutcomesAreFinite
  <1> HIDE DEF e, s, d, f, c
  <1>7. /\ IsFiniteSet(e \cup s) /\ Cardinality(e \cup s) = Cardinality(e) + Cardinality(s)
        /\ IsFiniteSet(f \cup c) /\ Cardinality(f \cup c) = Cardinality(f) + Cardinality(c)
    BY <1>4, <1>5, DisjointUnion
  <1>8. /\ IsFiniteSet(d \cup (f \cup c))
        /\ Cardinality(d \cup (f \cup c)) = Cardinality(d) + Cardinality(f \cup c)
    BY <1>4, <1>5, <1>7, DisjointUnion
  <1>9. Len(run.outcomes) = Cardinality(e \cup s) + Cardinality(d \cup (f \cup c))
    BY <1>2, <1>3, <1>4, <1>7, <1>8, DisjointUnion, Zenon
  <1>10. /\ Cardinality(e) = Times(run, "executed") /\ Cardinality(e) \in Nat
         /\ Cardinality(s) = Times(run, "skipped") /\ Cardinality(s) \in Nat
         /\ Cardinality(d) = Times(run, "notDue") /\ Cardinality(d) \in Nat
         /\ Cardinality(f) = Times(run, "failed") /\ Cardinality(f) \in Nat
         /\ Cardinality(c) = Times(run, "cancelled") /\ Cardinality(c) \in Nat
    BY OutcomesAreFinite DEF e, s, d, f, c
  <1>11. RunWorkGroup(run).skipped = Times(run, "skipped") + Times(run, "notDue")
    BY DEF RunWorkGroup
  <1> QED
    BY <1>7, <1>8, <1>9, <1>10, <1>11 DEF Ended

-----------------------------------------------------------------------------
(* What a page says after one run more.                                    *)

LEMMA KeysAppend ==
  ASSUME NEW runs \in Seq(Runs), NEW run \in Runs
  PROVE  KeysOf(Append(runs, run)) = KeysOf(runs) \cup {run.key}
  <1> DEFINE more == Append(runs, run)
  <1>1. /\ DOMAIN more = DOMAIN runs \cup {Len(runs) + 1}
        /\ more[Len(runs) + 1] = run
        /\ \A i \in DOMAIN runs : more[i] = runs[i]
    OBVIOUS
  <1> HIDE DEF more
  <1> QED
    BY <1>1 DEF KeysOf, more

LEMMA CountAppend ==
  ASSUME NEW runs \in Seq(Runs), NEW run \in Runs, NEW key
  PROVE  LET of(seq) == {i \in DOMAIN seq : seq[i].key = key}
         IN  /\ Cardinality(of(Append(runs, run))) =
                  IF run.key = key THEN Cardinality(of(runs)) + 1 ELSE Cardinality(of(runs))
             /\ key \notin KeysOf(runs) => Cardinality(of(runs)) = 0
  <1> DEFINE more == Append(runs, run)
             old == {i \in DOMAIN runs : runs[i].key = key}
             new == {i \in DOMAIN more : more[i].key = key}
             next == Len(runs) + 1
  <1>1. /\ DOMAIN more = DOMAIN runs \cup {next}
        /\ more[next] = run /\ next \notin DOMAIN runs
        /\ \A i \in DOMAIN runs : more[i] = runs[i]
    OBVIOUS
  <1>2. IsFiniteSet(DOMAIN runs)
    BY FS_Interval
  <1> HIDE DEF more, next
  <1>3. IsFiniteSet(old)
    BY <1>2, FS_Subset
  <1>4. new = IF run.key = key THEN old \cup {next} ELSE old
    BY <1>1
  <1>5. next \notin old
    BY <1>1
  <1>6. Cardinality(old \cup {next}) = Cardinality(old) + 1
    BY <1>3, <1>5, FS_AddElement
  <1>7. Cardinality(new) = IF run.key = key THEN Cardinality(old) + 1 ELSE Cardinality(old)
    BY <1>4, <1>6
  <1>8. key \notin KeysOf(runs) => old = {}
    BY DEF KeysOf
  <1>9. Cardinality({}) = 0
    BY FS_EmptySet
  <1> QED
    BY <1>7, <1>8, <1>9, Zenon DEF more

LEMMA DurationAppend ==
  ASSUME NEW runs \in Seq(Runs), NEW run \in Runs, NEW key
  PROVE  /\ DurationOf(Append(runs, run), key) =
              IF run.key = key
                THEN Metrics!AddDuration(DurationOf(runs, key), RunWorkGroup(run))
                ELSE DurationOf(runs, key)
         /\ key \notin KeysOf(runs) => DurationOf(runs, key) = Metrics!NoDuration
  <1> DEFINE amount == [r \in Runs |-> r.duration]
             within(b) == [r \in Runs |-> IF r.duration <= Buckets[b] THEN 1 ELSE 0]
             more == Append(runs, run)
             of(seq) == {i \in DOMAIN seq : seq[i].key = key}
  <1>1. amount \in [Runs -> Nat] /\ \A b : within(b) \in [Runs -> Nat]
    BY ObservabilityAssumption DEF WorkGroupRun
  <1>2. amount[run] = run.duration /\ run.duration \in Nat
    BY ObservabilityAssumption DEF WorkGroupRun
  <1>3. \A b : within(b)[run] = IF run.duration <= Buckets[b] THEN 1 ELSE 0
    OBVIOUS
  <1>4. /\ RunWorkGroup(run).duration = run.duration
    BY DEF RunWorkGroup
  <1>5. /\ Cardinality(of(more)) =
             IF run.key = key THEN Cardinality(of(runs)) + 1 ELSE Cardinality(of(runs))
        /\ key \notin KeysOf(runs) => Cardinality(of(runs)) = 0
    BY CountAppend
  <1>6. key \notin KeysOf(runs) => \A i \in DOMAIN runs : runs[i].key # key
    BY DEF KeysOf
  <1>7. \A seq : DurationOf(seq, key) =
          [sum |-> Total(seq, key, amount), count |-> Cardinality(of(seq)),
           buckets |-> [b \in DOMAIN Buckets |-> Total(seq, key, within(b))]]
    BY DEF DurationOf
  <1> HIDE DEF amount, within, of, more
  <1>8. /\ Total(more, key, amount) =
             IF run.key = key THEN Total(runs, key, amount) + run.duration
                              ELSE Total(runs, key, amount)
        /\ key \notin KeysOf(runs) => Total(runs, key, amount) = 0
    BY <1>1, <1>2, <1>6, TotalAppend, TotalOfNone DEF more
  <1>9. ASSUME NEW b
        PROVE  /\ Total(more, key, within(b)) =
                    IF run.key = key
                      THEN Total(runs, key, within(b))
                             + (IF run.duration <= Buckets[b] THEN 1 ELSE 0)
                      ELSE Total(runs, key, within(b))
               /\ key \notin KeysOf(runs) => Total(runs, key, within(b)) = 0
               /\ Total(runs, key, within(b)) \in Nat
    <2>1. within(b) \in [Runs -> Nat]
      BY <1>1
    <2>2. /\ Total(more, key, within(b)) =
               IF run.key = key THEN Total(runs, key, within(b)) + within(b)[run]
                                ELSE Total(runs, key, within(b))
          /\ key \notin KeysOf(runs) => Total(runs, key, within(b)) = 0
      BY <2>1, <1>6, TotalAppend, TotalOfNone DEF more
    <2>3. Total(runs, key, within(b)) \in Nat
      BY <2>1, AmountsAreNat, SumOfNat DEF Total, Amounts
    <2> QED
      BY <2>2, <2>3, <1>3
  <1>10. CASE run.key # key
    <2>1. [b \in DOMAIN Buckets |-> Total(more, key, within(b))]
            = [b \in DOMAIN Buckets |-> Total(runs, key, within(b))]
      BY <1>9, <1>10
    <2> QED
      BY <1>5, <1>7, <1>8, <1>9, <1>10, <2>1 DEF more, Metrics!NoDuration
  <1>11. CASE run.key = key
    <2>1. \A b : Total(more, key, within(b)) =
            IF run.duration <= Buckets[b] THEN Total(runs, key, within(b)) + 1
                                          ELSE Total(runs, key, within(b))
      BY <1>9, <1>11
    <2>2. [b \in DOMAIN Buckets |-> Total(more, key, within(b))]
            = Metrics!Bucketed([b \in DOMAIN Buckets |-> Total(runs, key, within(b))],
                               run.duration)
      BY <2>1 DEF Metrics!Bucketed
    <2>3. DurationOf(more, key)
            = Metrics!AddDuration(DurationOf(runs, key), RunWorkGroup(run))
      BY <1>4, <1>5, <1>7, <1>8, <1>11, <2>2 DEF Metrics!AddDuration
    <2> QED
      BY <1>5, <1>7, <1>8, <1>9, <1>11, <2>3 DEF more, Metrics!NoDuration
  <1> QED
    BY <1>10, <1>11

LEMMA CounterAppend ==
  ASSUME NEW runs \in Seq(Runs), NEW run \in Runs, NEW key
  PROVE  /\ CounterOf(Append(runs, run), key) =
              IF run.key = key
                THEN Metrics!AddCounts(CounterOf(runs, key), RunWorkGroup(run))
                ELSE CounterOf(runs, key)
         /\ key \notin KeysOf(runs) => CounterOf(runs, key) = Metrics!NoCounter
  <1> DEFINE executed == [r \in Runs |-> Times(r, "executed")]
             skipped == [r \in Runs |-> Len(r.outcomes) - Ended(r) - Times(r, "executed")]
             errors == [r \in Runs |-> Ended(r)]
             more == Append(runs, run)
  <1>1. executed \in [Runs -> Nat]
    BY OutcomesAreFinite
  <1>2. skipped \in [Runs -> Nat]
    <2> SUFFICES ASSUME NEW r \in Runs
                 PROVE  Len(r.outcomes) - Ended(r) - Times(r, "executed") \in Nat
      OBVIOUS
    <2>1. Times(r, "skipped") \in Nat /\ Times(r, "notDue") \in Nat
      BY OutcomesAreFinite
    <2>2. RunWorkGroup(r).skipped = Times(r, "skipped") + Times(r, "notDue")
      BY DEF RunWorkGroup
    <2> QED
      BY <2>1, <2>2, SkippedIsRest
  <1>3. errors \in [Runs -> Nat]
    <2>1. \A r \in Runs : Ended(r) \in Nat
      BY EndedIsFailed
    <2> QED
      BY <2>1
  <1>4. /\ executed[run] = RunWorkGroup(run).executed
        /\ skipped[run] = RunWorkGroup(run).skipped
        /\ errors[run] = IF RunWorkGroup(run).failed THEN 1 ELSE 0
    <2>1. executed[run] = RunWorkGroup(run).executed
      BY DEF RunWorkGroup
    <2> QED
      BY <2>1, SkippedIsRest, EndedIsFailed
  <1>5. key \notin KeysOf(runs) => \A i \in DOMAIN runs : runs[i].key # key
    BY DEF KeysOf
  <1>6. \A seq : CounterOf(seq, key) =
          [executed |-> Total(seq, key, executed), skipped |-> Total(seq, key, skipped),
           errors |-> Total(seq, key, errors)]
    BY DEF CounterOf
  <1> HIDE DEF executed, skipped, errors, more
  <1>7. ASSUME NEW amount \in [Runs -> Nat]
        PROVE  /\ Total(more, key, amount) =
                    IF run.key = key THEN Total(runs, key, amount) + amount[run]
                                     ELSE Total(runs, key, amount)
               /\ key \notin KeysOf(runs) => Total(runs, key, amount) = 0
               /\ Total(runs, key, amount) \in Nat
    <2>1. Total(runs, key, amount) \in Nat
      BY AmountsAreNat, SumOfNat DEF Total, Amounts
    <2> QED
      BY <2>1, <1>5, TotalAppend, TotalOfNone DEF more
  <1>8. key \notin KeysOf(runs) => CounterOf(runs, key) = Metrics!NoCounter
    BY <1>1, <1>2, <1>3, <1>6, <1>7 DEF Metrics!NoCounter
  <1>9. CASE run.key # key
    BY <1>1, <1>2, <1>3, <1>6, <1>7, <1>8, <1>9 DEF more
  <1>10. CASE run.key = key
    <2>1. Total(more, key, errors) =
            IF RunWorkGroup(run).failed THEN Total(runs, key, errors) + 1
                                        ELSE Total(runs, key, errors)
      BY <1>3, <1>4, <1>7, <1>10
    <2>2. /\ Total(more, key, executed)
               = Total(runs, key, executed) + RunWorkGroup(run).executed
          /\ Total(more, key, skipped)
               = Total(runs, key, skipped) + RunWorkGroup(run).skipped
      BY <1>1, <1>2, <1>4, <1>7, <1>10
    <2> QED
      BY <1>6, <1>8, <1>10, <2>1, <2>2 DEF more, Metrics!AddCounts
  <1> QED
    BY <1>9, <1>10

(* ObserveWorkGroup keeps a collector equal to what its runs add up to.    *)
LEMMA ExposedAppend ==
  ASSUME NEW runs \in Seq(Runs), NEW run \in Runs
  PROVE  LET summary == RunWorkGroup(run)
             d == Exposed(runs).durations
             c == Exposed(runs).counters
         IN  /\ Exposed(Append(runs, run)).durations =
                  Metrics!With(d, summary.key,
                    Metrics!AddDuration(
                      Metrics!Sample(d, summary.key, Metrics!NoDuration), summary))
             /\ Exposed(Append(runs, run)).counters =
                  Metrics!With(c, summary.key,
                    Metrics!AddCounts(
                      Metrics!Sample(c, summary.key, Metrics!NoCounter), summary))
  <1> DEFINE more == Append(runs, run)
             d == [key \in KeysOf(runs) |-> DurationOf(runs, key)]
             c == [key \in KeysOf(runs) |-> CounterOf(runs, key)]
  <1>1. /\ Exposed(runs).durations = d /\ Exposed(runs).counters = c
        /\ Exposed(more).durations = [key \in KeysOf(more) |-> DurationOf(more, key)]
        /\ Exposed(more).counters = [key \in KeysOf(more) |-> CounterOf(more, key)]
    BY DEF Exposed
  <1>2. KeysOf(more) = KeysOf(runs) \cup {run.key}
    BY KeysAppend
  <1>3. RunWorkGroup(run).key = run.key
    BY DEF RunWorkGroup
  <1>4. /\ Metrics!Sample(d, run.key, Metrics!NoDuration) = DurationOf(runs, run.key)
        /\ Metrics!Sample(c, run.key, Metrics!NoCounter) = CounterOf(runs, run.key)
    BY DurationAppend, CounterAppend DEF Metrics!Sample
  <1>5. \A key : /\ DurationOf(more, key) =
                      IF run.key = key
                        THEN Metrics!AddDuration(DurationOf(runs, key), RunWorkGroup(run))
                        ELSE DurationOf(runs, key)
                 /\ CounterOf(more, key) =
                      IF run.key = key
                        THEN Metrics!AddCounts(CounterOf(runs, key), RunWorkGroup(run))
                        ELSE CounterOf(runs, key)
    BY DurationAppend, CounterAppend
  <1> HIDE DEF more
  <1>6. [key \in KeysOf(more) |-> DurationOf(more, key)] =
          Metrics!With(d, run.key,
            Metrics!AddDuration(DurationOf(runs, run.key), RunWorkGroup(run)))
    BY <1>2, <1>5 DEF Metrics!With
  <1>7. [key \in KeysOf(more) |-> CounterOf(more, key)] =
          Metrics!With(c, run.key,
            Metrics!AddCounts(CounterOf(runs, run.key), RunWorkGroup(run)))
    BY <1>2, <1>5 DEF Metrics!With
  <1> QED
    BY <1>1, <1>3, <1>4, <1>6, <1>7 DEF more

-----------------------------------------------------------------------------
(* The invariants.                                                         *)

All == Supplied \cup OwnCollectors

PublicationRecord ==
  [pc : {"idle", "read", "typeRead", "dataRead", "telling", "observing"},
   run : Runs \cup {Quiet.run}, type : {"noop", "composite"} \cup Kinds,
   left : Seq(ObserverRecord), told : Seq(ObserverRecord), offered : SUBSET Configs]

TypeInv ==
  /\ instrumentation \in [Schedulers -> Configs]
  /\ observer \in [Schedulers -> Seq(ObserverRecord)]
  /\ publication \in [Schedulers -> PublicationRecord]
  /\ reconfigs \in 0 .. MaxReconfigs
  /\ published \in 0 .. MaxSummaries

(* A trace has an owner.                                                   *)
TraceInv ==
  \/ runtimeTracing = FALSE /\ traced = {}
  \/ runtimeTracing = TRUE /\ \E t \in Callers : traced = {t}

(* A part of the chain of cfg.                                             *)
PartOf(part, cfg) ==
  /\ part.kind = "prometheus" <=> part.collector # NoCollector
  /\ part.kind = "prometheus" => part.effective
  /\ part.kind = "prometheus" =>
       part.collector \in IF cfg.collector = NoCollector THEN OwnCollectors
                                                         ELSE {cfg.collector}
  /\ part.effective => Tells(cfg, part.kind)

PartsOf(parts, cfg) ==
  /\ \A k, l \in DOMAIN parts : k < l => Rank[parts[k].kind] < Rank[parts[l].kind]
  /\ \A k \in DOMAIN parts : PartOf(parts[k], cfg)

Has(parts, kind) == \E k \in DOMAIN parts : parts[k].kind = kind /\ parts[k].effective

(* Those told and those left are, together, everyone cfg names.            *)
Divided(told, left, cfg) ==
  /\ PartsOf(told, cfg) /\ PartsOf(left, cfg)
  /\ \A k \in DOMAIN told : told[k].effective
  /\ \A k \in DOMAIN told, l \in DOMAIN left : Rank[told[k].kind] < Rank[left[l].kind]
  /\ \A kind \in Kinds : Tells(cfg, kind) => Has(told, kind) \/ Has(left, kind)

(* How far s is with a summary, and by what configuration.                 *)
BuiltInv(s) ==
  \E n \in 0 .. MaxReconfigs : observer[s] = BuildObserverChain(instrumentation[s], <<s, n>>)

PublicationInv(s) ==
  LET p == publication[s]
  IN  /\ p.pc # "idle" => instrumentation[s] \in p.offered /\ p.run \in Runs
      /\ p.pc = "idle" /\ p.offered # {} => \E cfg \in p.offered : Divided(p.told, <<>>, cfg)
      /\ p.pc \in {"read", "typeRead", "dataRead"} => p.told = <<>>
      /\ p.pc = "typeRead" => \E cfg \in p.offered :
           p.type = TypeOf(BuildObserverChain(cfg, <<s, 0>>))
      /\ p.pc = "dataRead" => \E cfg \in p.offered, n \in 0 .. MaxReconfigs :
           p.left = BuildObserverChain(cfg, <<s, n>>)
      /\ p.pc \in {"telling", "observing"} =>
           p.left # <<>> /\ \E cfg \in p.offered : Divided(p.told, p.left, cfg)
      /\ p.pc = "observing" => Part(s).kind = "prometheus"

CrashInv ==
  crashed => \E s \in Schedulers :
    Cardinality({TypeOf(BuildObserverChain(cfg, <<s, 0>>)) :
                   cfg \in publication[s].offered}) > 1

DeliveryInv ==
  /\ TypeInv
  /\ \A s \in Schedulers : BuiltInv(s) /\ PublicationInv(s)
  /\ CrashInv

(* Who has locked a collector, and what it says meanwhile.                 *)
Observes(s, c) == At(s, "observing") /\ Part(s).collector = c

LockInv ==
  /\ holder \in [All -> Schedulers \cup {Scraper, Nobody}]
  /\ \A s \in Schedulers, c \in All : holder[c] = s <=> Observes(s, c)
  /\ \A c \in All : holder[c] = Scraper <=> ~pages[c].whole

Entered(c) ==
  IF holder[c] \in Schedulers THEN Append(observed[c], publication[holder[c]].run)
                              ELSE observed[c]

DataInv ==
  /\ observed \in [All -> Seq(Runs)]
  /\ durations = [c \in All |-> Exposed(Entered(c)).durations]
  /\ counters = [c \in All |-> Exposed(observed[c]).counters]

PageInv ==
  /\ DOMAIN pages = All
  /\ \A c \in All : ~pages[c].whole =>
       pages[c] = Metrics!Page(durations[c], Metrics!NoSamples, FALSE)
  /\ PagesAreExact

CollectorInv == LockInv /\ DataInv /\ PageInv

-----------------------------------------------------------------------------
LEMMA TraceInit == Init => TraceInv
  BY DEF Init, TraceInv

LEMMA TraceNext == TraceInv /\ [Next]_vars => TraceInv'
  <1> SUFFICES ASSUME TraceInv, [Next]_vars PROVE TraceInv'
    OBVIOUS
  <1>1. ASSUME UNCHANGED tracing PROVE TraceInv'
    BY <1>1 DEF TraceInv, tracing
  <1>2. ASSUME NEW t \in Callers, NEW s \in Schedulers, RunWithTrace(t, s) PROVE TraceInv'
    BY <1>2 DEF RunWithTrace, TraceInv
  <1>3. ASSUME NEW t \in Callers, RunReturns(t) PROVE TraceInv'
    BY <1>3 DEF RunReturns, TraceInv
  <1>4. ASSUME NEW s \in Schedulers, Proceed(s) PROVE UNCHANGED tracing
    BY <1>4 DEF Proceed, ReadType, ReadData, CallObserver, Call, NotifyCaller, Log,
                ExportSpan, Tell, Observed, OnlyPublication
  <1> QED
    BY <1>1, <1>2, <1>3, <1>4
    DEF Next, Running, Crashed, vars, WithInstrumentation, Publish, Observe,
        BeginScrape, EndScrape

(* The tracer of the process is on for exactly as long as one function runs*)
(* under the RunWithTrace that started it.                                 *)
THEOREM TraceIsAlwaysOwned == Spec => []TraceIsOwned
  <1>1. TraceInv => TraceIsOwned
    BY FS_EmptySet, FS_Singleton DEF TraceInv, TraceIsOwned
  <1> QED
    BY <1>1, TraceInit, TraceNext, PTL DEF Spec

-----------------------------------------------------------------------------
(* The observer chain of a configuration.                                  *)

LEMMA RankIs ==
  /\ Rank["custom"] = 1 /\ Rank["logging"] = 2
  /\ Rank["prometheus"] = 3 /\ Rank["sigNoz"] = 4
  BY DEF Rank

LEMMA ConfigType ==
  ASSUME NEW cfg \in Configs
  PROVE  /\ cfg.observer \in BOOLEAN /\ cfg.logging \in BOOLEAN /\ cfg.logger \in BOOLEAN
         /\ cfg.prometheus \in BOOLEAN /\ cfg.sigNoz \in BOOLEAN /\ cfg.writer \in BOOLEAN
         /\ cfg.collector \in Supplied \cup {NoCollector}
  BY ObservabilityAssumption DEF InstrumentationConfig

(* The chain as far as the observers of the first n ranks go.              *)
Upto(chain, cfg, n) ==
  /\ chain \in Seq(ObserverRecord)
  /\ PartsOf(chain, cfg)
  /\ \A k \in DOMAIN chain : Rank[chain[k].kind] <= n
  /\ \A kind \in Kinds : Rank[kind] <= n /\ Tells(cfg, kind) => Has(chain, kind)

LEMMA UptoExtends ==
  ASSUME NEW cfg, NEW n \in 0 .. 3, NEW chain, Upto(chain, cfg, n),
         NEW enabled \in BOOLEAN, NEW part \in ObserverRecord, Rank[part.kind] = n + 1,
         enabled => PartOf(part, cfg),
         Tells(cfg, part.kind) => enabled /\ part.effective
  PROVE  Upto(chain \o PartIf(enabled, part), cfg, n + 1)
  <1> DEFINE longer == chain \o PartIf(enabled, part)
  <1>1. chain \in Seq(ObserverRecord)
    BY DEF Upto
  <1>2. \A kind \in Kinds : Rank[kind] = n + 1 => kind = part.kind
    BY RankIs DEF ObserverRecord, Kinds
  <1>3. \A kind \in Kinds : Rank[kind] \in 1 .. 4
    BY RankIs DEF Kinds
  <1>4. part.kind \in Kinds /\ \A k \in DOMAIN chain : chain[k].kind \in Kinds
    <2>1. \A k \in DOMAIN chain : chain[k] \in ObserverRecord
      BY <1>1
    <2> QED
      BY <2>1 DEF ObserverRecord
  <1>5. CASE ~enabled
    <2>1. longer = chain
      BY <1>1, <1>5 DEF PartIf
    <2> HIDE DEF longer
    <2>2. \A k \in DOMAIN chain : Rank[chain[k].kind] <= n + 1
      BY <1>3, <1>4 DEF Upto
    <2>3. \A kind \in Kinds : Rank[kind] <= n + 1 /\ Tells(cfg, kind) => Has(chain, kind)
      BY <1>2, <1>3, <1>5 DEF Upto
    <2> QED
      BY <2>1, <2>2, <2>3 DEF Upto, longer
  <1>6. CASE enabled
    <2> DEFINE m == Len(chain)
    <2>1. /\ longer \in Seq(ObserverRecord)
          /\ m \in Nat /\ DOMAIN chain = 1 .. m /\ DOMAIN longer = 1 .. m + 1
          /\ longer[m + 1] = part
          /\ \A k \in 1 .. m : longer[k] = chain[k]
      BY <1>1, <1>6 DEF PartIf
    <2> HIDE DEF longer, m
    <2>2. \A k \in DOMAIN longer : Rank[longer[k].kind] <= n + 1
      BY <2>1, <1>3, <1>4 DEF Upto
    <2>3. \A k \in DOMAIN longer : PartOf(longer[k], cfg)
      BY <2>1, <1>6 DEF Upto, PartsOf
    <2>4. ASSUME NEW k \in DOMAIN longer, NEW l \in DOMAIN longer, k < l
          PROVE  Rank[longer[k].kind] < Rank[longer[l].kind]
      <3>1. CASE l = m + 1
        <4>1. k \in 1 .. m
          BY <2>1, <2>4, <3>1
        <4>2. Rank[chain[k].kind] <= n /\ Rank[chain[k].kind] \in 1 .. 4
          BY <2>1, <4>1, <1>3, <1>4 DEF Upto
        <4> QED
          BY <2>1, <3>1, <4>1, <4>2
      <3>2. CASE l # m + 1
        <4>1. k \in 1 .. m /\ l \in 1 .. m
          BY <2>1, <2>4, <3>2
        <4> QED
          BY <2>1, <2>4, <4>1 DEF Upto, PartsOf
      <3> QED
        BY <3>1, <3>2
    <2>5. ASSUME NEW kind \in Kinds, Rank[kind] <= n + 1, Tells(cfg, kind)
          PROVE  Has(longer, kind)
      <3>1. CASE Rank[kind] = n + 1
        BY <1>2, <2>1, <2>5, <3>1 DEF Has
      <3>2. CASE Rank[kind] # n + 1
        <4>1. Rank[kind] <= n
          BY <1>3, <2>5, <3>2
        <4>2. Has(chain, kind)
          BY <2>5, <4>1 DEF Upto
        <4> QED
          BY <2>1, <4>2 DEF Has
      <3> QED
        BY <3>1, <3>2
    <2> QED
      BY <2>1, <2>2, <2>3, <2>4, <2>5 DEF Upto, PartsOf, longer
  <1> QED
    BY <1>5, <1>6

LEMMA ChainIsOf ==
  ASSUME NEW cfg \in Configs, NEW own \in OwnCollectors
  PROVE  /\ BuildObserverChain(cfg, own) \in Seq(ObserverRecord)
         /\ Divided(<<>>, BuildObserverChain(cfg, own), cfg)
  <1> DEFINE custom == Observer("custom", TRUE)
             log == Observer("logging", cfg.logger)
             meter == [Observer("prometheus", TRUE) EXCEPT !.collector = CollectorOf(cfg, own)]
             span == Observer("sigNoz", cfg.writer)
             c1 == PartIf(cfg.observer, custom)
             c2 == c1 \o PartIf(cfg.logging, log)
             c3 == c2 \o PartIf(cfg.prometheus, meter)
             c4 == c3 \o PartIf(cfg.sigNoz, span)
  <1>1. /\ cfg.observer \in BOOLEAN /\ cfg.logging \in BOOLEAN /\ cfg.logger \in BOOLEAN
        /\ cfg.prometheus \in BOOLEAN /\ cfg.sigNoz \in BOOLEAN /\ cfg.writer \in BOOLEAN
    BY ConfigType
  <1>2. CollectorOf(cfg, own) \in IF cfg.collector = NoCollector THEN OwnCollectors
                                                                ELSE {cfg.collector}
    BY DEF CollectorOf
  <1>3. CollectorOf(cfg, own) \in Supplied \cup OwnCollectors
    BY ConfigType DEF CollectorOf
  <1>4. CollectorOf(cfg, own) # NoCollector
    BY <1>3, ObservabilityAssumption
  <1>5. /\ custom \in ObserverRecord
        /\ cfg.observer => PartOf(custom, cfg)
        /\ custom.kind = "custom" /\ custom.effective
    BY <1>1 DEF Observer, ObserverRecord, Kinds, PartOf, Tells
  <1>6. /\ log \in ObserverRecord
        /\ cfg.logging => PartOf(log, cfg)
        /\ log.kind = "logging" /\ log.effective = cfg.logger
    BY <1>1 DEF Observer, ObserverRecord, Kinds, PartOf, Tells
  <1>7. /\ meter \in ObserverRecord
        /\ cfg.prometheus => PartOf(meter, cfg)
        /\ meter.kind = "prometheus" /\ meter.effective
    BY <1>1, <1>2, <1>3, <1>4 DEF Observer, ObserverRecord, Kinds, PartOf, Tells
  <1>8. /\ span \in ObserverRecord
        /\ cfg.sigNoz => PartOf(span, cfg)
        /\ span.kind = "sigNoz" /\ span.effective = cfg.writer
    BY <1>1 DEF Observer, ObserverRecord, Kinds, PartOf, Tells
  <1>9. /\ Tells(cfg, "custom") => cfg.observer
        /\ Tells(cfg, "logging") => cfg.logging /\ cfg.logger
        /\ Tells(cfg, "prometheus") => cfg.prometheus
        /\ Tells(cfg, "sigNoz") => cfg.sigNoz /\ cfg.writer
    BY DEF Tells
  <1> HIDE DEF custom, log, meter, span
  <1>10. Upto(<<>>, cfg, 0)
    BY RankIs DEF Upto, PartsOf, Kinds
  <1>11. <<>> \o c1 = c1 /\ 0 + 1 = 1 /\ 1 + 1 = 2 /\ 2 + 1 = 3 /\ 3 + 1 = 4
    BY <1>5 DEF PartIf
  <1>12. Upto(<<>> \o c1, cfg, 0 + 1)
    <2>1. /\ 0 \in 0 .. 3 /\ cfg.observer \in BOOLEAN /\ custom \in ObserverRecord
          /\ Rank[custom.kind] = 0 + 1
          /\ cfg.observer => PartOf(custom, cfg)
          /\ Tells(cfg, custom.kind) => cfg.observer /\ custom.effective
      BY <1>1, <1>5, <1>9, RankIs
    <2>2. Upto(<<>> \o PartIf(cfg.observer, custom), cfg, 0 + 1)
      BY <2>1, <1>10, UptoExtends
    <2> QED
      BY <2>2
  <1>13. Upto(c1, cfg, 1)
    BY <1>11, <1>12
  <1>14. Upto(c2, cfg, 1 + 1)
    <2>1. /\ 1 \in 0 .. 3 /\ cfg.logging \in BOOLEAN /\ log \in ObserverRecord
          /\ Rank[log.kind] = 1 + 1
          /\ cfg.logging => PartOf(log, cfg)
          /\ Tells(cfg, log.kind) => cfg.logging /\ log.effective
      BY <1>1, <1>6, <1>9, RankIs
    <2>2. Upto(c1 \o PartIf(cfg.logging, log), cfg, 1 + 1)
      BY <2>1, <1>13, UptoExtends
    <2> QED
      BY <2>2
  <1>15. Upto(c3, cfg, 2 + 1)
    <2>1. /\ 2 \in 0 .. 3 /\ cfg.prometheus \in BOOLEAN /\ meter \in ObserverRecord
          /\ Rank[meter.kind] = 2 + 1
          /\ cfg.prometheus => PartOf(meter, cfg)
          /\ Tells(cfg, meter.kind) => cfg.prometheus /\ meter.effective
      BY <1>1, <1>7, <1>9, RankIs
    <2>2. Upto(c2 \o PartIf(cfg.prometheus, meter), cfg, 2 + 1)
      BY <2>1, <1>14, <1>11, UptoExtends
    <2> QED
      BY <2>2
  <1>16. Upto(c4, cfg, 3 + 1)
    <2>1. /\ 3 \in 0 .. 3 /\ cfg.sigNoz \in BOOLEAN /\ span \in ObserverRecord
          /\ Rank[span.kind] = 3 + 1
          /\ cfg.sigNoz => PartOf(span, cfg)
          /\ Tells(cfg, span.kind) => cfg.sigNoz /\ span.effective
      BY <1>1, <1>8, <1>9, RankIs
    <2>2. Upto(c3 \o PartIf(cfg.sigNoz, span), cfg, 3 + 1)
      BY <2>1, <1>15, <1>11, UptoExtends
    <2> QED
      BY <2>2
  <1>17. BuildObserverChain(cfg, own) = c4
    BY DEF BuildObserverChain, c1, c2, c3, custom, log, meter, span
  <1> HIDE DEF c4
  <1>18. \A kind \in Kinds : Rank[kind] <= 4
    BY RankIs DEF Kinds
  <1> QED
    BY <1>11, <1>16, <1>17, <1>18 DEF Upto, Divided, PartsOf

(* The type of a chain does not tell whose collector is in it.             *)
SameKinds(a, b) ==
  /\ a \in Seq(ObserverRecord) /\ b \in Seq(ObserverRecord)
  /\ Len(a) = Len(b)
  /\ \A k \in 1 .. Len(a) : a[k].kind = b[k].kind

LEMMA SameKindsExtend ==
  ASSUME NEW a, NEW b, SameKinds(a, b), NEW enabled \in BOOLEAN,
         NEW p \in ObserverRecord, NEW q \in ObserverRecord, p.kind = q.kind
  PROVE  SameKinds(a \o PartIf(enabled, p), b \o PartIf(enabled, q))
  <1>1. a \in Seq(ObserverRecord) /\ b \in Seq(ObserverRecord) /\ Len(a) = Len(b)
    BY DEF SameKinds
  <1>2. CASE enabled
    <2> DEFINE c == a \o PartIf(enabled, p)
               d == b \o PartIf(enabled, q)
               m == Len(a)
    <2>1. /\ c \in Seq(ObserverRecord) /\ d \in Seq(ObserverRecord)
          /\ m \in Nat /\ Len(c) = m + 1 /\ Len(d) = m + 1
          /\ c[m + 1] = p /\ d[m + 1] = q
          /\ \A k \in 1 .. m : c[k] = a[k] /\ d[k] = b[k]
      BY <1>1, <1>2 DEF PartIf
    <2> HIDE DEF c, d, m
    <2>2. \A k \in 1 .. m : a[k].kind = b[k].kind
      BY DEF SameKinds, m
    <2>3. \A k \in 1 .. m + 1 : c[k].kind = d[k].kind
      BY <2>1, <2>2
    <2> QED
      BY <2>1, <2>3 DEF SameKinds, c, d
  <1>3. CASE ~enabled
    BY <1>1, <1>3 DEF PartIf, SameKinds
  <1> QED
    BY <1>2, <1>3

LEMMA TypeIsOfConfig ==
  ASSUME NEW cfg \in Configs, NEW own \in OwnCollectors, NEW other \in OwnCollectors
  PROVE  TypeOf(BuildObserverChain(cfg, own)) = TypeOf(BuildObserverChain(cfg, other))
  <1> DEFINE custom == Observer("custom", TRUE)
             log == Observer("logging", cfg.logger)
             meter(o) == [Observer("prometheus", TRUE) EXCEPT !.collector = CollectorOf(cfg, o)]
             span == Observer("sigNoz", cfg.writer)
             c2 == PartIf(cfg.observer, custom) \o PartIf(cfg.logging, log)
             c3(o) == c2 \o PartIf(cfg.prometheus, meter(o))
             c4(o) == c3(o) \o PartIf(cfg.sigNoz, span)
  <1>1. /\ cfg.observer \in BOOLEAN /\ cfg.logging \in BOOLEAN /\ cfg.logger \in BOOLEAN
        /\ cfg.prometheus \in BOOLEAN /\ cfg.sigNoz \in BOOLEAN /\ cfg.writer \in BOOLEAN
    BY ConfigType
  <1>2. \A o \in OwnCollectors : CollectorOf(cfg, o) \in Supplied \cup OwnCollectors
    BY ConfigType DEF CollectorOf
  <1>3. /\ custom \in ObserverRecord /\ log \in ObserverRecord /\ span \in ObserverRecord
        /\ \A o \in OwnCollectors : meter(o) \in ObserverRecord /\ meter(o).kind = "prometheus"
    BY <1>1, <1>2 DEF Observer, ObserverRecord, Kinds
  <1>4. \A o : BuildObserverChain(cfg, o) = c4(o)
    BY DEF BuildObserverChain
  <1> HIDE DEF custom, log, span, meter
  <1>5. c2 \in Seq(ObserverRecord)
    BY <1>1, <1>3 DEF PartIf
  <1> HIDE DEF c2
  <1>6. SameKinds(c2, c2)
    BY <1>5 DEF SameKinds
  <1>7. SameKinds(c3(own), c3(other))
    <2>1. /\ meter(own) \in ObserverRecord /\ meter(other) \in ObserverRecord
          /\ meter(own).kind = meter(other).kind /\ cfg.prometheus \in BOOLEAN
      BY <1>1, <1>3
    <2> QED
      BY <1>6, <2>1, SameKindsExtend
  <1> HIDE DEF c3
  <1>8. SameKinds(c4(own), c4(other))
    BY <1>1, <1>3, <1>7, SameKindsExtend
  <1> HIDE DEF c4
  <1>9. TypeOf(c4(own)) = TypeOf(c4(other))
    <2>1. Len(c4(own)) = Len(c4(other)) /\ Len(c4(own)) \in Nat
      BY <1>8 DEF SameKinds
    <2>2. Len(c4(own)) = 1 => c4(own)[1].kind = c4(other)[1].kind
      BY <1>8 DEF SameKinds
    <2> QED
      BY <2>1, <2>2 DEF TypeOf
  <1> QED
    BY <1>4, <1>9

(* Only the type noop is that of an empty chain.                           *)
LEMMA NoopIsEmpty ==
  ASSUME NEW chain \in Seq(ObserverRecord)
  PROVE  /\ TypeOf(chain) \in {"noop", "composite"} \cup Kinds
         /\ TypeOf(chain) = "noop" <=> chain = <<>>
  <1>1. Len(chain) \in Nat /\ (Len(chain) = 0 <=> chain = <<>>)
    OBVIOUS
  <1>2. Len(chain) = 1 => chain[1].kind \in Kinds
    <2>1. Len(chain) = 1 => chain[1] \in ObserverRecord
      OBVIOUS
    <2> QED
      BY <2>1 DEF ObserverRecord
  <1>3. "noop" \notin Kinds
    BY DEF Kinds
  <1>4. CASE Len(chain) = 0
    BY <1>1, <1>4 DEF TypeOf
  <1>5. CASE Len(chain) = 1
    BY <1>1, <1>2, <1>3, <1>5 DEF TypeOf
  <1>6. CASE Len(chain) \notin {0, 1}
    BY <1>1, <1>6 DEF TypeOf
  <1> QED
    BY <1>4, <1>5, <1>6

(* Who is told passes from those left to those told.                       *)
LEMMA DividedPasses ==
  ASSUME NEW cfg, NEW told \in Seq(ObserverRecord), NEW left \in Seq(ObserverRecord),
         left # <<>>, Divided(told, left, cfg)
  PROVE  LET now == IF Head(left).effective THEN Append(told, Head(left)) ELSE told
         IN  /\ now \in Seq(ObserverRecord) /\ Tail(left) \in Seq(ObserverRecord)
             /\ Divided(now, Tail(left), cfg)
             /\ Len(left) = 1 <=> Tail(left) = <<>>
  <1> DEFINE part == left[1]
             rest == Tail(left)
             m == Len(told)
             n == Len(left)
  <1>1. /\ Head(left) = part /\ part \in ObserverRecord
        /\ rest \in Seq(ObserverRecord)
        /\ m \in Nat /\ n \in Nat /\ n > 0 /\ DOMAIN told = 1 .. m
        /\ DOMAIN left = 1 .. n /\ DOMAIN rest = 1 .. n - 1
        /\ \A l \in 1 .. n - 1 : rest[l] = left[l + 1]
        /\ n = 1 <=> rest = <<>>
    <2>1. n \in Nat /\ n > 0 /\ rest \in Seq(ObserverRecord) /\ Len(rest) = n - 1
      BY HeadTailProperties, EmptySeq
    <2>2. Len(rest) = 0 <=> rest = <<>>
      BY <2>1, EmptySeq
    <2>3. n = 1 <=> Len(rest) = 0
      BY <2>1
    <2>4. /\ DOMAIN rest = 1 .. n - 1 /\ \A l \in 1 .. n - 1 : rest[l] = left[l + 1]
          /\ Head(left) = part /\ part \in ObserverRecord
      OBVIOUS
    <2> QED
      BY <2>1, <2>2, <2>3, <2>4
  <1> HIDE DEF rest, m, n, part
  <1>2. /\ \A k, l \in 1 .. n : k < l => Rank[left[k].kind] < Rank[left[l].kind]
        /\ \A l \in 1 .. n : PartOf(left[l], cfg)
        /\ \A k, l \in 1 .. m : k < l => Rank[told[k].kind] < Rank[told[l].kind]
        /\ \A k \in 1 .. m : PartOf(told[k], cfg) /\ told[k].effective
        /\ \A k \in 1 .. m, l \in 1 .. n : Rank[told[k].kind] < Rank[left[l].kind]
    BY <1>1 DEF Divided, PartsOf
  <1>3. PartsOf(rest, cfg)
    <2>1. \A k, l \in 1 .. n - 1 : k < l => Rank[rest[k].kind] < Rank[rest[l].kind]
      <3> SUFFICES ASSUME NEW k \in 1 .. n - 1, NEW l \in 1 .. n - 1, k < l
                   PROVE  Rank[rest[k].kind] < Rank[rest[l].kind]
        OBVIOUS
      <3>1. k + 1 \in 1 .. n /\ l + 1 \in 1 .. n /\ k + 1 < l + 1
        BY <1>1
      <3> QED
        BY <1>1, <1>2, <3>1
    <2>2. \A l \in 1 .. n - 1 : PartOf(rest[l], cfg)
      <3> SUFFICES ASSUME NEW l \in 1 .. n - 1 PROVE PartOf(rest[l], cfg)
        OBVIOUS
      <3>1. l + 1 \in 1 .. n
        BY <1>1
      <3> QED
        BY <1>1, <1>2, <3>1
    <2> QED
      BY <1>1, <2>1, <2>2 DEF PartsOf
  <1>4. \A l \in 1 .. n - 1 : Rank[part.kind] < Rank[rest[l].kind]
    <2> SUFFICES ASSUME NEW l \in 1 .. n - 1 PROVE Rank[part.kind] < Rank[rest[l].kind]
      OBVIOUS
    <2>1. 1 \in 1 .. n /\ l + 1 \in 1 .. n /\ 1 < l + 1
      BY <1>1
    <2> QED
      BY <1>1, <1>2, <2>1 DEF part
  <1>5. \A k \in 1 .. m, l \in 1 .. n - 1 : Rank[told[k].kind] < Rank[rest[l].kind]
    <2> SUFFICES ASSUME NEW k \in 1 .. m, NEW l \in 1 .. n - 1
                 PROVE  Rank[told[k].kind] < Rank[rest[l].kind]
      OBVIOUS
    <2>1. l + 1 \in 1 .. n
      BY <1>1
    <2> QED
      BY <1>1, <1>2, <2>1
  <1>6. \A kind : Has(left, kind) => Has(rest, kind) \/ (part.kind = kind /\ part.effective)
    <2> SUFFICES ASSUME NEW kind, NEW k \in 1 .. n,
                        left[k].kind = kind, left[k].effective, k # 1
                 PROVE  Has(rest, kind)
      BY <1>1 DEF Has, part
    <2>1. k - 1 \in 1 .. n - 1 /\ rest[k - 1] = left[(k - 1) + 1] /\ (k - 1) + 1 = k
      BY <1>1
    <2> QED
      BY <1>1, <2>1 DEF Has
  <1>7. CASE ~part.effective
    <2>1. \A kind \in Kinds : Tells(cfg, kind) => Has(told, kind) \/ Has(rest, kind)
      BY <1>6, <1>7 DEF Divided
    <2>2. Divided(told, rest, cfg)
      BY <1>1, <1>3, <1>5, <2>1 DEF Divided
    <2> QED
      BY <1>1, <1>7, <2>2 DEF rest, n
  <1>8. CASE part.effective
    <2> DEFINE now == Append(told, part)
    <2>1. /\ now \in Seq(ObserverRecord)
          /\ DOMAIN now = 1 .. m + 1 /\ now[m + 1] = part
          /\ \A k \in 1 .. m : now[k] = told[k]
      BY <1>1 DEF m
    <2> HIDE DEF now
    <2>2. 1 \in 1 .. n
      BY <1>1
    <2>3. \A k, l \in 1 .. m + 1 : k < l => Rank[now[k].kind] < Rank[now[l].kind]
      <3> SUFFICES ASSUME NEW k \in 1 .. m + 1, NEW l \in 1 .. m + 1, k < l
                   PROVE  Rank[now[k].kind] < Rank[now[l].kind]
        OBVIOUS
      <3>1. k \in 1 .. m /\ now[k] = told[k]
        BY <1>1, <2>1
      <3>2. CASE l = m + 1
        BY <1>2, <2>1, <2>2, <3>1, <3>2 DEF part
      <3>3. CASE l # m + 1
        <4>1. l \in 1 .. m
          BY <1>1, <3>3
        <4> QED
          BY <1>2, <2>1, <3>1, <4>1
      <3> QED
        BY <3>2, <3>3
    <2>4. \A k \in 1 .. m + 1 : k \in 1 .. m \/ k = m + 1
      BY <1>1
    <2>5. \A k \in 1 .. m + 1 : PartOf(now[k], cfg) /\ now[k].effective
      BY <1>2, <1>8, <2>1, <2>2, <2>4 DEF part
    <2>6. \A k \in 1 .. m + 1, l \in 1 .. n - 1 : Rank[now[k].kind] < Rank[rest[l].kind]
      BY <1>4, <1>5, <2>1, <2>4
    <2>7. \A kind \in Kinds : Tells(cfg, kind) => Has(now, kind) \/ Has(rest, kind)
      <3> SUFFICES ASSUME NEW kind \in Kinds, Tells(cfg, kind)
                   PROVE  Has(now, kind) \/ Has(rest, kind)
        OBVIOUS
      <3>1. m + 1 \in 1 .. m + 1 /\ \A k \in 1 .. m : k \in 1 .. m + 1
        BY <1>1
      <3>2. CASE Has(told, kind)
        BY <1>1, <2>1, <3>1, <3>2 DEF Has
      <3>3. CASE Has(left, kind)
        BY <1>6, <1>8, <2>1, <3>1, <3>3 DEF Has
      <3> QED
        BY <3>2, <3>3 DEF Divided
    <2>8. Divided(now, rest, cfg)
      BY <1>1, <1>3, <2>1, <2>3, <2>5, <2>6, <2>7 DEF Divided, PartsOf
    <2> QED
      BY <1>1, <1>8, <2>1, <2>8 DEF rest, n, now
  <1> QED
    BY <1>7, <1>8

-----------------------------------------------------------------------------
(* Delivery is preserved.                                                  *)

LEMMA OwnsCollector ==
  ASSUME NEW s \in Schedulers, NEW n \in 0 .. MaxReconfigs
  PROVE  <<s, n>> \in OwnCollectors
  BY DEF OwnCollectors

LEMMA QuietIsRecord ==
  /\ Quiet \in PublicationRecord
  /\ Quiet.pc = "idle" /\ Quiet.told = <<>> /\ Quiet.left = <<>> /\ Quiet.offered = {}
  BY DEF Quiet, PublicationRecord, Kinds

LEMMA DeliveryInit == Init => DeliveryInv
  <1> SUFFICES ASSUME Init PROVE DeliveryInv
    OBVIOUS
  <1>1. \A s \in Schedulers : <<s, 0>> \in OwnCollectors
    BY ObservabilityAssumption, OwnsCollector
  <1>2. \A s \in Schedulers : observer[s] = BuildObserverChain(instrumentation[s], <<s, 0>>)
    BY DEF Init
  <1>3. \A s \in Schedulers : observer[s] \in Seq(ObserverRecord)
    <2> SUFFICES ASSUME NEW s \in Schedulers PROVE observer[s] \in Seq(ObserverRecord)
      OBVIOUS
    <2>1. instrumentation[s] \in Configs
      BY DEF Init
    <2> QED
      BY <1>1, <1>2, <2>1, ChainIsOf
  <1>4. observer \in [Schedulers -> Seq(ObserverRecord)]
    BY <1>3 DEF Init
  <1>5. publication \in [Schedulers -> PublicationRecord]
    BY QuietIsRecord DEF Init
  <1>6. TypeInv
    BY <1>4, <1>5, ObservabilityAssumption DEF Init, TypeInv
  <1>7. ASSUME NEW s \in Schedulers PROVE BuiltInv(s) /\ PublicationInv(s)
    <2>1. BuiltInv(s)
      BY <1>2, ObservabilityAssumption DEF BuiltInv
    <2>2. publication[s] = Quiet
      BY DEF Init
    <2>3. PublicationInv(s)
      BY <2>2, QuietIsRecord DEF PublicationInv
    <2> QED
      BY <2>1, <2>3
  <1>8. CrashInv
    BY DEF Init, CrashInv
  <1> QED
    BY <1>6, <1>7, <1>8 DEF DeliveryInv

(* Most of what happens has nothing to do with delivery.                   *)
LEMMA DeliveryFrame ==
  ASSUME DeliveryInv, UNCHANGED <<config, publication, published, crashed>>
  PROVE  DeliveryInv'
  BY DEF DeliveryInv, TypeInv, BuiltInv, PublicationInv, CrashInv, config, Part

(* A ticker only moves its own publication.                                *)
LEMMA OnePublication ==
  ASSUME DeliveryInv, ~crashed, UNCHANGED <<config, crashed>>,
         published' \in 0 .. MaxSummaries,
         publication' \in [Schedulers -> PublicationRecord],
         NEW s \in Schedulers, PublicationInv(s)',
         \A q \in Schedulers \ {s} : publication'[q] = publication[q]
  PROVE  DeliveryInv'
  <1>1. TypeInv'
    BY DEF DeliveryInv, TypeInv, config
  <1>2. ASSUME NEW q \in Schedulers PROVE BuiltInv(q)'
    <2>1. BuiltInv(q)
      BY DEF DeliveryInv
    <2> QED
      BY <2>1 DEF BuiltInv, config
  <1>3. ASSUME NEW q \in Schedulers PROVE PublicationInv(q)'
    <2>1. CASE q = s
      BY <2>1
    <2>2. CASE q # s
      <3>1. PublicationInv(q) /\ publication'[q] = publication[q]
        BY <2>2 DEF DeliveryInv
      <3> QED
        BY <3>1 DEF PublicationInv, config, Part
    <2> QED
      BY <2>1, <2>2
  <1>4. CrashInv'
    BY DEF CrashInv
  <1> QED
    BY <1>1, <1>2, <1>3, <1>4 DEF DeliveryInv

LEMMA PublishDelivery ==
  ASSUME DeliveryInv, ~crashed, NEW s \in Schedulers, NEW run \in Runs, Publish(s, run)
  PROVE  DeliveryInv'
  <1> DEFINE p == [Quiet EXCEPT !.pc = "read", !.run = run, !.offered = {instrumentation[s]}]
  <1>1. instrumentation[s] \in Configs /\ published \in 0 .. MaxSummaries
    BY DEF DeliveryInv, TypeInv
  <1>2. /\ p \in PublicationRecord
        /\ p.pc = "read" /\ p.run = run /\ p.told = <<>> /\ p.offered = {instrumentation[s]}
    <2>1. {instrumentation[s]} \in SUBSET Configs
      BY <1>1
    <2> QED
      BY <2>1, QuietIsRecord DEF PublicationRecord
  <1>3. /\ publication' = [publication EXCEPT ![s] = p]
        /\ UNCHANGED <<config, crashed>>
        /\ published < MaxSummaries /\ published' = published + 1
    BY DEF Publish
  <1> HIDE DEF p
  <1>4. /\ publication' \in [Schedulers -> PublicationRecord]
        /\ publication'[s] = p
        /\ \A q \in Schedulers \ {s} : publication'[q] = publication[q]
    BY <1>2, <1>3 DEF DeliveryInv, TypeInv
  <1>5. published' \in 0 .. MaxSummaries
    BY <1>1, <1>3, ObservabilityAssumption
  <1>6. PublicationInv(s)'
    BY <1>2, <1>3, <1>4 DEF PublicationInv, config
  <1> QED
    BY <1>3, <1>4, <1>5, <1>6, OnePublication

LEMMA ReadDelivery ==
  ASSUME DeliveryInv, ~crashed, NEW s \in Schedulers, ReadType(s) \/ ReadData(s)
  PROVE  DeliveryInv'
  <1> DEFINE old == publication[s]
             new == publication'[s]
  <1>1. /\ old \in PublicationRecord
        /\ observer[s] \in Seq(ObserverRecord)
        /\ publication \in [Schedulers -> PublicationRecord]
    BY DEF DeliveryInv, TypeInv
  <1>2. /\ instrumentation[s] \in old.offered /\ old.run \in Runs /\ old.told = <<>>
        /\ instrumentation[s] \in Configs
    BY DEF DeliveryInv, TypeInv, PublicationInv, ReadType, ReadData, At
  <1>3. PICK n \in 0 .. MaxReconfigs :
          observer[s] = BuildObserverChain(instrumentation[s], <<s, n>>)
    BY DEF DeliveryInv, BuiltInv
  <1>4. UNCHANGED <<config, crashed, published>>
    BY DEF ReadType, ReadData, OnlyPublication
  <1>5. CASE ReadType(s)
    <2> DEFINE p == [old EXCEPT !.pc = "typeRead", !.type = TypeOf(observer[s])]
    <2>1. publication' = [publication EXCEPT ![s] = p]
      BY <1>1, <1>5 DEF ReadType
    <2>2. TypeOf(observer[s]) \in {"noop", "composite"} \cup Kinds
      BY <1>1, NoopIsEmpty
    <2>3. /\ p \in PublicationRecord
          /\ p.pc = "typeRead" /\ p.type = TypeOf(observer[s]) /\ p.run = old.run
          /\ p.told = old.told /\ p.offered = old.offered
      BY <1>1, <2>2 DEF PublicationRecord
    <2>4. TypeOf(observer[s]) = TypeOf(BuildObserverChain(instrumentation[s], <<s, 0>>))
      <3>1. <<s, n>> \in OwnCollectors /\ <<s, 0>> \in OwnCollectors
        BY ObservabilityAssumption, OwnsCollector
      <3> QED
        BY <1>2, <1>3, <3>1, TypeIsOfConfig
    <2> HIDE DEF p
    <2>5. /\ publication' \in [Schedulers -> PublicationRecord]
          /\ new = p
          /\ \A q \in Schedulers \ {s} : publication'[q] = publication[q]
      BY <1>1, <2>1, <2>3
    <2>6. PublicationInv(s)'
      BY <1>2, <1>4, <2>3, <2>4, <2>5 DEF PublicationInv, config
    <2>7. published' \in 0 .. MaxSummaries
      BY <1>4 DEF DeliveryInv, TypeInv
    <2> QED
      BY <1>4, <2>5, <2>6, <2>7, OnePublication
  <1>6. CASE ReadData(s)
    <2> DEFINE p == [old EXCEPT !.pc = "dataRead", !.left = observer[s]]
    <2>1. publication' = [publication EXCEPT ![s] = p]
      BY <1>1, <1>6 DEF ReadData
    <2>2. /\ p \in PublicationRecord
          /\ p.pc = "dataRead" /\ p.left = observer[s] /\ p.run = old.run
          /\ p.told = old.told /\ p.offered = old.offered
      BY <1>1 DEF PublicationRecord
    <2> HIDE DEF p
    <2>3. /\ publication' \in [Schedulers -> PublicationRecord]
          /\ new = p
          /\ \A q \in Schedulers \ {s} : publication'[q] = publication[q]
      BY <1>1, <2>1, <2>2
    <2>4. PublicationInv(s)'
      BY <1>2, <1>3, <1>4, <2>2, <2>3 DEF PublicationInv, config
    <2>5. published' \in 0 .. MaxSummaries
      BY <1>4 DEF DeliveryInv, TypeInv
    <2> QED
      BY <1>4, <2>3, <2>4, <2>5, OnePublication
  <1> QED
    BY <1>5, <1>6

LEMMA ReconfigureDelivery ==
  ASSUME DeliveryInv, ~crashed, NEW s \in Schedulers, NEW cfg \in Configs,
         WithInstrumentation(s, cfg)
  PROVE  DeliveryInv'
  <1> DEFINE old == publication[s]
             new == publication'[s]
             own == <<s, reconfigs'>>
  <1>1. /\ old \in PublicationRecord /\ publication \in [Schedulers -> PublicationRecord]
        /\ observer \in [Schedulers -> Seq(ObserverRecord)]
        /\ instrumentation \in [Schedulers -> Configs]
        /\ reconfigs \in 0 .. MaxReconfigs
    BY DEF DeliveryInv, TypeInv
  <1>2. /\ reconfigs < MaxReconfigs /\ reconfigs' = reconfigs + 1
        /\ instrumentation' = [instrumentation EXCEPT ![s] = cfg]
        /\ observer' = [observer EXCEPT ![s] = BuildObserverChain(cfg, own)]
        /\ UNCHANGED <<crashed, published>>
    BY DEF WithInstrumentation
  <1>3. reconfigs' \in 0 .. MaxReconfigs
    BY <1>1, <1>2, ObservabilityAssumption
  <1>4. BuildObserverChain(cfg, own) \in Seq(ObserverRecord)
    <2>1. own \in OwnCollectors
      BY <1>3, OwnsCollector
    <2> QED
      BY <2>1, ChainIsOf
  <1>5. /\ publication' \in [Schedulers -> PublicationRecord]
        /\ \A q \in Schedulers \ {s} : publication'[q] = publication[q]
        /\ new = IF old.pc = "idle" THEN old ELSE [old EXCEPT !.offered = @ \cup {cfg}]
    <2>1. CASE old.pc = "idle"
      BY <1>1, <2>1 DEF WithInstrumentation
    <2>2. CASE old.pc # "idle"
      <3> DEFINE p == [old EXCEPT !.offered = @ \cup {cfg}]
      <3>1. p \in PublicationRecord
        BY <1>1 DEF PublicationRecord
      <3>2. publication' = [publication EXCEPT ![s] = p]
        BY <1>1, <2>2 DEF WithInstrumentation
      <3> HIDE DEF p
      <3>3. /\ publication' \in [Schedulers -> PublicationRecord]
            /\ \A q \in Schedulers \ {s} : publication'[q] = publication[q]
            /\ new = p
        BY <1>1, <3>1, <3>2
      <3> QED
        BY <2>2, <3>3 DEF p
    <2> QED
      BY <2>1, <2>2
  <1>6. /\ instrumentation'[s] = cfg /\ observer'[s] = BuildObserverChain(cfg, own)
        /\ \A q \in Schedulers \ {s} :
             instrumentation'[q] = instrumentation[q] /\ observer'[q] = observer[q]
    BY <1>1, <1>2
  <1>7. TypeInv'
    BY <1>1, <1>2, <1>3, <1>4, <1>5 DEF DeliveryInv, TypeInv
  <1>8. ASSUME NEW q \in Schedulers PROVE BuiltInv(q)'
    <2>1. BuiltInv(q)
      BY DEF DeliveryInv
    <2> QED
      BY <2>1, <1>3, <1>6 DEF BuiltInv
  <1>9. PublicationInv(s)'
    <2>1. PublicationInv(s)
      BY DEF DeliveryInv
    <2>2. CASE old.pc = "idle"
      BY <1>5, <2>1, <2>2 DEF PublicationInv
    <2>3. CASE old.pc # "idle"
      <3>1. /\ new.pc = old.pc /\ new.run = old.run /\ new.type = old.type
            /\ new.left = old.left /\ new.told = old.told
            /\ new.offered = old.offered \cup {cfg}
        BY <1>1, <1>5, <2>3 DEF PublicationRecord
      <3> QED
        BY <1>6, <2>1, <2>3, <3>1 DEF PublicationInv, Part
    <2> QED
      BY <2>2, <2>3
  <1>10. ASSUME NEW q \in Schedulers \ {s} PROVE PublicationInv(q)'
    <2>1. PublicationInv(q)
      BY DEF DeliveryInv
    <2>2. publication'[q] = publication[q] /\ instrumentation'[q] = instrumentation[q]
      BY <1>5, <1>6
    <2> QED
      BY <2>1, <2>2 DEF PublicationInv, Part
  <1>11. CrashInv'
    BY <1>2 DEF CrashInv
  <1> QED
    BY <1>7, <1>8, <1>9, <1>10, <1>11 DEF DeliveryInv

LEMMA TypesAreFinite == IsFiniteSet({"noop", "composite"} \cup Kinds)
  <1>1. \A S, x : IsFiniteSet(S) => IsFiniteSet(S \cup {x})
    BY FS_AddElement
  <1>2. IsFiniteSet({"noop"} \cup {"composite"})
    BY <1>1, FS_Singleton
  <1>3. IsFiniteSet((({"noop"} \cup {"composite"}) \cup {"custom"}) \cup {"logging"})
    BY <1>1, <1>2
  <1>4. IsFiniteSet((((({"noop"} \cup {"composite"}) \cup {"custom"}) \cup {"logging"})
                      \cup {"prometheus"}) \cup {"sigNoz"})
    BY <1>1, <1>3
  <1>5. {"noop", "composite"} \cup Kinds =
          (((({"noop"} \cup {"composite"}) \cup {"custom"}) \cup {"logging"})
             \cup {"prometheus"}) \cup {"sigNoz"}
    BY DEF Kinds
  <1> QED
    BY <1>4, <1>5

LEMMA TwoAreMoreThanOne ==
  ASSUME NEW S, IsFiniteSet(S), NEW a \in S, NEW b \in S, a # b
  PROVE  Cardinality(S) > 1
  <1>1. IsFiniteSet({a}) /\ Cardinality({a}) = 1
    BY FS_Singleton
  <1>2. Cardinality({a} \cup {b}) = 1 + 1
    BY <1>1, FS_AddElement
  <1>3. {a} \cup {b} \in SUBSET S
    OBVIOUS
  <1>4. Cardinality({a} \cup {b}) <= Cardinality(S) /\ Cardinality(S) \in Nat
    BY <1>3, FS_Subset, FS_CardinalityType
  <1> QED
    BY <1>2, <1>4

(* The words of the observer may be those of two configurations.           *)
LEMMA WordsDelivery ==
  ASSUME DeliveryInv, ~crashed, NEW s \in Schedulers,
         publication[s].pc \in {"typeRead", "dataRead"},
         NEW first \in publication[s].offered, NEW second \in publication[s].offered,
         NEW own \in OwnCollectors, NEW type, NEW chain,
         type = TypeOf(BuildObserverChain(first, <<s, 0>>)),
         chain = BuildObserverChain(second, own),
         Call(s, type, chain)
  PROVE  DeliveryInv'
  <1> DEFINE old == publication[s]
             new == publication'[s]
  <1>1. /\ old \in PublicationRecord /\ publication \in [Schedulers -> PublicationRecord]
        /\ old.offered \subseteq Configs /\ published \in 0 .. MaxSummaries
    BY DEF DeliveryInv, TypeInv, PublicationRecord
  <1>2. /\ instrumentation[s] \in old.offered /\ old.run \in Runs /\ old.told = <<>>
    BY DEF DeliveryInv, PublicationInv
  <1>3. first \in Configs /\ second \in Configs /\ <<s, 0>> \in OwnCollectors
    BY <1>1, ObservabilityAssumption, OwnsCollector
  <1>4. chain \in Seq(ObserverRecord) /\ Divided(<<>>, chain, second)
    BY <1>3, ChainIsOf
  <1>5. CASE type = "noop" /\ publication' =
               [publication EXCEPT ![s] = [Quiet EXCEPT !.offered = publication[s].offered]]
             /\ OnlyPublication
    <2> DEFINE p == [Quiet EXCEPT !.offered = old.offered]
               empty == BuildObserverChain(first, <<s, 0>>)
    <2>1. /\ p \in PublicationRecord /\ p.pc = "idle" /\ p.told = <<>>
          /\ p.offered = old.offered
      BY <1>1, QuietIsRecord DEF PublicationRecord
    <2>2. publication' = [publication EXCEPT ![s] = p]
      BY <1>5
    <2> HIDE DEF p
    <2>3. /\ publication' \in [Schedulers -> PublicationRecord] /\ new = p
          /\ \A q \in Schedulers \ {s} : publication'[q] = publication[q]
      BY <1>1, <2>1, <2>2
    <2>4. empty \in Seq(ObserverRecord) /\ Divided(<<>>, empty, first)
      BY <1>3, ChainIsOf
    <2>5. empty = <<>>
      <3> HIDE DEF empty
      <3> QED
        BY <1>5, <2>4, NoopIsEmpty DEF empty
    <2>6. PublicationInv(s)'
      BY <2>1, <2>3, <2>4, <2>5 DEF PublicationInv
    <2>7. UNCHANGED <<config, crashed, published>>
      BY <1>5 DEF OnlyPublication
    <2>8. published' \in 0 .. MaxSummaries
      BY <1>1, <2>7
    <2> QED
      BY <2>3, <2>6, <2>7, <2>8, OnePublication
  <1>6. CASE type # "noop" /\ type = TypeOf(chain)
             /\ publication' = [publication EXCEPT ![s].pc = "telling", ![s].left = chain,
                                                   ![s].type = "noop"]
             /\ OnlyPublication
    <2> DEFINE p == [old EXCEPT !.pc = "telling", !.left = chain, !.type = "noop"]
    <2>1. /\ p \in PublicationRecord /\ p.pc = "telling" /\ p.told = old.told
          /\ p.left = chain /\ p.offered = old.offered /\ p.run = old.run
      BY <1>1, <1>4 DEF PublicationRecord
    <2>2. publication' = [publication EXCEPT ![s] = p]
      BY <1>1, <1>6
    <2> HIDE DEF p
    <2>3. /\ publication' \in [Schedulers -> PublicationRecord] /\ new = p
          /\ \A q \in Schedulers \ {s} : publication'[q] = publication[q]
      BY <1>1, <2>1, <2>2
    <2>4. chain # <<>>
      BY <1>4, <1>6, NoopIsEmpty
    <2>5. UNCHANGED <<config, crashed, published>>
      BY <1>6 DEF OnlyPublication
    <2>6. PublicationInv(s)'
      BY <1>2, <1>4, <2>1, <2>3, <2>4, <2>5 DEF PublicationInv, config
    <2>7. published' \in 0 .. MaxSummaries
      BY <1>1, <2>5
    <2> QED
      BY <2>3, <2>5, <2>6, <2>7, OnePublication
  <1>7. CASE type # TypeOf(chain) /\ crashed' = TRUE
             /\ UNCHANGED <<config, publication, published>>
    <2> DEFINE typeOf(cfg) == TypeOf(BuildObserverChain(cfg, <<s, 0>>))
               S == {typeOf(cfg) : cfg \in publication[s].offered}
    <2>1. S \subseteq {"noop", "composite"} \cup Kinds
      <3> SUFFICES ASSUME NEW cfg \in publication[s].offered
                   PROVE  typeOf(cfg) \in {"noop", "composite"} \cup Kinds
        OBVIOUS
      <3>1. BuildObserverChain(cfg, <<s, 0>>) \in Seq(ObserverRecord)
        BY <1>1, <1>3, ChainIsOf
      <3> QED
        BY <3>1, NoopIsEmpty
    <2>2. IsFiniteSet(S)
      BY <2>1, TypesAreFinite, FS_Subset
    <2>3. type \in S /\ TypeOf(chain) \in S
      <3>1. TypeOf(chain) = typeOf(second)
        BY <1>3, TypeIsOfConfig
      <3> QED
        BY <3>1
    <2> HIDE DEF S
    <2>4. Cardinality(S) > 1
      BY <1>7, <2>2, <2>3, TwoAreMoreThanOne
    <2>5. CrashInv'
      BY <1>7, <2>4 DEF CrashInv, S
    <2>6. TypeInv'
      BY <1>7 DEF DeliveryInv, TypeInv, config
    <2>7. ASSUME NEW q \in Schedulers PROVE BuiltInv(q)' /\ PublicationInv(q)'
      <3>1. BuiltInv(q) /\ PublicationInv(q)
        BY DEF DeliveryInv
      <3> QED
        BY <1>7, <3>1 DEF BuiltInv, PublicationInv, config, Part
    <2> QED
      BY <2>5, <2>6, <2>7 DEF DeliveryInv
  <1> QED
    BY <1>5, <1>6, <1>7 DEF Call

LEMMA CallDelivery ==
  ASSUME DeliveryInv, ~crashed, NEW s \in Schedulers, CallObserver(s)
  PROVE  DeliveryInv'
  <1> DEFINE old == publication[s]
  <1>1. instrumentation[s] \in Configs /\ old.offered \subseteq Configs
    BY DEF DeliveryInv, TypeInv, PublicationRecord
  <1>2. old.pc # "idle" => instrumentation[s] \in old.offered
    BY DEF DeliveryInv, PublicationInv
  <1>3. PICK n \in 0 .. MaxReconfigs :
          observer[s] = BuildObserverChain(instrumentation[s], <<s, n>>)
    BY DEF DeliveryInv, BuiltInv
  <1>4. /\ <<s, n>> \in OwnCollectors /\ <<s, 0>> \in OwnCollectors
        /\ \A m \in 0 .. MaxReconfigs : <<s, m>> \in OwnCollectors
    BY ObservabilityAssumption, OwnsCollector
  <1>5. CASE old.pc = "typeRead" /\ Call(s, old.type, observer[s])
    <2>1. PICK first \in old.offered : old.type = TypeOf(BuildObserverChain(first, <<s, 0>>))
      BY <1>5 DEF DeliveryInv, PublicationInv
    <2>2. old.pc \in {"typeRead", "dataRead"} /\ instrumentation[s] \in old.offered
      BY <1>2, <1>5
    <2> QED
      BY <1>3, <1>4, <1>5, <2>1, <2>2, WordsDelivery
  <1>6. CASE old.pc = "dataRead" /\ Call(s, TypeOf(observer[s]), old.left)
    <2>1. PICK second \in old.offered, m \in 0 .. MaxReconfigs :
            old.left = BuildObserverChain(second, <<s, m>>)
      BY <1>6 DEF DeliveryInv, PublicationInv
    <2>2. TypeOf(observer[s]) = TypeOf(BuildObserverChain(instrumentation[s], <<s, 0>>))
      BY <1>1, <1>3, <1>4, TypeIsOfConfig
    <2>3. /\ old.pc \in {"typeRead", "dataRead"} /\ instrumentation[s] \in old.offered
          /\ <<s, m>> \in OwnCollectors
      BY <1>2, <1>4, <1>6
    <2> QED
      BY <1>6, <2>1, <2>2, <2>3, WordsDelivery
  <1> QED
    BY <1>5, <1>6 DEF CallObserver, At

LEMMA ToldDelivery ==
  ASSUME DeliveryInv, ~crashed, NEW s \in Schedulers,
         publication[s].pc \in {"telling", "observing"}, Told(s),
         UNCHANGED <<config, published, crashed>>
  PROVE  DeliveryInv'
  <1> DEFINE old == publication[s]
             new == publication'[s]
             last == Len(old.left) = 1
             now == IF Head(old.left).effective THEN Append(old.told, Head(old.left))
                                                ELSE old.told
             p == [old EXCEPT !.pc = IF last THEN "idle" ELSE "telling",
                              !.run = IF last THEN Quiet.run ELSE @,
                              !.left = Tail(@), !.told = now]
  <1>1. /\ old \in PublicationRecord /\ publication \in [Schedulers -> PublicationRecord]
        /\ old.left \in Seq(ObserverRecord) /\ old.told \in Seq(ObserverRecord)
        /\ published \in 0 .. MaxSummaries
    BY DEF DeliveryInv, TypeInv, PublicationRecord
  <1>2. instrumentation[s] \in old.offered /\ old.run \in Runs /\ old.left # <<>>
    BY DEF DeliveryInv, PublicationInv
  <1>3. PICK cfg \in old.offered : Divided(old.told, old.left, cfg)
    BY DEF DeliveryInv, PublicationInv
  <1>4. /\ now \in Seq(ObserverRecord) /\ Tail(old.left) \in Seq(ObserverRecord)
        /\ Divided(now, Tail(old.left), cfg)
        /\ last <=> Tail(old.left) = <<>>
    BY <1>1, <1>2, <1>3, DividedPasses
  <1>5. publication' = [publication EXCEPT ![s] = p]
    BY <1>1 DEF Told, Part
  <1> HIDE DEF now, last
  <1>6. /\ p \in PublicationRecord
        /\ p.pc = IF last THEN "idle" ELSE "telling"
        /\ ~last => p.run = old.run
        /\ p.left = Tail(old.left) /\ p.told = now /\ p.offered = old.offered
    BY <1>1, <1>4 DEF PublicationRecord
  <1> HIDE DEF p
  <1>7. /\ publication' \in [Schedulers -> PublicationRecord] /\ new = p
        /\ \A q \in Schedulers \ {s} : publication'[q] = publication[q]
    BY <1>1, <1>5, <1>6
  <1>8. PublicationInv(s)'
    <2>1. CASE last
      <3>1. new.pc = "idle" /\ Divided(new.told, <<>>, cfg) /\ new.offered = old.offered
        BY <1>4, <1>6, <1>7, <2>1
      <3> QED
        BY <3>1 DEF PublicationInv
    <2>2. CASE ~last
      <3>1. /\ new.pc = "telling" /\ Divided(new.told, new.left, cfg)
            /\ new.offered = old.offered /\ new.left # <<>> /\ new.run = old.run
        BY <1>4, <1>6, <1>7, <2>2
      <3> QED
        BY <1>2, <3>1 DEF PublicationInv, config
    <2> QED
      BY <2>1, <2>2
  <1>9. published' \in 0 .. MaxSummaries
    BY <1>1
  <1> QED
    BY <1>7, <1>8, <1>9, OnePublication

LEMMA ObserveDelivery ==
  ASSUME DeliveryInv, ~crashed, NEW s \in Schedulers, Observe(s)
  PROVE  DeliveryInv'
  <1> DEFINE old == publication[s]
             p == [old EXCEPT !.pc = "observing"]
  <1>1. /\ old \in PublicationRecord /\ publication \in [Schedulers -> PublicationRecord]
        /\ published \in 0 .. MaxSummaries
    BY DEF DeliveryInv, TypeInv
  <1>2. old.pc = "telling" /\ Head(old.left).kind = "prometheus"
    BY DEF Observe, Telling, At, Part
  <1>3. /\ instrumentation[s] \in old.offered /\ old.run \in Runs /\ old.left # <<>>
        /\ \E cfg \in old.offered : Divided(old.told, old.left, cfg)
    BY <1>2 DEF DeliveryInv, PublicationInv
  <1>4. publication' = [publication EXCEPT ![s] = p] /\ UNCHANGED <<config, published, crashed>>
    BY <1>1 DEF Observe
  <1>5. /\ p \in PublicationRecord /\ p.pc = "observing" /\ p.run = old.run
        /\ p.left = old.left /\ p.told = old.told /\ p.offered = old.offered
    BY <1>1 DEF PublicationRecord
  <1> HIDE DEF p
  <1>6. /\ publication' \in [Schedulers -> PublicationRecord] /\ publication'[s] = p
        /\ \A q \in Schedulers \ {s} : publication'[q] = publication[q]
    BY <1>1, <1>4, <1>5
  <1>7. PublicationInv(s)'
    BY <1>2, <1>3, <1>4, <1>5, <1>6 DEF PublicationInv, config, Part
  <1>8. published' \in 0 .. MaxSummaries
    BY <1>1, <1>4
  <1> QED
    BY <1>4, <1>6, <1>7, <1>8, OnePublication

LEMMA DeliveryNext == DeliveryInv /\ [Next]_vars => DeliveryInv'
  <1> SUFFICES ASSUME DeliveryInv, [Next]_vars PROVE DeliveryInv'
    OBVIOUS
  <1>1. CASE UNCHANGED vars
    BY <1>1, DeliveryFrame DEF vars
  <1>2. CASE Crashed
    BY <1>2, DeliveryFrame DEF Crashed, vars
  <1>3. ASSUME ~crashed, NEW s \in Schedulers, NEW cfg \in Configs, WithInstrumentation(s, cfg)
        PROVE  DeliveryInv'
    BY <1>3, ReconfigureDelivery
  <1>4. ASSUME ~crashed, NEW s \in Schedulers, NEW run \in Runs, Publish(s, run)
        PROVE  DeliveryInv'
    BY <1>4, PublishDelivery
  <1>5. ASSUME ~crashed, NEW s \in Schedulers, Proceed(s) PROVE DeliveryInv'
    <2>1. CASE ReadType(s) \/ ReadData(s)
      BY <1>5, <2>1, ReadDelivery
    <2>2. CASE CallObserver(s)
      BY <1>5, <2>2, CallDelivery
    <2>3. CASE NotifyCaller(s) \/ Log(s) \/ ExportSpan(s)
      <3>1. publication[s].pc \in {"telling", "observing"} /\ Told(s) /\ OnlyPublication
        BY <2>3 DEF NotifyCaller, Log, ExportSpan, Tell, Telling, At
      <3> QED
        BY <1>5, <3>1, ToldDelivery DEF OnlyPublication
    <2>4. CASE Observed(s)
      <3>1. publication[s].pc \in {"telling", "observing"} /\ Told(s)
            /\ UNCHANGED <<config, published, crashed>>
        BY <2>4 DEF Observed, At
      <3> QED
        BY <1>5, <3>1, ToldDelivery
    <2> QED
      BY <1>5, <2>1, <2>2, <2>3, <2>4 DEF Proceed
  <1>6. ASSUME ~crashed, NEW s \in Schedulers, Observe(s) PROVE DeliveryInv'
    BY <1>6, ObserveDelivery
  <1>7. ASSUME NEW c \in Supplied, BeginScrape(c) \/ EndScrape(c) PROVE DeliveryInv'
    BY <1>7, DeliveryFrame DEF BeginScrape, EndScrape
  <1>8. ASSUME NEW t \in Callers, RunReturns(t) \/ \E s \in Schedulers : RunWithTrace(t, s)
        PROVE  DeliveryInv'
    BY <1>8, DeliveryFrame DEF RunReturns, RunWithTrace
  <1> QED
    BY <1>1, <1>2, <1>3, <1>4, <1>5, <1>6, <1>7, <1>8 DEF Next, Running

LEMMA AlwaysDelivery == Spec => []DeliveryInv
  BY DeliveryInit, DeliveryNext, PTL DEF Spec

(* Each summary is told to everyone one configuration names that was in    *)
(* effect while it was published, once and in the documented order, and to *)
(* nobody else; and the process only crashes if the chains that were there *)
(* meanwhile are of two types.                                             *)
THEOREM SummaryIsAlwaysDelivered == Spec => []SummaryIsDelivered
  <1>1. DeliveryInv => SummaryIsDelivered
    <2> SUFFICES ASSUME DeliveryInv PROVE SummaryIsDelivered
      OBVIOUS
    <2>1. ASSUME NEW s \in Schedulers, NEW cfg \in publication[s].offered, NEW left,
                 Divided(publication[s].told, left, cfg),
                 publication[s].pc = "idle" => left = <<>>
          PROVE  DeliveredBy(s, cfg)
      <3>1. ASSUME publication[s].pc = "idle", NEW kind \in Kinds, Tells(cfg, kind)
            PROVE  \E k \in DOMAIN publication[s].told : publication[s].told[k].kind = kind
        <4>1. Has(publication[s].told, kind) \/ Has(<<>>, kind)
          BY <2>1, <3>1 DEF Divided
        <4>2. ~Has(<<>>, kind)
          BY DEF Has
        <4> QED
          BY <4>1, <4>2 DEF Has
      <3>2. \A k \in DOMAIN publication[s].told :
              PartOf(publication[s].told[k], cfg) /\ publication[s].told[k].effective
        BY <2>1 DEF Divided, PartsOf
      <3>3. \A k, l \in DOMAIN publication[s].told : k < l =>
              Rank[publication[s].told[k].kind] < Rank[publication[s].told[l].kind]
        BY <2>1 DEF Divided, PartsOf
      <3> QED
        BY <3>1, <3>2, <3>3 DEF DeliveredBy, PartOf, At
    <2>2. ASSUME NEW s \in Schedulers, publication[s].offered # {}
          PROVE  \E cfg \in publication[s].offered : DeliveredBy(s, cfg)
      <3>1. PublicationInv(s) /\ publication[s] \in PublicationRecord
        BY DEF DeliveryInv, TypeInv
      <3>2. CASE publication[s].pc = "idle"
        BY <2>1, <2>2, <3>1, <3>2 DEF PublicationInv
      <3>3. CASE publication[s].pc \in {"telling", "observing"}
        BY <2>1, <3>1, <3>3 DEF PublicationInv
      <3>4. CASE publication[s].pc \in {"read", "typeRead", "dataRead"}
        BY <2>2, <3>1, <3>4 DEF PublicationInv, DeliveredBy, At
      <3> QED
        BY <3>1, <3>2, <3>3, <3>4 DEF PublicationRecord
    <2> QED
      BY <2>2 DEF SummaryIsDelivered, DeliveryInv, CrashInv
  <1> QED
    BY <1>1, AlwaysDelivery, PTL

-----------------------------------------------------------------------------
(* The collectors.                                                         *)

LEMMA Outsiders ==
  /\ Scraper \notin Schedulers /\ Nobody \notin Schedulers /\ Nobody # Scraper
  BY ObservabilityAssumption

LEMMA MeterHasCollector ==
  ASSUME DeliveryInv, NEW s \in Schedulers,
         publication[s].pc \in {"telling", "observing"}, Part(s).kind = "prometheus"
  PROVE  Part(s).collector \in All /\ publication[s].run \in Runs
  <1>1. /\ publication[s].left \in Seq(ObserverRecord) /\ publication[s].left # <<>>
        /\ publication[s].run \in Runs
        /\ \E cfg : PartsOf(publication[s].left, cfg)
    BY DEF DeliveryInv, TypeInv, PublicationRecord, PublicationInv, Divided
  <1>2. /\ Part(s) = publication[s].left[1] /\ 1 \in DOMAIN publication[s].left
        /\ Part(s) \in ObserverRecord
    BY <1>1 DEF Part
  <1>3. Part(s).collector # NoCollector
    BY <1>1, <1>2 DEF PartsOf, PartOf
  <1> QED
    BY <1>1, <1>2, <1>3 DEF ObserverRecord, All

LEMMA ExposedNothing ==
  /\ Exposed(<<>>).durations = Metrics!NoSamples
  /\ Exposed(<<>>).counters = Metrics!NoSamples
  /\ Exposed(<<>>) = Metrics!Page(Metrics!NoSamples, Metrics!NoSamples, TRUE)
  <1>1. KeysOf(<<>>) = {}
    BY DEF KeysOf
  <1>2. /\ [key \in KeysOf(<<>>) |-> DurationOf(<<>>, key)] = Metrics!NoSamples
        /\ [key \in KeysOf(<<>>) |-> CounterOf(<<>>, key)] = Metrics!NoSamples
    BY <1>1 DEF Metrics!NoSamples
  <1> QED
    BY <1>2 DEF Exposed, Metrics!Page

LEMMA CollectorInit == Init => CollectorInv
  <1> SUFFICES ASSUME Init PROVE CollectorInv
    OBVIOUS
  <1>1. /\ durations = [c \in All |-> Metrics!NoSamples]
        /\ counters = [c \in All |-> Metrics!NoSamples]
        /\ holder = [c \in All |-> Nobody]
        /\ pages = [c \in All |-> Metrics!Page(Metrics!NoSamples, Metrics!NoSamples, TRUE)]
        /\ observed = [c \in All |-> <<>>]
    BY DEF Init, Metrics!Init, All
  <1>2. \A s \in Schedulers : ~At(s, "observing")
    BY DEF Init, Quiet, At
  <1>3. \A c \in All : pages[c].whole
    BY <1>1 DEF Metrics!Page
  <1>4. LockInv
    BY <1>1, <1>2, <1>3, Outsiders DEF LockInv, Observes
  <1>5. DataInv
    <2>1. \A c \in All : Entered(c) = <<>> /\ observed[c] = <<>>
      BY <1>1, Outsiders DEF Entered
    <2> QED
      BY <1>1, <2>1, ExposedNothing DEF DataInv
  <1>6. PagesAreExact
    <2> SUFFICES ASSUME NEW c \in All
                 PROVE  \E n \in 0 .. Len(observed[c]) :
                          /\ pages[c] = Exposed(SubSeq(observed[c], 1, n))
                          /\ c \in OwnCollectors => n = Len(observed[c])
      BY DEF PagesAreExact, All
    <2>1. observed[c] = <<>> /\ Len(observed[c]) = 0 /\ SubSeq(<<>>, 1, 0) = <<>>
      BY <1>1
    <2>2. pages[c] = Exposed(SubSeq(observed[c], 1, 0))
      BY <1>1, <2>1, ExposedNothing
    <2> QED
      BY <2>1, <2>2
  <1>7. PageInv
    BY <1>1, <1>3, <1>6 DEF PageInv
  <1> QED
    BY <1>4, <1>5, <1>7 DEF CollectorInv

(* What does not enter a run into a collector, nor reads one, leaves them  *)
(* as they are.                                                            *)
Undisturbed ==
  \A s \in Schedulers :
    /\ publication'[s].pc = "observing" <=> publication[s].pc = "observing"
    /\ publication[s].pc = "observing" =>
         publication'[s].left = publication[s].left /\ publication'[s].run = publication[s].run

LEMMA CollectorFrame ==
  ASSUME CollectorInv, UNCHANGED <<metrics, observed>>, Undisturbed
  PROVE  CollectorInv'
  <1>1. \A s \in Schedulers, c \in All : Observes(s, c)' <=> Observes(s, c)
    BY DEF Undisturbed, Observes, At, Part
  <1>2. UNCHANGED <<durations, counters, holder, pages, observed>>
    BY DEF metrics
  <1>3. LockInv'
    BY <1>1, <1>2 DEF CollectorInv, LockInv
  <1>4. ASSUME NEW c \in All PROVE Entered(c)' = Entered(c)
    <2>1. CASE holder[c] \in Schedulers
      <3>1. publication[holder[c]].pc = "observing"
        BY <2>1 DEF CollectorInv, LockInv, Observes, At
      <3> QED
        BY <1>2, <2>1, <3>1 DEF Undisturbed, Entered
    <2>2. CASE holder[c] \notin Schedulers
      BY <1>2, <2>2 DEF Entered
    <2> QED
      BY <2>1, <2>2
  <1>5. DataInv'
    BY <1>2, <1>4 DEF CollectorInv, DataInv
  <1>6. PageInv'
    BY <1>2 DEF CollectorInv, PageInv, PagesAreExact
  <1> QED
    BY <1>3, <1>5, <1>6 DEF CollectorInv

LEMMA ObserveCollector ==
  ASSUME CollectorInv, DeliveryInv, NEW s \in Schedulers, Observe(s)
  PROVE  CollectorInv'
  <1>0. /\ publication[s].pc = "telling" /\ Part(s).kind = "prometheus"
        /\ Part(s).collector \in All /\ publication[s].run \in Runs
    <2>1. publication[s].pc = "telling" /\ Part(s).kind = "prometheus"
      BY DEF Observe, Telling, At
    <2> QED
      BY <2>1, MeterHasCollector
  <1>a. PICK c \in All : c = Part(s).collector
    BY <1>0
  <1>b. PICK run \in Runs : run = publication[s].run
    BY <1>0
  <1> DEFINE summary == RunWorkGroup(run)
             sample == Metrics!With(durations[c], summary.key,
                         Metrics!AddDuration(
                           Metrics!Sample(durations[c], summary.key, Metrics!NoDuration), summary))
  <1>1. /\ holder[c] = Nobody
        /\ holder' = [holder EXCEPT ![c] = s]
        /\ durations' = [durations EXCEPT ![c] = sample]
        /\ UNCHANGED <<counters, pages, observed>>
    BY <1>a, <1>b DEF Observe, Metrics!ObserveDuration, Metrics!Unlocked
  <1>2. c \in All /\ run \in Runs
    OBVIOUS
  <1>3. /\ publication'[s].pc = "observing" /\ publication'[s].left = publication[s].left
        /\ publication'[s].run = run
        /\ \A q \in Schedulers \ {s} : publication'[q] = publication[q]
    BY <1>b DEF Observe, DeliveryInv, TypeInv, PublicationRecord
  <1>4. /\ holder \in [All -> Schedulers \cup {Scraper, Nobody}]
        /\ \A q \in Schedulers, d \in All : holder[d] = q <=> Observes(q, d)
        /\ \A d \in All : holder[d] = Scraper <=> ~pages[d].whole
    BY DEF CollectorInv, LockInv
  <1>5. /\ observed \in [All -> Seq(Runs)]
        /\ durations = [d \in All |-> Exposed(Entered(d)).durations]
        /\ counters = [d \in All |-> Exposed(observed[d]).counters]
    BY DEF CollectorInv, DataInv
  <1>6. /\ Observes(s, c)' /\ \A d \in All \ {c} : ~Observes(s, d)'
        /\ \A d \in All : ~Observes(s, d)
        /\ \A q \in Schedulers \ {s}, d \in All : Observes(q, d)' <=> Observes(q, d)
    BY <1>0, <1>a, <1>3 DEF Observes, At, Part
  <1> HIDE DEF summary, sample
  <1>7. holder'[c] = s /\ \A d \in All \ {c} : holder'[d] = holder[d]
    BY <1>1, <1>2, <1>4
  <1>8. LockInv'
    <2>1. holder' \in [All -> Schedulers \cup {Scraper, Nobody}]
      BY <1>1, <1>4
    <2>2. ASSUME NEW q \in Schedulers, NEW d \in All PROVE holder'[d] = q <=> Observes(q, d)'
      <3>1. CASE d = c /\ q = s
        BY <1>6, <1>7, <3>1
      <3>2. CASE d = c /\ q # s
        <4>1. ~Observes(q, c)'
          BY <1>1, <1>4, <1>6, <3>2, Outsiders
        <4> QED
          BY <1>7, <3>2, <4>1
      <3>3. CASE d # c /\ q = s
        BY <1>4, <1>6, <1>7, <3>3
      <3>4. CASE d # c /\ q # s
        BY <1>4, <1>6, <1>7, <3>4
      <3> QED
        BY <3>1, <3>2, <3>3, <3>4
    <2>3. \A d \in All : holder'[d] = Scraper <=> ~pages'[d].whole
      BY <1>1, <1>4, <1>7, Outsiders
    <2> QED
      BY <2>1, <2>2, <2>3 DEF LockInv
  <1>9. Entered(c) = observed[c] /\ Entered(c)' = Append(observed[c], run)
    <2>1. Entered(c)' = Append(observed'[c], publication'[s].run)
      BY <1>7 DEF Entered
    <2> QED
      BY <1>1, <1>3, <2>1, Outsiders DEF Entered
  <1>10. ASSUME NEW d \in All \ {c} PROVE Entered(d)' = Entered(d)
    <2>1. holder'[d] = holder[d] /\ holder[d] # s /\ observed'[d] = observed[d]
      BY <1>1, <1>4, <1>6, <1>7
    <2>2. CASE holder[d] \in Schedulers
      <3>1. publication'[holder[d]] = publication[holder[d]]
        BY <1>3, <2>1, <2>2
      <3> QED
        BY <2>1, <3>1 DEF Entered
    <2>3. CASE holder[d] \notin Schedulers
      BY <2>1, <2>3 DEF Entered
    <2> QED
      BY <2>2, <2>3
  <1>11. DataInv'
    <2>1. durations[c] = Exposed(observed[c]).durations /\ observed[c] \in Seq(Runs)
      BY <1>2, <1>5, <1>9
    <2>2. sample = Exposed(Append(observed[c], run)).durations
      BY <1>2, <2>1, ExposedAppend DEF sample, summary
    <2>3. ASSUME NEW d \in All PROVE durations'[d] = Exposed(Entered(d)').durations
      <3>1. CASE d = c
        BY <1>1, <1>5, <1>9, <2>2, <3>1
      <3>2. CASE d # c
        BY <1>1, <1>5, <1>10, <3>2
      <3> QED
        BY <3>1, <3>2
    <2>4. durations' = [d \in All |-> Exposed(Entered(d)').durations]
      BY <1>1, <1>5, <2>3
    <2> QED
      BY <1>1, <1>5, <2>4 DEF DataInv
  <1>12. PageInv'
    <2>1. pages[c].whole
      BY <1>1, <1>4, Outsiders
    <2>2. \A d \in All \ {c} : durations'[d] = durations[d]
      BY <1>1, <1>5
    <2>3. /\ DOMAIN pages = All
          /\ \A d \in All : ~pages[d].whole =>
               pages[d] = Metrics!Page(durations[d], Metrics!NoSamples, FALSE)
      BY DEF CollectorInv, PageInv
    <2>4. PagesAreExact'
      BY <1>1 DEF CollectorInv, PageInv, PagesAreExact
    <2> QED
      BY <1>1, <2>1, <2>2, <2>3, <2>4 DEF PageInv
  <1> QED
    BY <1>8, <1>11, <1>12 DEF CollectorInv

(* A prefix of what a collector was told of stays one.                     *)
LEMMA PrefixStays ==
  ASSUME NEW S, NEW runs \in Seq(S), NEW run \in S, NEW n \in 0 .. Len(runs)
  PROVE  /\ SubSeq(Append(runs, run), 1, n) = SubSeq(runs, 1, n)
         /\ n \in 0 .. Len(Append(runs, run))
  <1>1. /\ Append(runs, run) \in Seq(S) /\ Len(Append(runs, run)) = Len(runs) + 1
        /\ \A i \in 1 .. Len(runs) : Append(runs, run)[i] = runs[i]
        /\ Len(runs) \in Nat
    BY AppendProperties
  <1>2. /\ SubSeq(Append(runs, run), 1, n) = [i \in 1 .. n |-> Append(runs, run)[i]]
        /\ SubSeq(runs, 1, n) = [i \in 1 .. n |-> runs[i]]
    OBVIOUS
  <1> QED
    BY <1>1, <1>2

LEMMA ObservedCollector ==
  ASSUME CollectorInv, DeliveryInv, NEW s \in Schedulers, Observed(s)
  PROVE  CollectorInv'
  <1>0. /\ publication[s].pc = "observing" /\ Part(s).kind = "prometheus"
        /\ Part(s).collector \in All /\ publication[s].run \in Runs
    <2>1. publication[s].pc = "observing"
      BY DEF Observed, At
    <2>2. Part(s).kind = "prometheus"
      BY <2>1 DEF DeliveryInv, PublicationInv
    <2> QED
      BY <2>1, <2>2, MeterHasCollector
  <1>a. PICK c \in All : c = Part(s).collector
    BY <1>0
  <1>b. PICK run \in Runs : run = publication[s].run
    BY <1>0
  <1> DEFINE summary == RunWorkGroup(run)
             sample == Metrics!With(counters[c], summary.key,
                         Metrics!AddCounts(
                           Metrics!Sample(counters[c], summary.key, Metrics!NoCounter), summary))
             page == Metrics!Page(durations[c], counters'[c], TRUE)
  <1>1. /\ holder' = [holder EXCEPT ![c] = Nobody]
        /\ counters' = [counters EXCEPT ![c] = sample]
        /\ pages' = IF c \in OwnCollectors THEN [pages EXCEPT ![c] = page] ELSE pages
        /\ durations' = durations
        /\ observed' = [observed EXCEPT ![c] = Append(@, run)]
    BY <1>a, <1>b DEF Observed, Metrics!ObserveCounts
  <1>2. /\ publication'[s].pc # "observing"
        /\ \A q \in Schedulers \ {s} : publication'[q] = publication[q]
    BY DEF Observed, Told, DeliveryInv, TypeInv, PublicationRecord
  <1>3. /\ holder \in [All -> Schedulers \cup {Scraper, Nobody}]
        /\ \A q \in Schedulers, d \in All : holder[d] = q <=> Observes(q, d)
        /\ \A d \in All : holder[d] = Scraper <=> ~pages[d].whole
    BY DEF CollectorInv, LockInv
  <1>4. /\ observed \in [All -> Seq(Runs)]
        /\ durations = [d \in All |-> Exposed(Entered(d)).durations]
        /\ counters = [d \in All |-> Exposed(observed[d]).counters]
    BY DEF CollectorInv, DataInv
  <1>5. /\ DOMAIN pages = All
        /\ \A d \in All : ~pages[d].whole =>
             pages[d] = Metrics!Page(durations[d], Metrics!NoSamples, FALSE)
    BY DEF CollectorInv, PageInv
  <1>6. /\ Observes(s, c) /\ \A d \in All \ {c} : ~Observes(s, d)
        /\ \A d \in All : ~Observes(s, d)'
        /\ \A q \in Schedulers \ {s}, d \in All : Observes(q, d)' <=> Observes(q, d)
    BY <1>0, <1>a, <1>2 DEF Observes, At, Part
  <1> HIDE DEF summary, sample
  <1>7. /\ holder[c] = s /\ holder'[c] = Nobody
        /\ \A d \in All \ {c} : holder'[d] = holder[d]
    BY <1>1, <1>3, <1>6
  <1>8. /\ observed[c] \in Seq(Runs) /\ observed'[c] = Append(observed[c], run)
        /\ counters'[c] = sample
        /\ \A d \in All \ {c} : observed'[d] = observed[d] /\ counters'[d] = counters[d]
    BY <1>1, <1>4
  <1>9. \A d \in All \ {c} : pages'[d] = pages[d]
    BY <1>1, <1>5
  <1>10. /\ c \in OwnCollectors => pages'[c] = page
         /\ c \notin OwnCollectors => pages'[c] = pages[c]
    BY <1>1, <1>5
  <1>11. pages[c].whole /\ pages'[c].whole
    BY <1>3, <1>7, <1>10, Outsiders DEF Metrics!Page
  <1>12. LockInv'
    <2>1. holder' \in [All -> Schedulers \cup {Scraper, Nobody}]
      BY <1>1, <1>3
    <2>2. ASSUME NEW q \in Schedulers, NEW d \in All PROVE holder'[d] = q <=> Observes(q, d)'
      <3>1. CASE d = c /\ q = s
        BY <1>6, <1>7, <3>1, Outsiders
      <3>2. CASE d = c /\ q # s
        <4>1. ~Observes(q, c)'
          BY <1>3, <1>6, <1>7, <3>2
        <4> QED
          BY <1>7, <3>2, <4>1, Outsiders
      <3>3. CASE d # c /\ q = s
        BY <1>3, <1>6, <1>7, <3>3
      <3>4. CASE d # c /\ q # s
        BY <1>3, <1>6, <1>7, <3>4
      <3> QED
        BY <3>1, <3>2, <3>3, <3>4
    <2>3. ASSUME NEW d \in All PROVE holder'[d] = Scraper <=> ~pages'[d].whole
      <3>1. CASE d = c
        BY <1>7, <1>11, <3>1, Outsiders
      <3>2. CASE d # c
        BY <1>3, <1>7, <1>9, <3>2
      <3> QED
        BY <3>1, <3>2
    <2> QED
      BY <2>1, <2>2, <2>3 DEF LockInv
  <1>13. Entered(c) = Append(observed[c], run) /\ Entered(c)' = observed'[c]
    BY <1>b, <1>7, Outsiders DEF Entered
  <1>14. ASSUME NEW d \in All \ {c} PROVE Entered(d)' = Entered(d)
    <2>1. holder'[d] = holder[d] /\ holder[d] # s /\ observed'[d] = observed[d]
      BY <1>3, <1>6, <1>7, <1>8
    <2>2. CASE holder[d] \in Schedulers
      <3>1. publication'[holder[d]] = publication[holder[d]]
        BY <1>2, <2>1, <2>2
      <3> QED
        BY <2>1, <3>1 DEF Entered
    <2>3. CASE holder[d] \notin Schedulers
      BY <2>1, <2>3 DEF Entered
    <2> QED
      BY <2>2, <2>3
  <1>15. counters'[c] = Exposed(observed'[c]).counters
    <2>1. counters[c] = Exposed(observed[c]).counters
      BY <1>4
    <2>2. sample = Exposed(Append(observed[c], run)).counters
      BY <1>8, <2>1, ExposedAppend DEF sample, summary
    <2> QED
      BY <1>8, <2>2
  <1>16. durations'[c] = Exposed(observed'[c]).durations
    BY <1>1, <1>4, <1>8, <1>13
  <1>17. DataInv'
    <2>1. ASSUME NEW d \in All PROVE durations'[d] = Exposed(Entered(d)').durations
      <3>1. CASE d = c
        BY <1>13, <1>16, <3>1
      <3>2. CASE d # c
        BY <1>1, <1>4, <1>14, <3>2
      <3> QED
        BY <3>1, <3>2
    <2>2. ASSUME NEW d \in All PROVE counters'[d] = Exposed(observed'[d]).counters
      <3>1. CASE d = c
        BY <1>15, <3>1
      <3>2. CASE d # c
        BY <1>4, <1>8, <3>2
      <3> QED
        BY <3>1, <3>2
    <2>3. durations' = [d \in All |-> Exposed(Entered(d)').durations]
      BY <1>1, <1>4, <2>1
    <2>4. counters' = [d \in All |-> Exposed(observed'[d]).counters]
      BY <1>1, <1>4, <2>2
    <2>5. observed' \in [All -> Seq(Runs)]
      BY <1>1, <1>4, <1>8
    <2> QED
      BY <2>3, <2>4, <2>5 DEF DataInv
  <1>18. PagesAreExact'
    <2> SUFFICES ASSUME NEW d \in All, pages'[d].whole
                 PROVE  \E n \in 0 .. Len(observed'[d]) :
                          /\ pages'[d] = Exposed(SubSeq(observed'[d], 1, n))
                          /\ d \in OwnCollectors => n = Len(observed'[d])
      BY DEF PagesAreExact, All
    <2>1. ASSUME NEW e \in All, pages[e].whole
          PROVE  \E n \in 0 .. Len(observed[e]) :
                   /\ pages[e] = Exposed(SubSeq(observed[e], 1, n))
                   /\ e \in OwnCollectors => n = Len(observed[e])
      BY <2>1 DEF CollectorInv, PageInv, PagesAreExact, All
    <2>2. CASE d # c
      BY <1>8, <1>9, <2>1, <2>2
    <2>3. CASE d = c /\ c \in OwnCollectors
      <3>1. observed'[c] \in Seq(Runs) /\ Len(observed'[c]) \in 0 .. Len(observed'[c])
        BY <1>8
      <3>2. SubSeq(observed'[c], 1, Len(observed'[c])) = observed'[c]
        BY <3>1, SubSeqFull
      <3>3. pages'[c] = Exposed(observed'[c])
        BY <1>1, <1>10, <1>15, <1>16, <2>3 DEF Metrics!Page, Exposed
      <3> QED
        BY <2>3, <3>1, <3>2, <3>3
    <2>4. CASE d = c /\ c \notin OwnCollectors
      <3>1. PICK n \in 0 .. Len(observed[c]) : pages[c] = Exposed(SubSeq(observed[c], 1, n))
        BY <1>11, <2>1
      <3>2. /\ n \in 0 .. Len(observed'[c])
            /\ SubSeq(observed'[c], 1, n) = SubSeq(observed[c], 1, n)
        BY <1>8, PrefixStays
      <3> QED
        BY <1>10, <2>4, <3>1, <3>2
    <2> QED
      BY <2>2, <2>3, <2>4
  <1>19. PageInv'
    <2>1. DOMAIN pages' = All
      BY <1>1, <1>5
    <2>2. ASSUME NEW d \in All, ~pages'[d].whole
          PROVE  pages'[d] = Metrics!Page(durations'[d], Metrics!NoSamples, FALSE)
      BY <1>1, <1>5, <1>9, <1>11, <2>2
    <2> QED
      BY <1>18, <2>1, <2>2 DEF PageInv
  <1> QED
    BY <1>12, <1>17, <1>19 DEF CollectorInv

LEMMA BeginScrapeCollector ==
  ASSUME CollectorInv, NEW c \in Supplied, BeginScrape(c)
  PROVE  CollectorInv'
  <1> DEFINE page == Metrics!Page(durations[c], Metrics!NoSamples, FALSE)
  <1>1. /\ holder[c] = Nobody /\ holder' = [holder EXCEPT ![c] = Scraper]
        /\ pages' = [pages EXCEPT ![c] = page]
        /\ UNCHANGED <<durations, counters, publication, observed>>
    BY DEF BeginScrape, Metrics!WriteDurations, Metrics!Unlocked
  <1>2. c \in All
    BY DEF All
  <1>3. /\ holder \in [All -> Schedulers \cup {Scraper, Nobody}]
        /\ \A s \in Schedulers, d \in All : holder[d] = s <=> Observes(s, d)
        /\ \A d \in All : holder[d] = Scraper <=> ~pages[d].whole
    BY DEF CollectorInv, LockInv
  <1>4. DOMAIN pages = All
    BY DEF CollectorInv, PageInv
  <1>5. /\ holder'[c] = Scraper /\ pages'[c] = page /\ ~pages'[c].whole
        /\ \A d \in All \ {c} : holder'[d] = holder[d] /\ pages'[d] = pages[d]
    BY <1>1, <1>2, <1>3, <1>4 DEF Metrics!Page
  <1>6. \A s \in Schedulers, d \in All : Observes(s, d)' <=> Observes(s, d)
    BY <1>1 DEF Observes, At, Part
  <1>7. LockInv'
    <2>1. holder' \in [All -> Schedulers \cup {Scraper, Nobody}]
      BY <1>1, <1>3
    <2>2. ASSUME NEW s \in Schedulers, NEW d \in All PROVE holder'[d] = s <=> Observes(s, d)'
      <3>1. CASE d = c
        BY <1>1, <1>2, <1>3, <1>5, <1>6, <3>1, Outsiders
      <3>2. CASE d # c
        BY <1>3, <1>5, <1>6, <3>2
      <3> QED
        BY <3>1, <3>2
    <2>3. \A d \in All : holder'[d] = Scraper <=> ~pages'[d].whole
      BY <1>3, <1>5
    <2> QED
      BY <2>1, <2>2, <2>3 DEF LockInv
  <1>8. ASSUME NEW d \in All PROVE Entered(d)' = Entered(d)
    <2>1. CASE d = c
      <3>1. Entered(c)' = observed'[c] /\ Entered(c) = observed[c]
        BY <1>1, <1>5, Outsiders DEF Entered
      <3> QED
        BY <1>1, <2>1, <3>1
    <2>2. CASE d # c
      BY <1>1, <1>5, <2>2 DEF Entered
    <2> QED
      BY <2>1, <2>2
  <1>9. DataInv'
    BY <1>1, <1>8 DEF CollectorInv, DataInv
  <1>10. PageInv'
    <2>1. DOMAIN pages' = All
      BY <1>1, <1>4
    <2>2. ASSUME NEW d \in All, ~pages'[d].whole
          PROVE  pages'[d] = Metrics!Page(durations'[d], Metrics!NoSamples, FALSE)
      BY <1>1, <1>5, <2>2 DEF CollectorInv, PageInv
    <2>3. PagesAreExact'
      BY <1>1, <1>5 DEF CollectorInv, PageInv, PagesAreExact, All
    <2> QED
      BY <2>1, <2>2, <2>3 DEF PageInv
  <1> QED
    BY <1>7, <1>9, <1>10 DEF CollectorInv

LEMMA EndScrapeCollector ==
  ASSUME CollectorInv, NEW c \in Supplied, EndScrape(c)
  PROVE  CollectorInv'
  <1> DEFINE page == Metrics!Page(pages[c].durations, counters[c], TRUE)
  <1>1. /\ holder[c] = Scraper /\ holder' = [holder EXCEPT ![c] = Nobody]
        /\ pages' = [pages EXCEPT ![c] = page]
        /\ UNCHANGED <<durations, counters, publication, observed>>
    BY DEF EndScrape, Metrics!WriteCounters
  <1>2. c \in All
    BY DEF All
  <1>3. /\ holder \in [All -> Schedulers \cup {Scraper, Nobody}]
        /\ \A s \in Schedulers, d \in All : holder[d] = s <=> Observes(s, d)
        /\ \A d \in All : holder[d] = Scraper <=> ~pages[d].whole
    BY DEF CollectorInv, LockInv
  <1>4. /\ DOMAIN pages = All
        /\ pages[c] = Metrics!Page(durations[c], Metrics!NoSamples, FALSE)
    BY <1>1, <1>2, <1>3 DEF CollectorInv, PageInv
  <1>5. page = Metrics!Page(durations[c], counters[c], TRUE)
    BY <1>4 DEF Metrics!Page
  <1>6. /\ holder'[c] = Nobody /\ pages'[c] = Metrics!Page(durations[c], counters[c], TRUE)
        /\ pages'[c].whole
        /\ \A d \in All \ {c} : holder'[d] = holder[d] /\ pages'[d] = pages[d]
    BY <1>1, <1>2, <1>3, <1>4, <1>5 DEF Metrics!Page
  <1>7. \A s \in Schedulers, d \in All : Observes(s, d)' <=> Observes(s, d)
    BY <1>1 DEF Observes, At, Part
  <1>8. LockInv'
    <2>1. holder' \in [All -> Schedulers \cup {Scraper, Nobody}]
      BY <1>1, <1>3
    <2>2. ASSUME NEW s \in Schedulers, NEW d \in All PROVE holder'[d] = s <=> Observes(s, d)'
      <3>1. CASE d = c
        BY <1>1, <1>2, <1>3, <1>6, <1>7, <3>1, Outsiders
      <3>2. CASE d # c
        BY <1>3, <1>6, <1>7, <3>2
      <3> QED
        BY <3>1, <3>2
    <2>3. \A d \in All : holder'[d] = Scraper <=> ~pages'[d].whole
      BY <1>3, <1>6, Outsiders
    <2> QED
      BY <2>1, <2>2, <2>3 DEF LockInv
  <1>9. Entered(c) = observed[c]
    BY <1>1, Outsiders DEF Entered
  <1>10. ASSUME NEW d \in All PROVE Entered(d)' = Entered(d)
    <2>1. CASE d = c
      <3>1. Entered(c)' = observed'[c]
        BY <1>6, Outsiders DEF Entered
      <3> QED
        BY <1>1, <1>9, <2>1, <3>1
    <2>2. CASE d # c
      BY <1>1, <1>6, <2>2 DEF Entered
    <2> QED
      BY <2>1, <2>2
  <1>11. DataInv'
    BY <1>1, <1>10 DEF CollectorInv, DataInv
  <1>12. PagesAreExact'
    <2> SUFFICES ASSUME NEW d \in All, pages'[d].whole
                 PROVE  \E n \in 0 .. Len(observed[d]) :
                          /\ pages'[d] = Exposed(SubSeq(observed[d], 1, n))
                          /\ d \in OwnCollectors => n = Len(observed[d])
      BY <1>1 DEF PagesAreExact, All
    <2>1. CASE d # c
      BY <1>6, <2>1 DEF CollectorInv, PageInv, PagesAreExact, All
    <2>2. CASE d = c
      <3>1. observed[c] \in Seq(Runs) /\ Len(observed[c]) \in 0 .. Len(observed[c])
        BY <1>2 DEF CollectorInv, DataInv
      <3>2. SubSeq(observed[c], 1, Len(observed[c])) = observed[c]
        BY <3>1, SubSeqFull
      <3>3. /\ durations[c] = Exposed(observed[c]).durations
            /\ counters[c] = Exposed(observed[c]).counters
        BY <1>2, <1>9 DEF CollectorInv, DataInv
      <3>4. pages'[c] = Exposed(observed[c])
        BY <1>6, <3>3 DEF Metrics!Page, Exposed
      <3> QED
        BY <2>2, <3>1, <3>2, <3>4
    <2> QED
      BY <2>1, <2>2
  <1>13. PageInv'
    <2>1. DOMAIN pages' = All
      BY <1>1, <1>4
    <2>2. ASSUME NEW d \in All, ~pages'[d].whole
          PROVE  pages'[d] = Metrics!Page(durations'[d], Metrics!NoSamples, FALSE)
      BY <1>1, <1>6, <2>2 DEF CollectorInv, PageInv
    <2> QED
      BY <1>12, <2>1, <2>2 DEF PageInv
  <1> QED
    BY <1>8, <1>11, <1>13 DEF CollectorInv

(* The steps of a publication that have nothing to do with a collector.    *)
LEMMA ProceedCollector ==
  ASSUME CollectorInv, DeliveryInv, NEW s \in Schedulers, Proceed(s), ~Observed(s)
  PROVE  CollectorInv'
  <1>1. publication \in [Schedulers -> PublicationRecord]
    BY DEF DeliveryInv, TypeInv
  <1>2. CASE ReadType(s) \/ ReadData(s)
    <2>1. Undisturbed
      BY <1>1, <1>2 DEF ReadType, ReadData, At, Undisturbed, PublicationRecord
    <2> QED
      BY <1>2, <2>1, CollectorFrame DEF ReadType, ReadData, OnlyPublication
  <1>3. CASE CallObserver(s)
    <2>1. UNCHANGED <<metrics, observed>>
      BY <1>3 DEF CallObserver, Call, OnlyPublication
    <2>2. publication[s].pc # "observing"
      BY <1>3 DEF CallObserver, At
    <2>3. \A type, chain : Call(s, type, chain) =>
            /\ publication'[s].pc # "observing"
            /\ \A q \in Schedulers \ {s} : publication'[q] = publication[q]
      <3> SUFFICES ASSUME NEW type, NEW chain, Call(s, type, chain)
                   PROVE  /\ publication'[s].pc # "observing"
                          /\ \A q \in Schedulers \ {s} : publication'[q] = publication[q]
        OBVIOUS
      <3>1. CASE publication' = [publication EXCEPT
                   ![s] = [Quiet EXCEPT !.offered = publication[s].offered]]
        BY <1>1, <3>1 DEF Quiet
      <3>2. CASE publication' = [publication EXCEPT
                   ![s].pc = "telling", ![s].left = chain, ![s].type = "noop"]
        BY <1>1, <3>2 DEF PublicationRecord
      <3>3. CASE publication' = publication
        BY <2>2, <3>3
      <3> QED
        BY <3>1, <3>2, <3>3 DEF Call
    <2>4. Undisturbed
      BY <1>3, <2>2, <2>3 DEF CallObserver, Undisturbed
    <2> QED
      BY <2>1, <2>4, CollectorFrame
  <1>4. CASE NotifyCaller(s) \/ Log(s) \/ ExportSpan(s)
    <2>1. At(s, "telling") /\ Told(s) /\ UNCHANGED <<metrics, observed>>
      BY <1>4 DEF NotifyCaller, Log, ExportSpan, Tell, Telling, OnlyPublication
    <2>2. Undisturbed
      BY <1>1, <2>1 DEF Told, At, Undisturbed, PublicationRecord
    <2> QED
      BY <2>1, <2>2, CollectorFrame
  <1> QED
    BY <1>2, <1>3, <1>4 DEF Proceed

LEMMA CollectorNext == CollectorInv /\ DeliveryInv /\ [Next]_vars => CollectorInv'
  <1> SUFFICES ASSUME CollectorInv, DeliveryInv, [Next]_vars PROVE CollectorInv'
    OBVIOUS
  <1>1. publication \in [Schedulers -> PublicationRecord]
    BY DEF DeliveryInv, TypeInv
  <1>2. ASSUME UNCHANGED <<metrics, observed, publication>> PROVE CollectorInv'
    BY <1>2, CollectorFrame DEF Undisturbed
  <1>3. ASSUME NEW s \in Schedulers, NEW cfg \in Configs, WithInstrumentation(s, cfg)
        PROVE  CollectorInv'
    <2>1. Undisturbed
      BY <1>1, <1>3 DEF WithInstrumentation, Undisturbed, PublicationRecord
    <2> QED
      BY <1>3, <2>1, CollectorFrame DEF WithInstrumentation
  <1>4. ASSUME NEW s \in Schedulers, NEW run \in Runs, Publish(s, run) PROVE CollectorInv'
    <2>1. Undisturbed
      BY <1>1, <1>4 DEF Publish, At, Undisturbed, PublicationRecord, Quiet
    <2> QED
      BY <1>4, <2>1, CollectorFrame DEF Publish
  <1>5. ASSUME NEW s \in Schedulers, Proceed(s) PROVE CollectorInv'
    BY <1>5, ObservedCollector, ProceedCollector
  <1>6. ASSUME NEW s \in Schedulers, Observe(s) PROVE CollectorInv'
    BY <1>6, ObserveCollector
  <1>7. ASSUME NEW c \in Supplied, BeginScrape(c) \/ EndScrape(c) PROVE CollectorInv'
    BY <1>7, BeginScrapeCollector, EndScrapeCollector
  <1>8. ASSUME NEW t \in Callers, RunReturns(t) \/ \E s \in Schedulers : RunWithTrace(t, s)
        PROVE  CollectorInv'
    BY <1>2, <1>8 DEF RunReturns, RunWithTrace
  <1> QED
    BY <1>2, <1>3, <1>4, <1>5, <1>6, <1>7, <1>8 DEF Next, Running, Crashed, vars

LEMMA AlwaysCollector == Spec => []CollectorInv
  BY AlwaysDelivery, CollectorInit, CollectorNext, PTL DEF Spec

(* A page shows the collector as it is between two summaries, with no run  *)
(* counted twice or in part, whoever publishes or scrapes meanwhile; one   *)
(* that is written after each summary is up to date.                       *)
THEOREM PagesAreAlwaysExact == Spec => []PagesAreExact
  <1>1. CollectorInv => PagesAreExact
    BY DEF CollectorInv, PageInv
  <1> QED
    BY <1>1, AlwaysCollector, PTL

LEMMA TypesHold == DeliveryInv /\ CollectorInv /\ TraceInv => TypeOK
  <1> SUFFICES ASSUME DeliveryInv, CollectorInv, TraceInv PROVE TypeOK
    OBVIOUS
  <1>1. /\ instrumentation \in [Schedulers -> Configs]
        /\ observer \in [Schedulers -> Seq(ObserverRecord)]
        /\ publication \in [Schedulers -> PublicationRecord]
        /\ reconfigs \in 0 .. MaxReconfigs /\ published \in 0 .. MaxSummaries
    BY DEF DeliveryInv, TypeInv
  <1>2. ASSUME NEW s \in Schedulers
        PROVE  /\ observer[s] \in Seq(ObserverRecord)
               /\ \A k \in DOMAIN observer[s] :
                    observer[s][k].kind = "prometheus" <=>
                      observer[s][k].collector # NoCollector
    <2>1. PICK n \in 0 .. MaxReconfigs :
            observer[s] = BuildObserverChain(instrumentation[s], <<s, n>>)
      BY DEF DeliveryInv, BuiltInv
    <2>2. PartsOf(observer[s], instrumentation[s])
      BY <1>1, <2>1, ChainIsOf DEF Divided, OwnCollectors
    <2> QED
      BY <1>1, <2>2 DEF PartsOf, PartOf
  <1>3. ASSUME NEW s \in Schedulers
        PROVE  /\ publication[s].pc \in {"idle", "read", "typeRead", "dataRead",
                                         "telling", "observing"}
               /\ publication[s].run \in Runs \cup {Quiet.run}
               /\ publication[s].type \in {"noop", "composite"} \cup Kinds
               /\ publication[s].left \in Seq(ObserverRecord)
               /\ publication[s].told \in Seq(ObserverRecord)
               /\ publication[s].offered \subseteq Configs
               /\ At(s, "telling") \/ At(s, "observing") => publication[s].left # <<>>
    <2>1. publication[s] \in PublicationRecord
      BY <1>1
    <2>2. At(s, "telling") \/ At(s, "observing") => publication[s].left # <<>>
      BY DEF DeliveryInv, PublicationInv, At
    <2> QED
      BY <2>1, <2>2 DEF PublicationRecord
  <1>4. ASSUME NEW c \in Supplied \cup OwnCollectors
        PROVE  /\ holder[c] \in Schedulers \cup {Scraper, Nobody}
               /\ DOMAIN durations[c] \subseteq Keys
               /\ DOMAIN counters[c] \subseteq DOMAIN durations[c]
    <2>1. /\ c \in All /\ holder \in [All -> Schedulers \cup {Scraper, Nobody}]
          /\ observed[c] \in Seq(Runs)
      BY DEF All, CollectorInv, LockInv, DataInv
    <2>2. /\ DOMAIN durations[c] = KeysOf(Entered(c))
          /\ DOMAIN counters[c] = KeysOf(observed[c])
      BY <2>1 DEF CollectorInv, DataInv, Exposed
    <2>3. Entered(c) \in Seq(Runs) /\ KeysOf(observed[c]) \subseteq KeysOf(Entered(c))
      <3>1. CASE holder[c] \in Schedulers
        <4> DEFINE s == holder[c]
        <4>1. publication[s].pc = "observing"
          BY <2>1, <3>1 DEF CollectorInv, LockInv, Observes, At
        <4>2. publication[s].run \in Runs
          BY <3>1, <4>1 DEF DeliveryInv, PublicationInv
        <4>3. Entered(c) = Append(observed[c], publication[s].run)
          BY <3>1 DEF Entered
        <4> HIDE DEF s
        <4> QED
          BY <2>1, <4>2, <4>3, KeysAppend
      <3>2. CASE holder[c] \notin Schedulers
        BY <2>1, <3>2 DEF Entered
      <3> QED
        BY <3>1, <3>2
    <2>4. KeysOf(Entered(c)) \subseteq Keys
      <3>1. \A run \in Runs : run.key \in Keys
        BY ObservabilityAssumption DEF WorkGroupRun
      <3>2. \A i \in DOMAIN Entered(c) : Entered(c)[i] \in Runs
        BY <2>3
      <3> QED
        BY <3>1, <3>2 DEF KeysOf
    <2> QED
      BY <2>1, <2>2, <2>3, <2>4
  <1>5. runtimeTracing \in BOOLEAN /\ traced \subseteq Callers
    BY DEF TraceInv
  <1> QED
    BY <1>1, <1>2, <1>3, <1>4, <1>5 DEF TypeOK

(* The variables keep their types; the collectors among the observers are  *)
(* those of Prometheus, and no summary is counted under a key its duration *)
(* is not.                                                                 *)
THEOREM TypeCorrect == Spec => []TypeOK
  BY AlwaysDelivery, AlwaysCollector, TraceInit, TraceNext, TypesHold, PTL DEF Spec
=============================================================================
