-------------------------- MODULE EvaluationProofs --------------------------
(****************************************************************************)
(* The properties of Evaluation, for any golden set and number of commands. *)
(*                                                                          *)
(* The arithmetic comes first: what a sum of scores is bounded by, what an  *)
(* average, a rounded quality and a percentile are between.  EvaluationInv  *)
(* then says that the files hold what was measured (RunInv), and that the   *)
(* baseline is in the memory of cost_eval.py when it is not on disk (IInv). *)
(****************************************************************************)
EXTENDS Evaluation, FiniteSetTheorems, SequenceTheorems, TLAPS

----------------------------------------------------------------------------
(* Sums *)

\* The operator of Functions.tla, which the scores are added with, takes the members of a
\* set one by one.
One(s) == CHOOSE x \in s : TRUE

\* g holds the sums of f over every subset of U.
IsSum(g, f, U) ==
    g = [s \in SUBSET U |-> IF s = {} THEN 0 ELSE f[One(s)] + g[s \ {One(s)}]]

TheSum(f, U) == CHOOSE g : IsSum(g, f, U)

\* What SumFunctionOnSet stands for.
LEMMA SumIsTheSum ==
    ASSUME NEW f, NEW S
    PROVE  SumFunctionOnSet(f, S) = TheSum(f, S)[S]
  BY Zenon DEF SumFunctionOnSet, FoldFunctionOnSet, MapThenFoldSet, TheSum, IsSum, One

\* The member that is taken is one.
LEMMA OneIsMember == ASSUME NEW S, S # {} PROVE One(S) \in S
  BY DEF One

\* Of some subsets of a finite set one has no other below it: induction over finite sets,
\* in the form the lemmas below use it.
LEMMA SmallestMember ==
    ASSUME NEW S, IsFiniteSet(S), NEW F, F \subseteq SUBSET S, F # {}
    PROVE  \E T \in F : \A U \in F : ~(U \subseteq T /\ U # T)
  <1>1. F \subseteq FiniteSubsetsOf(S)
    BY FS_FiniteSubsetsOfFinite
  <1>2. PICK T \in F : \A U \in F : <<U, T>> \notin StrictSubsetOrdering(S)
    BY <1>1, FS_StrictSubsetOrderingWellFounded, WFMin
  <1> QED
    BY <1>2 DEF StrictSubsetOrdering

\* One step of the recursion.
LEMMA SumUnfolds ==
    ASSUME NEW f, NEW U, NEW g, IsSum(g, f, U), NEW s \in SUBSET U
    PROVE  g[s] = IF s = {} THEN 0 ELSE f[One(s)] + g[s \ {One(s)}]
  BY DEF IsSum

\* Two such functions agree on what both of them sum.
LEMMA SumUnique ==
    ASSUME NEW f, NEW U, NEW V, IsFiniteSet(U),
           NEW g, NEW h, IsSum(g, f, U), IsSum(h, f, V),
           NEW s, s \subseteq U, s \subseteq V
    PROVE  g[s] = h[s]
  <1> DEFINE Differ == {r \in SUBSET U : r \subseteq V /\ g[r] # h[r]}
  <1>1. SUFFICES ASSUME Differ # {} PROVE FALSE
    OBVIOUS
  <1>2. PICK T \in Differ : \A r \in Differ : ~(r \subseteq T /\ r # T)
    <2>1. Differ \subseteq SUBSET U
      OBVIOUS
    <2> HIDE DEF Differ
    <2> QED
      BY <1>1, <2>1, SmallestMember
  <1>3. T # {}
    <2>1. g[{}] = 0 /\ h[{}] = 0
      <3>1. {} \in SUBSET U /\ {} \in SUBSET V
        OBVIOUS
      <3> QED
        BY <3>1, SumUnfolds
    <2> QED
      BY <1>2, <2>1
  <1>4. g[T \ {One(T)}] = h[T \ {One(T)}]
    BY <1>2, <1>3, OneIsMember
  <1> QED
    BY <1>2, <1>3, <1>4, SumUnfolds

\* There is such a function for every finite set: SumFunctionOnSet returns a sum.
LEMMA SumExists ==
    ASSUME NEW f, NEW S, IsFiniteSet(S)
    PROVE  IsSum(TheSum(f, S), f, S)
  <1> DEFINE Bad == {T \in SUBSET S : ~IsSum(TheSum(f, T), f, T)}
  <1>1. SUFFICES ASSUME Bad # {} PROVE FALSE
    OBVIOUS
  <1>2. PICK T \in Bad : \A r \in Bad : ~(r \subseteq T /\ r # T)
    <2>1. Bad \subseteq SUBSET S
      OBVIOUS
    <2> HIDE DEF Bad
    <2> QED
      BY <1>1, <2>1, SmallestMember
  <1>3. \A r \in SUBSET T : r # T => IsSum(TheSum(f, r), f, r)
    BY <1>2
  <1> DEFINE Sum(r) == TheSum(f, r)[r]
             h == [s \in SUBSET T |-> IF s = {} THEN 0 ELSE f[One(s)] + Sum(s \ {One(s)})]
  <1>4. \A r \in SUBSET T : r # T => h[r] = Sum(r)
    <2> SUFFICES ASSUME NEW r \in SUBSET T, r # T PROVE h[r] = Sum(r)
      OBVIOUS
    <2>1. Sum(r) = IF r = {} THEN 0 ELSE f[One(r)] + TheSum(f, r)[r \ {One(r)}]
      BY <1>3, SumUnfolds
    <2>2. CASE r = {}
      BY <2>1, <2>2
    <2>3. CASE r # {}
      <3> DEFINE q == r \ {One(r)}
      <3>1. q \in SUBSET T /\ q # T /\ q \subseteq r
        BY <2>3, OneIsMember
      <3>2. IsFiniteSet(r)
        BY FS_Subset
      <3>3. TheSum(f, r)[q] = TheSum(f, q)[q]
        <4>1. IsSum(TheSum(f, r), f, r) /\ IsSum(TheSum(f, q), f, q)
          BY <1>3, <3>1
        <4> HIDE DEF q
        <4> QED
          BY <3>1, <3>2, <4>1, SumUnique
      <3> QED
        BY <2>1, <2>3, <3>3
    <2> QED
      BY <2>2, <2>3
  <1>5. \A s \in SUBSET T : s # {} => s \ {One(s)} # T /\ s \ {One(s)} \in SUBSET T
    BY OneIsMember
  <1>6. IsSum(h, f, T)
    <2>1. \A s \in SUBSET T : s # {} => Sum(s \ {One(s)}) = h[s \ {One(s)}]
      <3> HIDE DEF h, Sum
      <3> QED
        BY <1>4, <1>5
    <2> DEFINE k == [s \in SUBSET T |-> IF s = {} THEN 0 ELSE f[One(s)] + h[s \ {One(s)}]]
    <2>2. \A s \in SUBSET T : h[s] = k[s]
      BY <2>1
    <2>3. h = k
      BY <2>2
    <2> HIDE DEF h
    <2> QED
      BY <2>3 DEF IsSum
  <1>7. IsSum(TheSum(f, T), f, T)
    <2> HIDE DEF h
    <2> QED
      BY <1>6 DEF TheSum
  <1> QED
    BY <1>2, <1>7

\* The sum of the scores is one score and the sum of the others.
LEMMA SumStep ==
    ASSUME NEW f, NEW S, IsFiniteSet(S)
    PROVE  SumFunctionOnSet(f, S) =
               IF S = {} THEN 0 ELSE f[One(S)] + SumFunctionOnSet(f, S \ {One(S)})
  <1>1. TheSum(f, S)[S] = IF S = {} THEN 0 ELSE f[One(S)] + TheSum(f, S)[S \ {One(S)}]
    BY SumExists, SumUnfolds
  <1>2. IsFiniteSet(S \ {One(S)})
    BY FS_RemoveElement
  <1>3. TheSum(f, S)[S \ {One(S)}] = TheSum(f, S \ {One(S)})[S \ {One(S)}]
    <2> DEFINE R == S \ {One(S)}
    <2>1. R \subseteq S /\ R \subseteq R
      OBVIOUS
    <2>2. IsSum(TheSum(f, S), f, S) /\ IsSum(TheSum(f, R), f, R)
      BY <1>2, SumExists
    <2> HIDE DEF R
    <2>3. TheSum(f, S)[R] = TheSum(f, R)[R]
      BY <2>1, <2>2, SumUnique
    <2> QED
      BY <2>3 DEF R
  <1> QED
    BY <1>1, <1>3, SumIsTheSum

\* Scores of at most hi, of which only those of Z are not 0.
AtMost(f, S, Z, hi) == (\A x \in S : f[x] <= hi) /\ (\A x \in S \ Z : f[x] = 0)

NoneBelow0(f, S) == \A x \in S : f[x] >= 0

\* Such scores add up to at most hi for each that is not 0.
LEMMA SumBound ==
    ASSUME NEW f, NEW S, IsFiniteSet(S), NEW Z, NEW hi \in Nat,
           \A x \in S : f[x] \in Int
    PROVE  /\ SumFunctionOnSet(f, S) \in Int
           /\ AtMost(f, S, Z, hi) => SumFunctionOnSet(f, S) <= hi * Cardinality(S \cap Z)
           /\ NoneBelow0(f, S) => SumFunctionOnSet(f, S) >= 0
  <1> DEFINE Sum(r) == SumFunctionOnSet(f, r)
             Below(r) == AtMost(f, S, Z, hi) => Sum(r) <= hi * Cardinality(r \cap Z)
             Above(r) == NoneBelow0(f, S) => Sum(r) >= 0
             Holds(r) == Sum(r) \in Int /\ Below(r) /\ Above(r)
             Bad == {r \in SUBSET S : ~Holds(r)}
  <1>1. SUFFICES ASSUME Bad # {} PROVE FALSE
    OBVIOUS
  <1>2. PICK T \in Bad : \A r \in Bad : ~(r \subseteq T /\ r # T)
    <2>1. Bad \subseteq SUBSET S
      OBVIOUS
    <2> HIDE DEF Bad
    <2> QED
      BY <1>1, <2>1, SmallestMember
  <1>3. T \subseteq S /\ ~Holds(T) /\ IsFiniteSet(T)
    BY <1>2, FS_Subset
  <1>4. Sum(T) = IF T = {} THEN 0 ELSE f[One(T)] + Sum(T \ {One(T)})
    BY <1>3, SumStep
  <1>5. T # {}
    <2> SUFFICES ASSUME T = {} PROVE FALSE
      OBVIOUS
    <2>1. T \cap Z = {} /\ Cardinality({}) = 0
      BY FS_EmptySet
    <2>2. Sum(T) = 0
      BY <1>4
    <2>3. hi * 0 = 0
      OBVIOUS
    <2> HIDE DEF Sum
    <2> QED
      BY <1>3, <2>1, <2>2, <2>3
  <1> DEFINE x == One(T)
             r == T \ {x}
  <1>6. /\ x \in T /\ f[x] \in Int
        /\ AtMost(f, S, Z, hi) => f[x] <= hi /\ (x \notin Z => f[x] = 0)
        /\ NoneBelow0(f, S) => f[x] >= 0
    BY <1>3, <1>5, OneIsMember DEF AtMost, NoneBelow0
  <1>7. r \subseteq T /\ r # T
    BY <1>6
  <1>8. Sum(r) \in Int /\ Below(r) /\ Above(r)
    BY <1>2, <1>3, <1>7
  <1>9. IsFiniteSet(r \cap Z) /\ Cardinality(r \cap Z) \in Nat
    BY <1>3, <1>7, FS_Subset, FS_Intersection, FS_CardinalityType
  <1>10. Sum(T) = f[x] + Sum(r)
    BY <1>4, <1>5
  <1>11. Sum(T) \in Int /\ Above(T)
    <2>1. NoneBelow0(f, S) => Sum(r) >= 0
      BY <1>8
    <2> HIDE DEF Sum, r, x
    <2> QED
      BY <1>6, <1>8, <1>10, <2>1
  <1>12. Below(T)
    <2> SUFFICES ASSUME AtMost(f, S, Z, hi) PROVE Sum(T) <= hi * Cardinality(T \cap Z)
      OBVIOUS
    <2>0. f[x] <= hi /\ (x \notin Z => f[x] = 0) /\ Sum(r) <= hi * Cardinality(r \cap Z)
      BY <1>6, <1>8
    <2>1. CASE x \in Z
      <3>1. T \cap Z = (r \cap Z) \cup {x} /\ x \notin r \cap Z
        BY <1>6, <2>1
      <3>2. Cardinality(T \cap Z) = Cardinality(r \cap Z) + 1
        <4> HIDE DEF r, x
        <4> QED
          BY <1>9, <3>1, FS_AddElement
      <3>3. ASSUME NEW n \in Nat PROVE hi * (n + 1) = hi * n + hi /\ hi * n \in Nat
        OBVIOUS
      <3>4. hi * Cardinality(T \cap Z) = hi * Cardinality(r \cap Z) + hi
            /\ hi * Cardinality(r \cap Z) \in Nat
        BY <1>9, <3>2, <3>3
      <3> HIDE DEF Sum, r, x
      <3> QED
        BY <1>6, <1>8, <1>10, <2>0, <3>4
    <2>2. CASE x \notin Z
      <3>1. T \cap Z = r \cap Z
        BY <2>2
      <3>2. Sum(T) = Sum(r)
        <4> HIDE DEF Sum, r, x
        <4> QED
          BY <1>8, <1>10, <2>0, <2>2
      <3> QED
        BY <2>0, <3>1, <3>2
    <2> QED
      BY <2>1, <2>2
  <1> QED
    BY <1>3, <1>11, <1>12

----------------------------------------------------------------------------
(* Scores *)

Judged == {"faithfulness", "relevance"}
Criteria == {"tool_accuracy"} \cup Judged

\* A sum of at most h for each of n members has an average of at most h.
LEMMA AverageIsBelow ==
    ASSUME NEW sum \in Int, NEW n \in Nat, n > 0, NEW h \in Nat
    PROVE  /\ sum \div n \in Int
           /\ sum <= h * n => sum \div n <= h
           /\ sum >= 0 => sum \div n >= 0
  <1>1. sum = n * (sum \div n) + (sum % n) /\ sum % n \in 0..(n - 1) /\ sum \div n \in Int
    OBVIOUS
  <1> DEFINE q == sum \div n
  <1>2. ASSUME sum <= h * n, q >= h + 1 PROVE FALSE
    <2>1. n * q >= n * (h + 1)
      BY <1>1, <1>2
    <2>2. n * (h + 1) = h * n + n
      OBVIOUS
    <2> HIDE DEF q
    <2> QED
      BY <1>1, <1>2, <2>1, <2>2 DEF q
  <1>3. sum >= 0 => q >= 0
    OBVIOUS
  <1> QED
    BY <1>1, <1>2, <1>3

\* The criteria of a case are few.
LEMMA CriteriaAreFinite ==
    ASSUME NEW D, D \subseteq Criteria
    PROVE  /\ IsFiniteSet(D)
           /\ Cardinality(D) \in Nat
           /\ Cardinality(D \ {"tool_accuracy"}) \in 0..2
           /\ "tool_accuracy" \in D =>
                  Cardinality(D) = Cardinality(D \ {"tool_accuracy"}) + 1
           /\ D # {} => Cardinality(D) > 0
  <1>1. IsFiniteSet({"faithfulness"}) /\ Cardinality({"faithfulness"}) = 1
    BY FS_Singleton
  <1>2. IsFiniteSet({"faithfulness"} \cup {"relevance"})
        /\ Cardinality({"faithfulness"} \cup {"relevance"}) = 2
    BY <1>1, FS_AddElement
  <1>3. Judged = {"faithfulness"} \cup {"relevance"}
    BY DEF Judged
  <1>4. IsFiniteSet(Judged) /\ Cardinality(Judged) = 2
    BY <1>2, <1>3
  <1>5. IsFiniteSet(Judged \cup {"tool_accuracy"})
    BY <1>4, FS_AddElement
  <1>6. IsFiniteSet(D)
    <2>1. D \in SUBSET (Judged \cup {"tool_accuracy"})
      BY DEF Criteria
    <2> QED
      BY <1>5, <2>1, FS_Subset
  <1>7. Cardinality(D \ {"tool_accuracy"}) \in 0..2
    <2>1. D \ {"tool_accuracy"} \in SUBSET Judged
      BY DEF Criteria
    <2>2. IsFiniteSet(D \ {"tool_accuracy"}) /\ Cardinality(D \ {"tool_accuracy"}) <= 2
      BY <1>4, <2>1, FS_Subset
    <2> QED
      BY <2>2, FS_CardinalityType
  <1>8. Cardinality(D) \in Nat
    BY <1>6, FS_CardinalityType
  <1>9. "tool_accuracy" \in D => Cardinality(D) = Cardinality(D \ {"tool_accuracy"}) + 1
    BY <1>6, <1>7, <1>8, FS_RemoveElement
  <1>10. D # {} => Cardinality(D) > 0
    BY <1>6, <1>8, FS_EmptySet
  <1> QED
    BY <1>6, <1>7, <1>8, <1>9, <1>10

\* The average of a case's scores is one of them in size, and low when the tool was not
\* called.
LEMMA AverageIsAScore ==
    ASSUME NEW D, D \subseteq Criteria, NEW f \in [D -> Int]
    PROVE  /\ Average(f) \in Int
           /\ (\A c \in D : f[c] \in 0..Whole) =>
                  /\ Average(f) \in 0..Whole
                  /\ "tool_accuracy" \in D /\ f["tool_accuracy"] = 0 => Average(f) <= 40
  <1> DEFINE sum == SumFunctionOnSet(f, D)
             n == Cardinality(D)
             Kept == \A c \in D : f[c] \in 0..Whole
  <1>1. Whole \in Nat /\ Whole = 60
    BY DEF Whole
  <1>2. IsFiniteSet(D) /\ n \in Nat /\ DOMAIN f = D
    BY CriteriaAreFinite
  <1>3. CASE D = {}
    <2>1. f = << >>
      BY <1>3
    <2> QED
      BY <1>1, <1>3, <2>1 DEF Average
  <1>4. CASE D # {}
    <2>1. n > 0
      BY <1>4, CriteriaAreFinite
    <2>2. f # << >>
      BY <1>2, <1>4
    <2>3. Average(f) = sum \div n
      BY <1>2, <2>2 DEF Average, SumFunction
    <2>4. sum \in Int
      BY <1>1, <1>2, SumBound
    <2>a. Average(f) \in Int
      BY <1>1, <1>2, <2>1, <2>3, <2>4, AverageIsBelow
    <2>b. ASSUME Kept PROVE NoneBelow0(f, D) /\ \A c \in D : f[c] <= Whole
      BY <1>1, <2>b DEF NoneBelow0
    <2>5. ASSUME Kept PROVE Average(f) \in 0..Whole
      <3>1. D \cap D = D /\ AtMost(f, D, D, Whole)
        BY <2>5, <2>b DEF AtMost
      <3>2. sum >= 0 /\ sum <= Whole * n
        BY <1>1, <1>2, <2>5, <2>b, <3>1, SumBound
      <3> HIDE DEF sum, n
      <3>3. sum \div n >= 0 /\ sum \div n <= Whole
        BY <1>1, <1>2, <2>1, <2>4, <3>2, AverageIsBelow
      <3> QED
        BY <1>1, <2>3, <2>a, <3>3
    <2>6. ASSUME Kept, "tool_accuracy" \in D, f["tool_accuracy"] = 0
          PROVE  Average(f) <= 40
      <3> DEFINE Z == D \ {"tool_accuracy"}
      <3>1. D \cap Z = Z /\ D \ Z = {"tool_accuracy"}
        BY <2>6
      <3>2. AtMost(f, D, Z, Whole)
        BY <2>6, <2>b, <3>1 DEF AtMost
      <3>3. sum <= Whole * Cardinality(Z)
        BY <1>1, <1>2, <3>1, <3>2, SumBound
      <3>4. n = Cardinality(Z) + 1 /\ Cardinality(Z) \in 0..2
        BY <2>6, CriteriaAreFinite
      <3>5. sum <= 40 * n
        BY <1>1, <1>2, <2>4, <3>3, <3>4
      <3> QED
        BY <1>2, <2>1, <2>3, <2>4, <3>5, AverageIsBelow
    <2> QED
      BY <2>a, <2>5, <2>6
  <1> QED
    BY <1>3, <1>4

CaseType == [category : DOMAIN Thresholds, criteria : SUBSET STRING,
             expected : SUBSET Tools, reference : BOOLEAN]

\* Whatever tools the agent called and whatever the judge said, a case has a score.  If the
\* judge stayed in its range so does the score, and it is low if the case expects a tool
\* and none was called.
LEMMA CaseHasAScore ==
    ASSUME NEW case \in CaseType, NEW tools, NEW marks, marks \subseteq Int,
           NEW result \in CaseScores(case, tools, marks)
    PROVE  /\ result.score \in Int /\ result.inRange \in BOOLEAN
           /\ result.inRange => result.score \in 0..Whole
           /\ /\ result.inRange
              /\ tools = {} /\ "tool_accuracy" \in case.criteria /\ case.expected # {}
              => result.score <= 40
  <1> DEFINE T == case.criteria \cap {"tool_accuracy"}
             accuracy == IF ToolAccuracy(case.expected, tools) THEN Whole ELSE 0
             Low == tools = {} /\ "tool_accuracy" \in case.criteria /\ case.expected # {}
             Scores(llm) == [c \in T \cup DOMAIN llm |->
                                 IF c = "tool_accuracy" THEN accuracy ELSE llm[c]]
  <1>1. 0 \in 0..Whole /\ Whole \in 0..Whole
    BY DEF Whole
  <1>2. accuracy \in 0..Whole /\ (Low => accuracy = 0)
    BY <1>1 DEF ToolAccuracy
  <1>3. PICK llm : /\ case.reference => llm \in JudgeScores(case.criteria, marks)
                   /\ ~case.reference => llm = << >>
                   /\ result = [score |-> Average(Scores(llm)),
                                inRange |-> Range(llm) \subseteq 0..Whole]
    BY DEF CaseScores
  <1>4. DOMAIN llm \subseteq Judged /\ \A c \in DOMAIN llm : llm[c] \in Int
    <2>1. CASE case.reference
      <3>1. llm \in [case.criteria \cap Judged -> marks \cup {0}]
        BY <1>3, <2>1 DEF JudgeScores, Judged
      <3>2. marks \cup {0} \subseteq Int
        OBVIOUS
      <3> QED
        BY <3>1, <3>2
    <2>2. CASE ~case.reference
      BY <1>3, <2>2
    <2> QED
      BY <2>1, <2>2
  <1> DEFINE D == T \cup DOMAIN llm
             f == Scores(llm)
  <1>5. D \subseteq Criteria
    BY <1>4 DEF Criteria
  <1>6. f \in [D -> Int]
    <2>1. accuracy \in Int
      BY <1>2
    <2> HIDE DEF accuracy
    <2> QED
      BY <1>4, <2>1
  <1>7. Low => "tool_accuracy" \in D /\ f["tool_accuracy"] = 0
    BY <1>2
  <1>8. result.inRange => \A c \in D : f[c] \in 0..Whole
    BY <1>2, <1>3 DEF Range
  <1>9. result.score = Average(f) /\ result.inRange \in BOOLEAN
    BY <1>3
  <1>10. /\ result.score \in Int
         /\ result.inRange => result.score \in 0..Whole
         /\ result.inRange /\ Low => result.score <= 40
    <2> HIDE DEF D, f, Low
    <2> QED
      BY <1>5, <1>6, <1>7, <1>8, <1>9, AverageIsAScore
  <1> QED
    BY <1>9, <1>10

----------------------------------------------------------------------------
(* Results *)

HaveScores(r) ==
    /\ Len(r) \in Nat /\ DOMAIN r = 1..Len(r)
    /\ \A i \in DOMAIN r : r[i].score \in Int

\* The total of some results of at most hi is at most hi for each of them.
LEMMA TotalIsBounded ==
    ASSUME NEW r, HaveScores(r), NEW cases, cases \subseteq DOMAIN r, NEW hi \in Nat
    PROVE  /\ IsFiniteSet(cases) /\ Cardinality(cases) \in Nat
           /\ SumOf(r, cases) \in Int
           /\ (\A i \in cases : r[i].score <= hi) =>
                  SumOf(r, cases) <= hi * Cardinality(cases)
  <1> DEFINE scores == [i \in DOMAIN r |-> r[i].score]
  <1>1. IsFiniteSet(DOMAIN r)
    BY FS_Interval DEF HaveScores
  <1>2. IsFiniteSet(cases) /\ Cardinality(cases) \in Nat
    <2>1. cases \in SUBSET DOMAIN r
      OBVIOUS
    <2> QED
      BY <1>1, <2>1, FS_Subset, FS_CardinalityType
  <1>3. \A x \in cases : scores[x] \in Int
    BY DEF HaveScores
  <1>4. /\ cases \cap cases = cases
        /\ (\A i \in cases : r[i].score <= hi) => AtMost(scores, cases, cases, hi)
    BY DEF AtMost
  <1>5. /\ SumFunctionOnSet(scores, cases) \in Int
        /\ AtMost(scores, cases, cases, hi) =>
               SumFunctionOnSet(scores, cases) <= hi * Cardinality(cases)
    <2> HIDE DEF scores
    <2> QED
      BY <1>2, <1>3, <1>4, SumBound
  <1> QED
    BY <1>2, <1>4, <1>5 DEF SumOf

\* Rounding gives a number.
LEMMA RoundedIsInt ==
    ASSUME NEW den \in Nat, den > 0, NEW num \in Int, NEW q \in Rounded(num, den)
    PROVE  q \in Int
  <1>1. num \div den \in Int
    BY AverageIsBelow
  <1> QED
    BY <1>1 DEF Rounded

\* The number of cases times a whole score.
LEMMA UnitIsPositive == Whole * Len(Golden) \in Nat /\ Whole * Len(Golden) > 0
  BY EvaluationAssumption DEF Whole

\* What run_eval.py summarises of a complete run is a summary of that many cases.
LEMMA SummariesAreMeasured ==
    ASSUME NEW r, HaveScores(r), Len(r) = Len(Golden)
    PROVE  Summaries(r) \subseteq Measured
  <1> SUFFICES ASSUME NEW q \in Overalls(r)
               PROVE  [quality |-> q, sum |-> SumOf(r, DOMAIN r)] \in Measured
    BY DEF Summaries
  <1> DEFINE sum == SumOf(r, DOMAIN r)
             unit == Whole * Len(Golden)
  <1>1. sum \in Int
    BY TotalIsBounded
  <1>2. q \in Rounded(1000 * sum, unit)
    BY DEF Overalls
  <1>3. q \in Int
    <2>1. unit \in Nat /\ unit > 0
      BY UnitIsPositive
    <2> DEFINE num == 1000 * sum
    <2>2. num \in Int
      <3> HIDE DEF sum
      <3> QED
        BY <1>1
    <2>3. q \in Rounded(num, unit)
      BY <1>2
    <2> HIDE DEF unit, num
    <2> QED
      BY ONLY <2>1, <2>2, <2>3, RoundedIsInt, ZenonT(90)
  <1> HIDE DEF sum, unit
  <1> QED
    BY <1>1, <1>2, <1>3 DEF Measured, sum, unit

LowForTools(r) ==
    \A i \in Of(r, "tool_calling") : r[i].inRange => r[i].score <= 40

\* Two thirds of a score at most in each of its cases fail the category of the tools.
LEMMA LowForToolsFails ==
    ASSUME NEW r, HaveScores(r), LowForTools(r),
           \A i \in Of(r, "tool_calling") : r[i].inRange
    PROVE  ~GateMayPass(r)
  <1> DEFINE cases == Of(r, "tool_calling")
             n == Cardinality(cases)
             sum == SumOf(r, cases)
  <1>1. cases \subseteq DOMAIN r /\ \A i \in cases : r[i].score <= 40
    BY DEF Of, LowForTools
  <1>2. IsFiniteSet(cases) /\ n \in Nat /\ sum \in Int /\ sum <= 40 * n
    <2> HIDE DEF cases
    <2> QED
      BY <1>1, TotalIsBounded
  <1>3. cases # {} => n > 0
    BY <1>2, FS_EmptySet
  <1>4. cases # {} => ~(sum >= 42 * n)
    <2> HIDE DEF sum, n
    <2> QED
      BY <1>2, <1>3
  <1>5. TRUE \notin CategoryPasses(r, "tool_calling")
    <2>1. CategoryPasses(r, "tool_calling") =
              IF cases = {} THEN {FALSE} ELSE AtLeast(sum, 42 * n)
      BY DEF CategoryPasses, Thresholds
    <2>2. cases # {} => TRUE \notin AtLeast(sum, 42 * n)
      BY <1>4 DEF AtLeast
    <2> HIDE DEF sum, n, cases
    <2> QED
      BY <2>1, <2>2
  <1> QED
    BY <1>5 DEF GateMayPass, Thresholds

----------------------------------------------------------------------------
(* Percentiles *)

Below(values, v) == {i \in DOMAIN values : values[i] < v}
UpTo(values, v) == {i \in DOMAIN values : values[i] <= v}

\* Positions of a list are finite in number.
LEMMA PositionsAreFinite ==
    ASSUME NEW n \in Nat, NEW P, P \subseteq 1..n
    PROVE  IsFiniteSet(P) /\ Cardinality(P) \in 0..n
  <1>1. IsFiniteSet(1..n)
    BY FS_Interval
  <1>2. Cardinality(1..n) = n
    <2>1. Cardinality(1..n) = IF 1 > n THEN 0 ELSE n - 1 + 1
      BY FS_Interval
    <2> QED
      BY <2>1
  <1>3. P \in SUBSET (1..n)
    OBVIOUS
  <1>4. IsFiniteSet(P) /\ Cardinality(P) <= n
    BY <1>1, <1>2, <1>3, FS_Subset
  <1>5. Cardinality(P) \in Nat
    BY <1>4, FS_CardinalityType
  <1> QED
    BY <1>4, <1>5

\* A larger set of positions has more of them.
LEMMA MorePositions ==
    ASSUME NEW n \in Nat, NEW P, NEW Q, P \subseteq Q, Q \subseteq 1..n
    PROVE  Cardinality(P) <= Cardinality(Q)
  <1>1. IsFiniteSet(Q)
    BY PositionsAreFinite
  <1>2. P \in SUBSET Q
    OBVIOUS
  <1> QED
    BY <1>1, <1>2, FS_Subset

\* The smallest of some values, and the largest: the fewest others are up to it, or at
\* least it.
LEMMA SmallestValue ==
    ASSUME NEW n \in Nat, NEW values \in [1..n -> Int], NEW P, P \subseteq 1..n, P # {}
    PROVE  \E i \in P : \A j \in P : values[i] <= values[j]
  <1> DEFINE Under(i) == {j \in P : values[j] < values[i]}
             Unders == {Under(i) : i \in P}
  <1>1. IsFiniteSet(P)
    BY PositionsAreFinite
  <1>a. Unders \subseteq SUBSET P
    OBVIOUS
  <1>b. Unders # {}
    OBVIOUS
  <1>2. PICK U \in Unders : \A V \in Unders : ~(V \subseteq U /\ V # U)
    <2> HIDE DEF Unders
    <2> QED
      BY ONLY <1>1, <1>a, <1>b, SmallestMember
  <1>3. PICK i \in P : U = Under(i)
    BY <1>2
  <1>4. ASSUME NEW j \in P, values[j] < values[i] PROVE FALSE
    <2>1. values[i] \in Int /\ values[j] \in Int /\ \A k \in P : values[k] \in Int
      OBVIOUS
    <2>2. Under(j) \subseteq U
      <3>1. \A k \in P : values[k] < values[j] => values[k] < values[i]
        BY <1>4, <2>1
      <3> QED
        BY <1>3, <3>1
    <2>3. j \in U /\ j \notin Under(j)
      BY <1>3, <1>4, <2>1
    <2>4. Under(j) \in Unders
      OBVIOUS
    <2> HIDE DEF Unders, Under
    <2> QED
      BY <1>2, <2>2, <2>3, <2>4
  <1> QED
    BY <1>3, <1>4, SMTT(30)

LEMMA LargestValue ==
    ASSUME NEW n \in Nat, NEW values \in [1..n -> Int], NEW P, P \subseteq 1..n, P # {}
    PROVE  \E i \in P : \A j \in P : values[j] <= values[i]
  <1> DEFINE minus == [i \in 1..n |-> -values[i]]
  <1>1. minus \in [1..n -> Int]
    OBVIOUS
  <1>2. PICK i \in P : \A j \in P : minus[i] <= minus[j]
    <2> HIDE DEF minus
    <2> QED
      BY <1>1, SmallestValue
  <1>3. \A j \in P : values[i] \in Int /\ values[j] \in Int /\ -values[i] <= -values[j]
    BY <1>2
  <1> QED
    BY <1>3

\* There is a k-th value: fewer than k are below it and at least k up to it.
LEMMA RankedIsRanked ==
    ASSUME NEW n \in Nat, NEW values \in [1..n -> Int], NEW k \in 1..n
    PROVE  /\ \E i \in 1..n : Ranked(values, k) = values[i]
           /\ Cardinality(Below(values, Ranked(values, k))) < k
           /\ k <= Cardinality(UpTo(values, Ranked(values, k)))
  <1> DEFINE P == {i \in 1..n : k <= Cardinality(UpTo(values, values[i]))}
  <1>0. DOMAIN values = 1..n /\ \A i \in 1..n : values[i] \in Int
    OBVIOUS
  <1>1. P # {}
    <2>1. 1..n # {}
      OBVIOUS
    <2>2. PICK m \in 1..n : \A j \in 1..n : values[j] <= values[m]
      BY <2>1, LargestValue
    <2>3. UpTo(values, values[m]) = 1..n
      BY <1>0, <2>2 DEF UpTo
    <2>4. Cardinality(1..n) = n
      <3>1. Cardinality(1..n) = IF 1 > n THEN 0 ELSE n - 1 + 1
        BY FS_Interval
      <3> QED
        BY <3>1
    <2>5. m \in P
      BY <2>3, <2>4
    <2> QED
      BY <2>5
  <1>2. PICK i \in P : \A j \in P : values[i] <= values[j]
    <2>1. P \subseteq 1..n
      OBVIOUS
    <2> HIDE DEF P
    <2> QED
      BY <1>1, <2>1, SmallestValue
  <1> DEFINE v == values[i]
             B == Below(values, v)
  <1>3. v \in Int /\ k <= Cardinality(UpTo(values, v))
    BY <1>2
  <1>4. B \subseteq 1..n
    BY <1>0 DEF Below
  <1>5. Cardinality(B) < k
    <2>1. CASE B = {}
      BY <2>1, FS_EmptySet
    <2>2. CASE B # {}
      <3>1. PICK m \in B : \A j \in B : values[j] <= values[m]
        <4> HIDE DEF B
        <4> QED
          BY <1>4, <2>2, LargestValue
      <3>2. m \in 1..n /\ values[m] < v
        BY <1>4, <3>1 DEF Below
      <3>3. B \subseteq UpTo(values, values[m])
        BY <1>0, <3>1 DEF Below, UpTo
      <3>4. UpTo(values, values[m]) \subseteq 1..n
        BY <1>0 DEF UpTo
      <3>5. m \notin P
        <4>1. ~(v <= values[m])
          BY <1>0, <1>3, <3>2
        <4> QED
          BY <1>2, <4>1
      <3>6. ~(k <= Cardinality(UpTo(values, values[m])))
        BY <3>2, <3>5
      <3> HIDE DEF B
      <3>7. Cardinality(B) <= Cardinality(UpTo(values, values[m]))
        BY <3>3, <3>4, MorePositions
      <3>8. Cardinality(B) \in Int
        <4>1. Cardinality(B) \in 0..n
          BY ONLY <1>4, PositionsAreFinite, n \in Nat
        <4> QED
          BY ONLY <4>1, n \in Nat
      <3>9. Cardinality(UpTo(values, values[m])) \in Int
        BY <3>4, PositionsAreFinite
      <3> DEFINE b == Cardinality(B)
                 u == Cardinality(UpTo(values, values[m]))
      <3>10. b \in Int /\ u \in Int /\ b <= u /\ ~(k <= u) /\ k \in Int
        BY <3>6, <3>7, <3>8, <3>9
      <3> HIDE DEF b, u
      <3>11. b < k
        BY ONLY <3>10
      <3> QED
        BY <3>11 DEF b
    <2> QED
      BY <2>1, <2>2
  <1> DEFINE IsRanked(w) == /\ Cardinality(Below(values, w)) < k
                            /\ k <= Cardinality(UpTo(values, w))
  <1>6. Ranked(values, k) = CHOOSE w \in Range(values) : IsRanked(w)
    BY DEF Ranked, Below, UpTo
  <1>7. v \in Range(values) /\ IsRanked(v)
    BY <1>0, <1>2, <1>3, <1>5 DEF Range
  <1> DEFINE r == CHOOSE w \in Range(values) : IsRanked(w)
  <1>8. r \in Range(values) /\ IsRanked(r)
    <2> HIDE DEF IsRanked, v
    <2> QED
      BY <1>7
  <1>9. \E j \in 1..n : r = values[j]
    <2> HIDE DEF r
    <2> QED
      BY <1>0, <1>8 DEF Range
  <1> HIDE DEF r
  <1> QED
    BY <1>6, <1>8, <1>9 DEF r

\* A later rank has no smaller value.
LEMMA RankedIsAscending ==
    ASSUME NEW n \in Nat, NEW values \in [1..n -> Int], NEW k \in 1..n, NEW l \in 1..n,
           k <= l
    PROVE  /\ Ranked(values, k) \in Int /\ Ranked(values, l) \in Int
           /\ Ranked(values, k) <= Ranked(values, l)
  <1> DEFINE x == Ranked(values, k)
             y == Ranked(values, l)
  <1>0. DOMAIN values = 1..n /\ \A i \in 1..n : values[i] \in Int
    OBVIOUS
  <1>1. x \in Int /\ Cardinality(Below(values, x)) < k
    BY <1>0, RankedIsRanked, ZenonT(60)
  <1>2. y \in Int /\ l <= Cardinality(UpTo(values, y))
    BY <1>0, RankedIsRanked, ZenonT(60)
  <1> HIDE DEF x, y
  <1>3. ASSUME y < x PROVE FALSE
    <2>1. UpTo(values, y) \subseteq Below(values, x)
      BY <1>0, <1>1, <1>2, <1>3 DEF UpTo, Below
    <2>2. Below(values, x) \subseteq 1..n /\ UpTo(values, y) \subseteq 1..n
      BY <1>0 DEF UpTo, Below
    <2>3. Cardinality(UpTo(values, y)) <= Cardinality(Below(values, x))
      BY <2>1, <2>2, MorePositions
    <2>4. Cardinality(UpTo(values, y)) \in Int /\ Cardinality(Below(values, x)) \in Int
      BY <2>2, PositionsAreFinite
    <2> QED
      BY <1>1, <1>2, <2>3, <2>4
  <1>4. x <= y
    BY <1>1, <1>2, <1>3
  <1> QED
    BY <1>1, <1>2, <1>4 DEF x, y

Lower(n, percent) == 1 + (((n - 1) * percent) \div 100)
Upper(n, percent) == IF Lower(n, percent) < n THEN Lower(n, percent) + 1 ELSE Lower(n, percent)
Part(n, percent) == ((n - 1) * percent) % 100

\* The ranks between which a percentile lies, and how far.
LEMMA RanksOfPercentile ==
    ASSUME NEW n \in Nat, n > 0, NEW percent \in {50, 95}
    PROVE  /\ Lower(n, percent) \in 1..n /\ Upper(n, percent) \in 1..n
           /\ Lower(n, percent) <= Upper(n, percent)
           /\ Part(n, percent) \in 0..99
           /\ (n - 1) * percent = 100 * (Lower(n, percent) - 1) + Part(n, percent)
  <1> DEFINE k == (n - 1) * percent
             q == k \div 100
             r == k % 100
  <1>1. k \in Nat /\ k <= 100 * (n - 1)
    OBVIOUS
  <1>2. q \in Int /\ r \in 0..99 /\ k = 100 * q + r
    <2> HIDE DEF k
    <2> QED
      BY <1>1
  <1>3. Lower(n, percent) = 1 + q /\ Part(n, percent) = r
    BY DEF Lower, Part
  <1> HIDE DEF k, q, r
  <1>4. q >= 0 /\ q <= n - 1
    BY <1>1, <1>2
  <1>5. Lower(n, percent) \in 1..n
    BY <1>2, <1>3, <1>4
  <1>6. Upper(n, percent) \in 1..n /\ Lower(n, percent) <= Upper(n, percent)
    BY <1>5 DEF Upper
  <1> QED
    BY <1>2, <1>3, <1>5, <1>6 DEF k

\* The part of a difference.
LEMMA PartOfDifference ==
    ASSUME NEW d \in Nat, NEW r \in 0..99, NEW s \in 0..99, r <= s
    PROVE  /\ d * r \in Nat /\ d * r <= 100 * d
           /\ d * r <= d * s
           /\ r = 0 => d * r = 0
  OBVIOUS

\* A percentile lies between the values of its ranks.
LEMMA PercentileIsBetween ==
    ASSUME NEW n \in Nat, n > 0, NEW values \in [1..n -> Int], NEW percent \in {50, 95}
    PROVE  LET low == Ranked(values, Lower(n, percent))
               high == Ranked(values, Upper(n, percent))
               p == Percentile(values, percent)
           IN  /\ low \in Int /\ high \in Int /\ p \in Int /\ low <= high
               /\ p = 100 * low + (high - low) * Part(n, percent)
               /\ 100 * low <= p /\ p <= 100 * high
               /\ Part(n, percent) = 0 => p = 100 * low
  <1> DEFINE low == Ranked(values, Lower(n, percent))
             high == Ranked(values, Upper(n, percent))
             p == Percentile(values, percent)
             r == Part(n, percent)
  <1>1. Len(values) = n
    OBVIOUS
  <1>2. values # << >>
    BY <1>1
  <1>3. p = 100 * low + (high - low) * r
    BY <1>1, <1>2 DEF Percentile, Lower, Upper, Part
  <1>4. low \in Int /\ high \in Int /\ low <= high
    BY RanksOfPercentile, RankedIsAscending, ZenonT(60)
  <1>5. r \in 0..99
    BY RanksOfPercentile, ZenonT(90)
  <1> HIDE DEF low, high, p, r
  <1> DEFINE d == high - low
  <1>6. d \in Nat
    BY <1>4
  <1>7. d * r \in Nat /\ d * r <= 100 * d /\ (r = 0 => d * r = 0)
    <2> HIDE DEF d
    <2> QED
      BY <1>5, <1>6, PartOfDifference
  <1>8. p = 100 * low + d * r
    BY <1>3
  <1>9. p \in Int /\ 100 * low <= p /\ (r = 0 => p = 100 * low)
    <2> HIDE DEF d
    <2> QED
      BY <1>4, <1>6, <1>7, <1>8
  <1>10. p <= 100 * high
    <2>1. 100 * high = 100 * low + 100 * d
      BY <1>4
    <2> HIDE DEF d
    <2> QED
      BY <1>4, <1>6, <1>7, <1>8, <2>1
  <1> QED
    BY <1>3, <1>4, <1>9, <1>10 DEF low, high, p, r

\* The median of an odd number of values is one of them, that of an even number lies
\* between two.
LEMMA MiddleRank ==
    ASSUME NEW n \in Nat, n > 0
    PROVE  \/ Part(n, 50) = 0 /\ n = 2 * Lower(n, 50) - 1
           \/ n = 2 * Lower(n, 50) /\ Upper(n, 50) = Lower(n, 50) + 1
  <1> DEFINE f == Lower(n, 50)
             r == Part(n, 50)
  <1>1. f \in 1..n /\ r \in 0..99 /\ (n - 1) * 50 = 100 * (f - 1) + r
    BY RanksOfPercentile
  <1>2. Upper(n, 50) = IF f < n THEN f + 1 ELSE f
    BY DEF Upper
  <1> HIDE DEF f, r
  <1>3. (r = 0 /\ n = 2 * f - 1) \/ n = 2 * f
    BY <1>1
  <1> QED
    BY <1>1, <1>2, <1>3 DEF f, r

\* At least n - k + 1 values are no less than the k-th.
LEMMA AtLeastRanked ==
    ASSUME NEW n \in Nat, NEW values \in [1..n -> Int], NEW k \in 1..n
    PROVE  Cardinality({i \in 1..n : values[i] >= Ranked(values, k)}) >= n - k + 1
  <1> DEFINE v == Ranked(values, k)
             B == Below(values, v)
  <1>0. DOMAIN values = 1..n /\ \A i \in 1..n : values[i] \in Int
    OBVIOUS
  <1>1. v \in Int /\ Cardinality(B) < k
    BY <1>0, RankedIsRanked
  <1>2. B \subseteq 1..n
    BY <1>0 DEF Below
  <1>3. {i \in 1..n : values[i] >= v} = (1..n) \ B
    <2> HIDE DEF v
    <2> QED
      BY <1>0, <1>1 DEF Below
  <1> HIDE DEF v, B
  <1>4. IsFiniteSet(1..n) /\ Cardinality(1..n) = n
    <2>1. IsFiniteSet(1..n) /\ Cardinality(1..n) = IF 1 > n THEN 0 ELSE n - 1 + 1
      BY FS_Interval
    <2> QED
      BY <2>1
  <1>5. (1..n) \cap B = B
    BY <1>2
  <1>6. Cardinality((1..n) \ B) = Cardinality(1..n) - Cardinality((1..n) \cap B)
    BY <1>4, FS_Difference
  <1>7. Cardinality((1..n) \ B) = n - Cardinality(B)
    BY <1>4, <1>5, <1>6
  <1>8. Cardinality(B) \in 0..n
    BY <1>2, PositionsAreFinite
  <1>9. n - Cardinality(B) >= n - k + 1
    BY <1>1, <1>8
  <1> QED
    BY <1>3, <1>7, <1>9 DEF v

\* The percentiles of a list with a value: at least half of it on each side of p50, p95 no
\* less, and no value beyond the list.
LEMMA PercentilesOfAList ==
    ASSUME NEW n \in Nat, n > 0, NEW values \in [1..n -> Int]
    PROVE  /\ 2 * Cardinality({i \in 1..n : 100 * values[i] <= Percentile(values, 50)}) >= n
           /\ 2 * Cardinality({i \in 1..n : 100 * values[i] >= Percentile(values, 50)}) >= n
           /\ Percentile(values, 50) <= Percentile(values, 95)
           /\ \E i \in 1..n : Percentile(values, 95) <= 100 * values[i]
  <1> DEFINE f == Lower(n, 50)
             u == Upper(n, 50)
             low == Ranked(values, f)
             high == Ranked(values, u)
             p == Percentile(values, 50)
             g == Lower(n, 95)
             w == Upper(n, 95)
             low95 == Ranked(values, g)
             high95 == Ranked(values, w)
             p95 == Percentile(values, 95)
  <1>0. DOMAIN values = 1..n /\ \A i \in 1..n : values[i] \in Int
    OBVIOUS
  <1>1. /\ low \in Int /\ high \in Int /\ p \in Int /\ low <= high
        /\ p = 100 * low + (high - low) * Part(n, 50)
        /\ 100 * low <= p /\ p <= 100 * high
        /\ Part(n, 50) = 0 => p = 100 * low
    BY PercentileIsBetween
  <1>2. /\ low95 \in Int /\ high95 \in Int /\ p95 \in Int /\ low95 <= high95
        /\ p95 = 100 * low95 + (high95 - low95) * Part(n, 95)
        /\ 100 * low95 <= p95 /\ p95 <= 100 * high95
    BY PercentileIsBetween
  <1>3. f \in 1..n /\ u \in 1..n /\ f <= u /\ Part(n, 50) \in 0..99
        /\ (n - 1) * 50 = 100 * (f - 1) + Part(n, 50)
    BY RanksOfPercentile
  <1>4. g \in 1..n /\ w \in 1..n /\ g <= w /\ Part(n, 95) \in 0..99
        /\ (n - 1) * 95 = 100 * (g - 1) + Part(n, 95)
    BY RanksOfPercentile
  <1>5. 2 * Cardinality({i \in 1..n : 100 * values[i] <= p}) >= n
    <2> DEFINE H == {i \in 1..n : 100 * values[i] <= p}
    <2>1. f <= Cardinality(UpTo(values, low))
      BY <1>3, RankedIsRanked
    <2>2. UpTo(values, low) \subseteq H
      <3> HIDE DEF low, p
      <3> QED
        BY <1>0, <1>1 DEF UpTo
    <2>3. H \subseteq 1..n
      OBVIOUS
    <2> HIDE DEF H, low, f
    <2>4. Cardinality(UpTo(values, low)) <= Cardinality(H)
      BY <2>2, <2>3, MorePositions
    <2>5. UpTo(values, low) \subseteq 1..n
      BY <2>2, <2>3
    <2>6. Cardinality(H) \in 0..n
      BY <2>3, PositionsAreFinite
    <2>7. Cardinality(UpTo(values, low)) \in 0..n
      BY <2>5, PositionsAreFinite
    <2>8. 2 * f >= n
      BY <1>3, MiddleRank DEF f
    <2> QED
      BY <1>3, <2>1, <2>4, <2>6, <2>7, <2>8 DEF H
  <1>6. 2 * Cardinality({i \in 1..n : 100 * values[i] >= p}) >= n
    <2> DEFINE H == {i \in 1..n : 100 * values[i] >= p}
               From(v) == {i \in 1..n : values[i] >= v}
    <2>0. H \subseteq 1..n /\ Cardinality(H) \in 0..n
      <3>1. H \subseteq 1..n
        OBVIOUS
      <3> HIDE DEF H
      <3> QED
        BY <3>1, PositionsAreFinite
    <2>1. PICK k \in 1..n : 2 * (n - k + 1) >= n /\ p <= 100 * Ranked(values, k)
      <3>1. CASE Part(n, 50) = 0 /\ n = 2 * f - 1
        <4>1. 2 * (n - f + 1) >= n /\ p <= 100 * low
          <5> HIDE DEF low, p, f
          <5> QED
            BY <1>1, <1>3, <3>1
        <4> QED
          BY <1>3, <4>1
      <3>2. CASE n = 2 * f /\ u = f + 1
        <4>1. 2 * (n - u + 1) >= n /\ p <= 100 * high
          <5> HIDE DEF high, p, f, u
          <5> QED
            BY <1>1, <1>3, <3>2
        <4> QED
          BY <1>3, <4>1
      <3> QED
        BY <3>1, <3>2, MiddleRank
    <2> DEFINE v == Ranked(values, k)
    <2>2. v \in Int
      BY <1>0, RankedIsRanked
    <2>3. Cardinality(From(v)) >= n - k + 1
      BY AtLeastRanked
    <2> HIDE DEF v
    <2>4. From(v) \subseteq H
      <3>1. p \in Int /\ p <= 100 * v
        BY <1>1, <2>1 DEF v
      <3> HIDE DEF p
      <3> QED
        BY <1>0, <2>2, <3>1
    <2> HIDE DEF H
    <2>5. From(v) \subseteq 1..n
      OBVIOUS
    <2> HIDE DEF From
    <2>6. Cardinality(From(v)) <= Cardinality(H)
      BY <2>0, <2>4, MorePositions
    <2>7. Cardinality(From(v)) \in 0..n
      BY <2>5, PositionsAreFinite
    <2>8. 2 * Cardinality(H) >= n
      BY <2>0, <2>1, <2>3, <2>6, <2>7
    <2> QED
      BY <2>8 DEF H
  <1>7. p <= p95
    <2>1. f <= g /\ (f = g => Part(n, 50) <= Part(n, 95))
      <3> DEFINE r == Part(n, 50)
                 s == Part(n, 95)
      <3>1. f \in Int /\ g \in Int /\ r \in 0..99 /\ s \in 0..99
        BY <1>3, <1>4
      <3>2. (n - 1) * 50 = 100 * (f - 1) + r /\ (n - 1) * 95 = 100 * (g - 1) + s
        BY <1>3, <1>4
      <3> HIDE DEF f, g, r, s
      <3>3. f <= g /\ (f = g => r <= s)
        BY <3>1, <3>2
      <3> QED
        BY <3>3 DEF r, s
    <2>2. CASE f = g
      <3>1. u = w
        BY <2>2 DEF Upper
      <3>2. low = low95 /\ high = high95
        BY <2>2, <3>1
      <3> DEFINE d == high - low
      <3>3. d \in Nat
        BY <1>1
      <3>4. d * Part(n, 50) <= d * Part(n, 95) /\ d * Part(n, 50) \in Nat
            /\ d * Part(n, 95) \in Nat
        <4> DEFINE r == Part(n, 50)
                   s == Part(n, 95)
        <4>1. r \in 0..99 /\ s \in 0..99 /\ r <= s
          BY <1>3, <1>4, <2>1, <2>2
        <4> HIDE DEF d, r, s
        <4>2. d * r <= d * s /\ d * r \in Nat /\ d * s \in Nat
          BY <3>3, <4>1, PartOfDifference
        <4> QED
          BY <4>2 DEF r, s
      <3>5. p = 100 * low + d * Part(n, 50) /\ p95 = 100 * low + d * Part(n, 95)
        BY <1>1, <1>2, <3>2
      <3> HIDE DEF d, p, p95, low
      <3> QED
        BY <1>1, <3>4, <3>5
    <2>3. CASE f < g
      <3>1. u = f + 1 /\ u <= g
        <4>1. f < n
          <5> HIDE DEF f, g
          <5> QED
            BY <1>3, <1>4, <2>3
        <4>2. u = f + 1
          BY <4>1 DEF Upper
        <4> HIDE DEF f, g, u
        <4> QED
          BY <1>3, <1>4, <2>3, <4>2
      <3>2. high <= low95
        BY <1>3, <1>4, <3>1, RankedIsAscending
      <3> HIDE DEF high, low95, p, p95
      <3> QED
        BY <1>1, <1>2, <3>2
    <2> QED
      <3> HIDE DEF f, g
      <3> QED
        BY <1>3, <1>4, <2>1, <2>2, <2>3
  <1>8. \E i \in 1..n : p95 <= 100 * values[i]
    <2>1. PICK i \in 1..n : high95 = values[i]
      BY <1>4, RankedIsRanked
    <2> QED
      BY <1>2, <2>1
  <1> QED
    BY <1>5, <1>6, <1>7, <1>8

----------------------------------------------------------------------------
(* The baseline *)

\* What cost_eval.py keeps in memory is the original from the moment it has loaded it,
\* and only while the results of the new run stand in its place does the file differ.
IInv ==
    /\ file = [name \in {"results", "baseline", "after", "comparison"} |-> file[name]]
    /\ pc \in {"idle"} \cup DOMAIN Target
    /\ pc \in {"baseline", "after", "restored"} => cmd = "cost_eval"
    /\ ~lost /\ cmd = "cost_eval" => kept = original
    /\ ~lost /\ pc \notin {"baseline", "after"} => file.baseline = original
    /\ pc = "idle" => cmd = "none"

LEMMA InitIInv == Init => IInv
  BY DEF Init, IInv, Target

\* What a write of another file leaves alone.
LEMMA WriteElsewhere ==
    ASSUME IInv, NEW name \in {"results", "after", "comparison"}, NEW content,
           Write(name, content)
    PROVE  /\ file'.baseline = file.baseline
           /\ file' = [n \in {"results", "baseline", "after", "comparison"} |-> file'[n]]
  BY DEF IInv, Write

LEMMA WriteTheBaseline ==
    ASSUME IInv, NEW content, Write("baseline", content)
    PROVE  /\ file'.baseline = content
           /\ file' = [n \in {"results", "baseline", "after", "comparison"} |-> file'[n]]
  BY DEF IInv, Write

LEMMA NextIInv == IInv /\ [Next]_vars => IInv'
  <1> SUFFICES ASSUME IInv, [Next]_vars PROVE IInv'
    OBVIOUS
  <1> USE DEF Target
  <1>1. CASE RunEval
    BY <1>1 DEF RunEval, StartCommand, Baseline, IInv
  <1>2. CASE CostEval
    BY <1>2 DEF CostEval, StartCommand, Baseline, IInv
  <1>3. CASE CostEvalRaises
    BY <1>3 DEF CostEvalRaises, Baseline, IInv
  <1>4. CASE CheckThreshold
    BY <1>4 DEF CheckThreshold, Baseline, IInv
  <1>5. CASE EvaluateTestCase
    BY <1>5 DEF EvaluateTestCase, Baseline, IInv
  <1>6. CASE EvaluationRaises
    BY <1>6 DEF EvaluationRaises, End, Baseline, IInv
  <1>7. CASE WriteResults
    BY <1>7, WriteElsewhere DEF WriteResults, Baseline, IInv
  <1>8. CASE WriteBaseline
    <2>1. PICK s \in Summaries(scored) : Write("baseline", s) /\ original' = s
      BY <1>8 DEF WriteBaseline
    <2> QED
      BY <1>8, <2>1, WriteTheBaseline DEF WriteBaseline, End, IInv
  <1>9. CASE OverwriteBaseline
    <2>1. PICK s \in Summaries(scored) : Write("baseline", s)
      BY <1>9 DEF OverwriteBaseline
    <2> QED
      BY <1>9, <2>1, WriteTheBaseline DEF OverwriteBaseline, Baseline, IInv
  <1>10. CASE WriteAfter
    BY <1>10, WriteElsewhere DEF WriteAfter, Baseline, IInv
  <1>11. CASE Restore
    BY <1>11, WriteTheBaseline DEF Restore, Baseline, IInv
  <1>12. CASE Compare
    <2>1. PICK c : Write("comparison", c)
      BY <1>12 DEF Compare
    <2> QED
      BY <1>12, <2>1, WriteElsewhere DEF Compare, End, Baseline, IInv
  <1>13. CASE CompareRaises
    BY <1>13 DEF CompareRaises, End, Baseline, IInv
  <1>14. CASE Crash
    BY <1>14 DEF Crash, End, IInv
  <1>15. CASE CrashWriting
    <2>1. CASE pc \in {"results", "after"}
      <3>1. Write("baseline", Torn)
        BY <1>15, <2>1 DEF CrashWriting
      <3> QED
        BY <1>15, <2>1, <3>1, WriteTheBaseline DEF CrashWriting, End, IInv
    <2>2. CASE pc \notin {"results", "after"}
      <3>1. PICK name \in {"results", "after", "comparison"} : Write(name, Torn)
        BY <1>15, <2>2 DEF CrashWriting, IInv
      <3> QED
        BY <1>15, <2>2, <3>1, WriteElsewhere DEF CrashWriting, End, IInv
    <2> QED
      BY <2>1, <2>2
  <1>16. CASE UNCHANGED vars
    BY <1>16 DEF vars, IInv
  <1> QED
    BY <1>1, <1>2, <1>3, <1>4, <1>5, <1>6, <1>7, <1>8, <1>9, <1>10, <1>11, <1>12, <1>13,
       <1>14, <1>15, <1>16 DEF Next

----------------------------------------------------------------------------
(* The run *)

AsWritten(r) ==
    [i \in DOMAIN r |-> [category |-> r[i].category, score |-> r[i].score,
                         inRange |-> r[i].inRange]]

\* As long as the judge stays in its range the scores do, and the case of a tool that no
\* agent called scores low.
ScoresFit(r, called) == StaysInRange(r) /\ (~called => LowForTools(r))

Written == {"results", "baseline", "after", "restored"}

\* What a command has written is what it has scored, and the scores fit in both.
RunInv ==
    /\ pc = "idle" => scored = << >>
    /\ Len(scored) <= Len(Golden)
    /\ pc \in Written =>
           /\ Len(scored) = Len(Golden)
           /\ file.results = [cases |-> AsWritten(scored), agent |-> agent]
    /\ pc = "baseline" => file.baseline \in Summaries(scored)
    /\ pc \in {"after", "restored"} => file.after \in Summaries(scored)
    /\ cmd = "cost_eval" => kept \notin {Missing, Torn}
    /\ ScoresFit(scored, agent)
    /\ file.results \notin {Missing, Torn} =>
           ScoresFit(file.results.cases, file.results.agent)

EvaluationInv ==
    /\ TypeOK
    /\ IInv
    /\ RunInv

ResultType ==
    [category : DOMAIN Thresholds, score : Int, inRange : BOOLEAN, latency : Nat]
RowType == [category : DOMAIN Thresholds, score : Int, inRange : BOOLEAN]

\* The results in memory have scores.
LEMMA ScoredHaveScores ==
    ASSUME NEW r \in Seq(ResultType)
    PROVE  /\ HaveScores(r)
           /\ \A i \in DOMAIN r : r[i] \in ResultType
  <1>1. Len(r) \in Nat /\ DOMAIN r = 1..Len(r) /\ \A i \in 1..Len(r) : r[i] \in ResultType
    <2> HIDE DEF ResultType
    <2> QED
      OBVIOUS
  <1> QED
    BY <1>1 DEF HaveScores, ResultType

\* The results on disk have the same scores, so their total and their average too.
LEMMA SameScoresOnDisk ==
    ASSUME NEW r \in Seq(ResultType)
    PROVE  /\ AsWritten(r) \in Seq(RowType)
           /\ SumOf(AsWritten(r), DOMAIN AsWritten(r)) = SumOf(r, DOMAIN r)
           /\ Overalls(AsWritten(r)) = Overalls(r)
           /\ \A called : ScoresFit(r, called) => ScoresFit(AsWritten(r), called)
  <1> DEFINE d == AsWritten(r)
  <1>1. Len(r) \in Nat /\ DOMAIN r = 1..Len(r) /\ \A i \in DOMAIN r : r[i] \in ResultType
    BY ScoredHaveScores DEF HaveScores
  <1>2. DOMAIN d = DOMAIN r
        /\ \A i \in DOMAIN r : /\ d[i].category = r[i].category
                               /\ d[i].score = r[i].score
                               /\ d[i].inRange = r[i].inRange
                               /\ d[i] \in RowType
    BY <1>1 DEF AsWritten, ResultType, RowType
  <1>3. d = [i \in 1..Len(r) |-> d[i]]
    BY <1>1 DEF AsWritten
  <1> HIDE DEF d
  <1>4. d \in [1..Len(r) -> RowType]
    BY <1>1, <1>2, <1>3
  <1>5. d \in Seq(RowType) /\ Len(d) = Len(r)
    <2> HIDE DEF RowType
    <2> QED
      BY <1>1, <1>4
  <1>6. [i \in DOMAIN d |-> d[i].score] = [i \in DOMAIN r |-> r[i].score]
    BY <1>2
  <1>7. SumOf(d, DOMAIN d) = SumOf(r, DOMAIN r)
    BY <1>2, <1>6 DEF SumOf
  <1>8. Overalls(d) = Overalls(r)
    BY <1>5, <1>7 DEF Overalls
  <1>9. \A called : ScoresFit(r, called) => ScoresFit(d, called)
    BY <1>2 DEF ScoresFit, StaysInRange, LowForTools, Of
  <1> QED
    BY <1>5, <1>7, <1>8, <1>9 DEF d

\* A write of one file.
Names == {"results", "baseline", "after", "comparison"}

LEMMA WriteOne ==
    ASSUME IInv, NEW name \in Names, NEW content, Write(name, content)
    PROVE  /\ file'[name] = content
           /\ \A n \in Names : n # name => file'[n] = file[n]
  BY DEF IInv, Write, Names

\* A result as the judge's range makes it, and a low one if the case is about a tool and
\* there is no agent.
RowFits(row, called) ==
    row.inRange =>
        /\ row.score \in 0..Whole
        /\ ~called /\ row.category = "tool_calling" => row.score <= 40

\* A case gets such a result.
LEMMA CaseIsScored ==
    ASSUME scored \in Seq(ResultType), EvaluateTestCase, Len(scored) <= Len(Golden)
    PROVE  /\ Len(scored) < Len(Golden)
           /\ \E row \in ResultType :
                  scored' = Append(scored, row) /\ RowFits(row, agent)
  <1> DEFINE i == Len(scored) + 1
             case == Golden[i]
  <1>1. Golden \in Seq(CaseType) /\ scored \in Seq(ResultType)
    BY EvaluationAssumption DEF CaseType
  <1>2. Len(scored) \in Nat /\ Len(Golden) \in Nat
    <2> HIDE DEF CaseType, ResultType
    <2> QED
      BY <1>1
  <1>3. Len(scored) < Len(Golden) /\ i \in 1..Len(Golden)
    BY <1>2 DEF EvaluateTestCase, AllScored
  <1>4. case \in CaseType
    <2> HIDE DEF CaseType
    <2> QED
      BY <1>1, <1>3
  <1>5. PICK tools \in IF agent THEN SUBSET Tools ELSE {{}},
             latency \in IF agent THEN Latencies[i] ELSE {0} :
             \E result \in CaseScores(case, tools, Marks[i]) :
                 scored' = Append(scored, [category |-> case.category,
                                           score |-> result.score,
                                           inRange |-> result.inRange,
                                           latency |-> latency])
    BY DEF EvaluateTestCase
  <1>6. PICK result \in CaseScores(case, tools, Marks[i]) :
                 scored' = Append(scored, [category |-> case.category,
                                           score |-> result.score,
                                           inRange |-> result.inRange,
                                           latency |-> latency])
    BY <1>5
  <1> DEFINE row == [category |-> case.category, score |-> result.score,
                     inRange |-> result.inRange, latency |-> latency]
  <1>7. /\ result.score \in Int /\ result.inRange \in BOOLEAN
        /\ result.inRange => result.score \in 0..Whole
        /\ /\ result.inRange
           /\ tools = {} /\ "tool_accuracy" \in case.criteria /\ case.expected # {}
           => result.score <= 40
    <2>1. Marks[i] \subseteq Int
      BY <1>3, EvaluationAssumption
    <2> DEFINE marks == Marks[i]
    <2> HIDE DEF case, marks
    <2> QED
      BY <1>4, <2>1, CaseHasAScore DEF marks
  <1>8. latency \in Nat
    <2>1. agent => latency \in Latencies[i]
      BY <1>5
    <2>2. Latencies[i] \subseteq Nat
      BY <1>3, EvaluationAssumption
    <2> QED
      BY <1>5, <2>1, <2>2
  <1>9. row \in ResultType
    BY <1>4, <1>7, <1>8 DEF ResultType, CaseType
  <1>10. ASSUME ~agent, row.inRange, row.category = "tool_calling" PROVE row.score <= 40
    <2>1. tools = {}
      BY <1>5, <1>10
    <2>2. case.category = "tool_calling"
      BY <1>10
    <2>3. "tool_accuracy" \in case.criteria /\ case.expected # {}
      BY <1>3, <2>2, EvaluationAssumption
    <2> QED
      BY <1>7, <1>10, <2>1, <2>3
  <1>a. RowFits(row, agent)
    BY <1>7, <1>10 DEF RowFits
  <1> HIDE DEF row
  <1>11. scored' = Append(scored, row)
    BY <1>6 DEF row
  <1> QED
    BY <1>3, <1>9, <1>a, <1>11

Baselines == {Missing, Torn, Legacy} \cup Measured
ResultFiles == {Missing, Torn} \cup [cases : Seq(RowType), agent : BOOLEAN]
Comparisons == {Missing, Torn} \cup [before : Int, after : Int, ok : BOOLEAN]

\* The types of TypeOK, with its sets named; that the scores stay in range is in RunInv.
Types ==
    /\ file["results"] \in ResultFiles
    /\ file["baseline"] \in Baselines /\ file["after"] \in Baselines
    /\ kept \in Baselines /\ original \in Baselines
    /\ file["comparison"] \in Comparisons
    /\ cmd \in {"none", "run_eval", "cost_eval"}
    /\ pc \in {"idle"} \cup DOMAIN Target
    /\ scored \in Seq(ResultType)
    /\ agent \in BOOLEAN
    /\ exit \in {"none", "0", "1", "error"}
    /\ lost \in BOOLEAN
    /\ commands \in 0..MaxCommands

LEMMA TypesAreTypeOK == TypeOK /\ RunInv <=> Types /\ RunInv
  BY DEF Types, TypeOK, Baselines, ResultFiles, Comparisons, RowType, ResultType, RunInv,
     ScoresFit

LEMMA TypesAreTypeOKNext == TypeOK' /\ RunInv' <=> Types' /\ RunInv'
  BY DEF Types, TypeOK, Baselines, ResultFiles, Comparisons, RowType, ResultType, RunInv,
     ScoresFit

\* No file gets what no reader of it expects.
LEMMA FilesKeepTheirTypes ==
    ASSUME Types, IInv, NEW name \in Names, NEW content, Write(name, content),
           content = Torn
           \/ (name = "results" /\ content \in ResultFiles)
           \/ (name \in {"baseline", "after"} /\ content \in Baselines)
           \/ (name = "comparison" /\ content \in Comparisons)
    PROVE  /\ file'["results"] \in ResultFiles
           /\ file'["baseline"] \in Baselines /\ file'["after"] \in Baselines
           /\ file'["comparison"] \in Comparisons
  <1>1. Torn \in ResultFiles /\ Torn \in Baselines /\ Torn \in Comparisons
    BY DEF ResultFiles, Baselines, Comparisons
  <1> QED
    BY <1>1, WriteOne DEF Types, Names

\* The summary of a complete run.
LEMMA SummaryIsABaseline ==
    ASSUME Types, RunInv, pc \in Written
    PROVE  Summaries(scored) \subseteq Measured
  <1>1. HaveScores(scored)
    BY ScoredHaveScores DEF Types
  <1> QED
    BY <1>1, SummariesAreMeasured DEF RunInv

\* The fields of a summary.
LEMMA MeasuredFields ==
    ASSUME NEW m \in Measured
    PROVE  m.quality \in Int /\ m.sum \in Int
  BY DEF Measured

\* The quality of a summary is its total, rounded.
LEMMA MeasuredIsRounded ==
    ASSUME NEW m \in Measured, NEW unit, unit = Whole * Len(Golden)
    PROVE  m.quality \in Rounded(1000 * m.sum, unit)
  BY DEF Measured

\* regression_ok decides which of the two rounded qualities is the larger, within 0.05.
LEMMA RegressionOutcome ==
    ASSUME NEW before \in Measured, NEW after \in Measured,
           NEW ok \in RegressionOk(before, after)
    PROVE  /\ ok \in BOOLEAN
           /\ ok => after.quality + 50 >= before.quality
           /\ ~ok => after.quality + 50 <= before.quality
  BY DEF RegressionOk, AtLeast

\* Every step keeps the types.
LEMMA TypesKept ==
    ASSUME Types, IInv, RunInv, [Next]_vars
    PROVE  Types'
  <1>0. << >> \in Seq(ResultType) /\ MaxCommands \in Nat /\ "scoring" \in DOMAIN Target
        /\ Written \subseteq DOMAIN Target
    BY EvaluationAssumption DEF Target, Written
  <1> DEFINE FileTypes == /\ file["results"] \in ResultFiles
                          /\ file["baseline"] \in Baselines /\ file["after"] \in Baselines
                          /\ file["comparison"] \in Comparisons
  <1>a. UNCHANGED file => FileTypes'
    BY DEF Types
  <1>e. Missing \in Baselines /\ Torn \in Baselines
    BY DEF Baselines
  <1>f. ASSUME FileTypes', End, original' \in Baselines, lost' \in BOOLEAN,
               exit' \in {"none", "0", "1", "error"}
        PROVE  Types'
    BY <1>0, <1>e, <1>f DEF Types, End
  <1>1. CASE RunEval
    BY <1>0, <1>1, <1>a DEF RunEval, StartCommand, Baseline, Types
  <1>2. CASE CostEval
    BY <1>0, <1>2, <1>a DEF CostEval, StartCommand, Baseline, Types
  <1>3. CASE CostEvalRaises
    BY <1>3, <1>a DEF CostEvalRaises, Baseline, Types
  <1>4. CASE CheckThreshold
    <2>1. exit' \in {"none", "0", "1", "error"}
      BY <1>4 DEF CheckThreshold
    <2> QED
      BY <1>4, <1>a, <2>1 DEF CheckThreshold, Baseline, Types
  <1>5. CASE EvaluateTestCase
    <2>1. PICK row \in ResultType : scored' = Append(scored, row)
      BY <1>5, CaseIsScored DEF Types, RunInv
    <2>2. scored' \in Seq(ResultType)
      <3> HIDE DEF ResultType
      <3> QED
        BY <2>1, AppendProperties DEF Types
    <2> QED
      BY <1>5, <1>a, <2>2 DEF EvaluateTestCase, Baseline, Types
  <1>6. CASE EvaluationRaises
    BY <1>6, <1>a, <1>f DEF EvaluationRaises, Baseline, Types
  <1>7. CASE WriteResults
    <2>1. [cases |-> AsWritten(scored), agent |-> agent] \in ResultFiles
      <3>1. AsWritten(scored) \in Seq(RowType)
        BY SameScoresOnDisk DEF Types
      <3> HIDE DEF RowType
      <3> QED
        BY <3>1 DEF ResultFiles, Types
    <2>2. Write("results", [cases |-> AsWritten(scored), agent |-> agent])
      BY <1>7 DEF WriteResults, AsWritten
    <2>3. FileTypes'
      BY <2>1, <2>2, FilesKeepTheirTypes DEF Names
    <2> QED
      BY <1>0, <1>7, <2>3 DEF WriteResults, Baseline, Types, Target
  <1>8. CASE WriteBaseline
    <2>1. PICK s \in Summaries(scored) : Write("baseline", s) /\ original' = s
      BY <1>8 DEF WriteBaseline
    <2>2. s \in Baselines
      BY <1>8, SummaryIsABaseline DEF WriteBaseline, Written, Baselines
    <2>3. FileTypes'
      BY <2>1, <2>2, FilesKeepTheirTypes DEF Names
    <2> QED
      BY <1>8, <1>f, <2>1, <2>2, <2>3 DEF WriteBaseline
  <1>9. CASE OverwriteBaseline
    <2>1. PICK s \in Summaries(scored) : Write("baseline", s)
      BY <1>9 DEF OverwriteBaseline
    <2>2. s \in Baselines
      BY <1>9, SummaryIsABaseline DEF OverwriteBaseline, Written, Baselines
    <2>3. FileTypes'
      BY <2>1, <2>2, FilesKeepTheirTypes DEF Names
    <2> QED
      BY <1>9, <2>3 DEF OverwriteBaseline, Baseline, Types, Target
  <1>10. CASE WriteAfter
    <2>1. FileTypes'
      BY <1>10, FilesKeepTheirTypes DEF WriteAfter, Names, Types
    <2> QED
      BY <1>10, <2>1 DEF WriteAfter, Baseline, Types, Target
  <1>11. CASE Restore
    <2>1. FileTypes'
      BY <1>11, FilesKeepTheirTypes DEF Restore, Names, Types
    <2> QED
      BY <1>11, <2>1 DEF Restore, Baseline, Types, Target
  <1>12. CASE Compare
    <2>1. kept \in Measured /\ file.after \in Measured
      BY <1>12, SummaryIsABaseline DEF Compare, IInv, RunInv, Written, Types, Baselines
    <2>2. PICK ok \in RegressionOk(kept, file.after) :
              /\ Write("comparison", [before |-> kept.quality, after |-> file.after.quality,
                                      ok |-> ok])
              /\ exit' = IF ok THEN "0" ELSE "1"
      BY <1>12 DEF Compare
    <2>3. ok \in BOOLEAN
      BY <2>1, <2>2, RegressionOutcome
    <2>4. [before |-> kept.quality, after |-> file.after.quality, ok |-> ok] \in Comparisons
      <3>1. kept.quality \in Int /\ file.after.quality \in Int
        BY <2>1, MeasuredFields
      <3> QED
        BY <2>3, <3>1 DEF Comparisons
    <2>5. FileTypes'
      BY <2>2, <2>4, FilesKeepTheirTypes DEF Names
    <2> QED
      BY <1>12, <1>f, <2>2, <2>5 DEF Compare, Baseline, Types
  <1>13. CASE CompareRaises
    BY <1>13, <1>a, <1>f DEF CompareRaises, Baseline, Types
  <1>14. CASE Crash
    BY <1>14, <1>a, <1>f DEF Crash, Types
  <1>15. CASE CrashWriting
    <2>1. Target[pc] \in Names
      BY <1>15 DEF CrashWriting, Types, Target, Names
    <2>2. FileTypes'
      BY <1>15, <2>1, FilesKeepTheirTypes DEF CrashWriting
    <2> QED
      BY <1>15, <1>f, <2>2 DEF CrashWriting, Types
  <1>16. CASE UNCHANGED vars
    BY <1>16 DEF vars, Types
  <1> QED
    BY <1>1, <1>2, <1>3, <1>4, <1>5, <1>6, <1>7, <1>8, <1>9, <1>10, <1>11, <1>12, <1>13,
       <1>14, <1>15, <1>16 DEF Next

\* Every step keeps what was written and what is in memory together.
LEMMA RunKept ==
    ASSUME Types, IInv, RunInv, [Next]_vars
    PROVE  RunInv'
  <1> DEFINE FitOnDisk == file.results \notin {Missing, Torn} =>
                              ScoresFit(file.results.cases, file.results.agent)
  <1>0. FitOnDisk
    BY DEF RunInv
  <1>a. UNCHANGED file => FitOnDisk'
    BY <1>0
  <1>b. (\A called : ScoresFit(<< >>, called)) /\ Len(<< >>) <= Len(Golden)
    BY EvaluationAssumption DEF ScoresFit, StaysInRange, LowForTools, Of
  <1>c. ASSUME NEW name \in Names, NEW content, Write(name, content),
               name # "results" \/ content = Torn
        PROVE  /\ FitOnDisk'
               /\ name # "results" => UNCHANGED (file["results"])
    BY <1>0, <1>c, WriteOne DEF Names
  <1>d. ASSUME FitOnDisk', End
        PROVE  RunInv'
    BY <1>b, <1>d DEF End, RunInv, Written
  <1>1. CASE RunEval
    BY <1>1, <1>a, <1>b DEF RunEval, StartCommand, Baseline, RunInv, Written
  <1>2. CASE CostEval
    BY <1>2, <1>a, <1>b DEF CostEval, StartCommand, Baseline, RunInv, Written
  <1>3. CASE CostEvalRaises
    BY <1>3, <1>a DEF CostEvalRaises, Baseline, RunInv, Written
  <1>4. CASE CheckThreshold
    BY <1>4, <1>a DEF CheckThreshold, Baseline, RunInv, Written
  <1>5. CASE EvaluateTestCase
    <2>1. Len(scored) < Len(Golden)
      BY <1>5, CaseIsScored DEF Types, RunInv
    <2>2. PICK row \in ResultType :
              scored' = Append(scored, row) /\ RowFits(row, agent)
      BY <1>5, CaseIsScored DEF Types, RunInv
    <2>3. Len(scored) \in Nat /\ DOMAIN scored = 1..Len(scored) /\ Len(Golden) \in Nat
      BY ScoredHaveScores, EvaluationAssumption DEF Types, HaveScores
    <2>4. /\ Len(scored') = Len(scored) + 1
          /\ DOMAIN scored' = 1..(Len(scored) + 1)
          /\ \A i \in 1..Len(scored) : scored'[i] = scored[i]
          /\ scored'[Len(scored) + 1] = row
      <3> HIDE DEF ResultType
      <3> QED
        BY <2>2, AppendProperties DEF Types
    <2>5. ScoresFit(scored', agent)
      <3>1. SUFFICES ASSUME NEW i \in DOMAIN scored' PROVE RowFits(scored'[i], agent)
        BY DEF ScoresFit, StaysInRange, LowForTools, Of, RowFits
      <3>2. CASE i \in 1..Len(scored)
        <4>1. scored'[i] = scored[i] /\ i \in DOMAIN scored
          BY <2>3, <2>4, <3>2
        <4>2. ScoresFit(scored, agent)
          BY DEF RunInv
        <4> QED
          BY <4>1, <4>2 DEF ScoresFit, StaysInRange, LowForTools, Of, RowFits
      <3>3. CASE i = Len(scored) + 1
        BY <2>2, <2>4, <3>3
      <3>4. i \in 1..(Len(scored) + 1)
        BY <2>4
      <3>5. i \in 1..Len(scored) \/ i = Len(scored) + 1
        BY <2>3, <3>4
      <3> QED
        BY <3>2, <3>3, <3>5
    <2>6. Len(scored') <= Len(Golden)
      BY <2>1, <2>3, <2>4
    <2> QED
      BY <1>5, <1>a, <2>5, <2>6 DEF EvaluateTestCase, Baseline, RunInv, Written
  <1>6. CASE EvaluationRaises
    BY <1>6, <1>a, <1>d DEF EvaluationRaises
  <1>7. CASE WriteResults
    <2> DEFINE written == [cases |-> AsWritten(scored), agent |-> agent]
    <2>1. Write("results", written)
      BY <1>7 DEF WriteResults, AsWritten
    <2>2. file'["results"] = written
      BY <2>1, WriteOne DEF Names
    <2>3. ScoresFit(AsWritten(scored), agent)
      BY SameScoresOnDisk DEF RunInv, Types
    <2>4. FitOnDisk'
      BY <2>2, <2>3
    <2>5. UNCHANGED <<scored, agent, cmd, kept>> /\ pc' = "results" /\ Len(scored) = Len(Golden)
      BY <1>7 DEF WriteResults, AllScored
    <2> QED
      BY <2>2, <2>4, <2>5 DEF RunInv, AsWritten
  <1>8. CASE WriteBaseline
    <2>1. PICK s : Write("baseline", s)
      BY <1>8 DEF WriteBaseline
    <2> QED
      BY <1>8, <1>c, <1>d, <2>1 DEF WriteBaseline, Names
  <1>9. CASE OverwriteBaseline
    <2>1. PICK s \in Summaries(scored) : Write("baseline", s)
      BY <1>9 DEF OverwriteBaseline
    <2>2. file'["baseline"] = s
      BY <2>1, WriteOne DEF Names
    <2>3. FitOnDisk' /\ UNCHANGED (file["results"])
      BY <1>c, <2>1 DEF Names
    <2> QED
      BY <1>9, <2>2, <2>3 DEF OverwriteBaseline, Baseline, RunInv, Written, Summaries, AsWritten
  <1>10. CASE WriteAfter
    <2>1. file'["after"] = file["baseline"]
      BY <1>10, WriteOne DEF WriteAfter, Names
    <2>2. FitOnDisk' /\ UNCHANGED (file["results"])
      BY <1>10, <1>c DEF WriteAfter, Names
    <2> QED
      BY <1>10, <2>1, <2>2 DEF WriteAfter, Baseline, RunInv, Written, Summaries, AsWritten
  <1>11. CASE Restore
    <2>1. UNCHANGED (file["after"])
      BY <1>11, WriteOne DEF Restore, Names
    <2>2. FitOnDisk' /\ UNCHANGED (file["results"])
      BY <1>11, <1>c DEF Restore, Names
    <2> QED
      BY <1>11, <2>1, <2>2 DEF Restore, Baseline, RunInv, Written, Summaries, AsWritten
  <1>12. CASE Compare
    <2>1. PICK c : Write("comparison", c)
      BY <1>12 DEF Compare
    <2> QED
      BY <1>12, <1>c, <1>d, <2>1 DEF Compare, Names
  <1>13. CASE CompareRaises
    BY <1>13, <1>a, <1>d DEF CompareRaises
  <1>14. CASE Crash
    BY <1>14, <1>a, <1>d DEF Crash
  <1>15. CASE CrashWriting
    <2>1. Target[pc] \in Names
      BY <1>15 DEF CrashWriting, Types, Target, Names
    <2> QED
      BY <1>15, <1>c, <1>d, <2>1 DEF CrashWriting
  <1>16. CASE UNCHANGED vars
    BY <1>16 DEF vars, RunInv, Summaries, AsWritten
  <1> QED
    BY <1>1, <1>2, <1>3, <1>4, <1>5, <1>6, <1>7, <1>8, <1>9, <1>10, <1>11, <1>12, <1>13,
       <1>14, <1>15, <1>16 DEF Next

\* The invariant holds at first.
LEMMA InitEvaluationInv == Init => EvaluationInv
  <1> SUFFICES ASSUME Init PROVE EvaluationInv
    OBVIOUS
  <1>1. MaxCommands \in Nat /\ << >> \in Seq(ResultType) /\ Len(<< >>) <= Len(Golden)
    BY EvaluationAssumption
  <1>2. original \in Baselines /\ Missing \in Baselines
    BY EvaluationAssumption DEF Init, Baselines
  <1>3. file["results"] = Missing /\ file["baseline"] = original /\ file["after"] = Missing
        /\ file["comparison"] = Missing
    BY DEF Init
  <1>4. Types
    <2>1. Missing \in ResultFiles /\ Missing \in Comparisons
      BY DEF ResultFiles, Comparisons
    <2>2. kept = Missing /\ cmd = "none" /\ pc = "idle" /\ exit = "none" /\ scored = << >>
          /\ agent = FALSE /\ lost = FALSE /\ commands = 0
      BY DEF Init
    <2>3. commands \in 0..MaxCommands /\ scored \in Seq(ResultType) /\ kept \in Baselines
      BY <1>1, <1>2, <2>2
    <2>4. file["results"] \in ResultFiles /\ file["baseline"] \in Baselines
          /\ file["after"] \in Baselines /\ file["comparison"] \in Comparisons
      BY <1>2, <1>3, <2>1
    <2> QED
      BY <1>2, <2>2, <2>3, <2>4 DEF Types
  <1>5. RunInv
    BY <1>1, <1>3 DEF Init, RunInv, Written, ScoresFit, StaysInRange, LowForTools, Of
  <1> QED
    BY <1>4, <1>5, InitIInv, TypesAreTypeOK DEF EvaluationInv

\* Every step keeps the invariant.
LEMMA NextEvaluationInv == EvaluationInv /\ [Next]_vars => EvaluationInv'
  <1> SUFFICES ASSUME EvaluationInv, [Next]_vars PROVE EvaluationInv'
    OBVIOUS
  <1>1. Types /\ IInv /\ RunInv
    BY TypesAreTypeOK DEF EvaluationInv
  <1> QED
    BY <1>1, TypesKept, NextIInv, RunKept, TypesAreTypeOKNext DEF EvaluationInv

\* For every golden set and any number of commands: when nothing runs, the baseline is
\* that of the last complete run_eval.py, unless a command died between the write of the
\* new summary and the end of the write that puts the old one back.
THEOREM BaselineKept == Spec => []BaselineLostOnlyWhileReplaced
  <1>1. IInv => BaselineLostOnlyWhileReplaced
    BY DEF IInv, BaselineLostOnlyWhileReplaced
  <1> QED
    BY InitIInv, NextIInv, <1>1, PTL DEF Spec

\* The invariant holds of every run of the commands.
THEOREM EvaluationInvariant == Spec => []EvaluationInv
  BY InitEvaluationInv, NextEvaluationInv, PTL DEF Spec

\* The average of a case leaves its range only after the judge did, for every golden set
\* and whatever the judge writes.
THEOREM EvaluationTypeCorrect == Spec => []TypeOK
  <1>1. EvaluationInv => TypeOK
    BY DEF EvaluationInv
  <1> QED
    BY <1>1, EvaluationInvariant, PTL

\* For every golden set with a case that expects a tool: the results of a run without an
\* agent do not pass check_threshold.py while the judge stays in its range.  Without the
\* tool such a case has two thirds of the score at best, which is 40 of 60, and its
\* category needs 42.
THEOREM EvaluationNoAgentNeverPasses == Spec => []NoAgentNeverPasses
  <1>1. ASSUME EvaluationInv, file.results \notin {Missing, Torn}, ~file.results.agent,
               \A i \in Of(file.results.cases, "tool_calling") : file.results.cases[i].inRange
        PROVE  ~GateMayPass(file.results.cases)
    <2>1. Types /\ RunInv
      BY <1>1, TypesAreTypeOK DEF EvaluationInv
    <2>2. file.results.cases \in Seq(RowType)
      <3> HIDE DEF RowType
      <3> QED
        BY <1>1, <2>1 DEF Types, ResultFiles
    <2>3. HaveScores(file.results.cases)
      <3> DEFINE r == file.results.cases
      <3>1. Len(r) \in Nat /\ DOMAIN r = 1..Len(r) /\ \A i \in DOMAIN r : r[i] \in RowType
        <4> HIDE DEF RowType, r
        <4> QED
          BY <2>2 DEF r
      <3> QED
        BY <3>1 DEF HaveScores, RowType
    <2> QED
      BY <1>1, <2>1, <2>3, LowForToolsFails DEF RunInv, ScoresFit
  <1>2. EvaluationInv => NoAgentNeverPasses
    BY <1>1 DEF NoAgentNeverPasses
  <1> QED
    BY <1>2, EvaluationInvariant, PTL

\* For every golden set and every time its cases take: half of them took no longer than
\* p50 and half no less, and p50 <= p95 <= max.
THEOREM EvaluationPercentilesAreOrdered == Spec => []PercentilesAreOrdered
  <1>1. ASSUME EvaluationInv PROVE PercentilesAreOrdered
    <2>0. SUFFICES ASSUME pc = "results" PROVE PercentilesAreOrdered
      BY DEF PercentilesAreOrdered
    <2> DEFINE n == Len(scored)
               values == [i \in DOMAIN scored |-> scored[i].latency]
               took == [i \in DOMAIN scored |-> 100 * scored[i].latency]
    <2>1. Types /\ RunInv
      BY <1>1, TypesAreTypeOK DEF EvaluationInv
    <2>2. n \in Nat /\ DOMAIN scored = 1..n /\ \A i \in 1..n : scored[i] \in ResultType
      BY <2>1, ScoredHaveScores DEF Types, HaveScores
    <2>3. n > 0
      BY <2>0, <2>1, EvaluationAssumption DEF RunInv, Written
    <2>4. values \in [1..n -> Int]
      BY <2>2 DEF ResultType
    <2>5. DOMAIN took = 1..n /\ \A i \in 1..n : took[i] = 100 * values[i]
      BY <2>2
    <2> HIDE DEF n, values, took
    <2>6. /\ {i \in DOMAIN took : took[i] <= Percentile(values, 50)}
                 = {i \in 1..n : 100 * values[i] <= Percentile(values, 50)}
          /\ {i \in DOMAIN took : took[i] >= Percentile(values, 50)}
                 = {i \in 1..n : 100 * values[i] >= Percentile(values, 50)}
      BY <2>5
    <2>a. /\ 2 * Cardinality({i \in 1..n : 100 * values[i] <= Percentile(values, 50)}) >= n
          /\ 2 * Cardinality({i \in 1..n : 100 * values[i] >= Percentile(values, 50)}) >= n
          /\ Percentile(values, 50) <= Percentile(values, 95)
          /\ \E i \in 1..n : Percentile(values, 95) <= 100 * values[i]
      <3>1. n \in Nat
        BY <2>2
      <3> QED
        BY ONLY <2>3, <2>4, <3>1, PercentilesOfAList
    <2>7. 2 * Cardinality({i \in DOMAIN took : took[i] <= Percentile(values, 50)}) >= n
      BY ONLY <2>6, <2>a, Zenon
    <2>8. 2 * Cardinality({i \in DOMAIN took : took[i] >= Percentile(values, 50)}) >= n
      BY ONLY <2>6, <2>a, Zenon
    <2>9. \E i \in DOMAIN took : Percentile(values, 95) <= took[i]
      BY ONLY <2>5, <2>a, Zenon
    <2> QED
      BY <2>7, <2>8, <2>9, <2>a, Zenon DEF PercentilesAreOrdered, n, values, took
  <1> QED
    BY <1>1, EvaluationInvariant, PTL

\* Only the end of a comparison writes one that can be read.
LEMMA OnlyCompareCompares ==
    ASSUME Types, IInv, [Next]_vars,
           file'.comparison # file.comparison, file'.comparison # Torn
    PROVE  Compare
  <1>1. ASSUME NEW name \in Names \ {"comparison"}, NEW content, Write(name, content)
        PROVE  FALSE
    BY <1>1, WriteOne DEF Names
  <1>2. ~UNCHANGED file
    OBVIOUS
  <1>3. ~(RunEval \/ CostEval \/ CostEvalRaises \/ CheckThreshold \/ EvaluateTestCase
          \/ EvaluationRaises \/ CompareRaises \/ Crash \/ UNCHANGED vars)
    BY <1>2 DEF RunEval, CostEval, StartCommand, CostEvalRaises, CheckThreshold,
       EvaluateTestCase, EvaluationRaises, CompareRaises, Crash, vars
  <1>4. ~WriteResults /\ ~WriteAfter /\ ~Restore
    BY <1>1 DEF WriteResults, WriteAfter, Restore, Names
  <1>5. ~WriteBaseline /\ ~OverwriteBaseline
    BY <1>1 DEF WriteBaseline, OverwriteBaseline, Names
  <1>6. ~CrashWriting
    <2> SUFFICES ASSUME CrashWriting PROVE FALSE
      OBVIOUS
    <2>1. Target[pc] \in Names /\ Write(Target[pc], Torn)
      BY DEF CrashWriting, Types, Target, Names
    <2>2. Target[pc] = "comparison"
      BY <1>1, <2>1
    <2> QED
      BY <2>1, <2>2, WriteOne
  <1> QED
    BY <1>3, <1>4, <1>5, <1>6 DEF Next

\* What Compare writes, and of what.
LEMMA WhatIsCompared ==
    ASSUME EvaluationInv, Compare
    PROVE  /\ kept \in Measured /\ file.after \in Measured
           /\ file.after.sum = SumOf(scored, DOMAIN scored)
           /\ file.after.quality \in Overalls(scored)
           /\ \E ok \in RegressionOk(kept, file.after) :
                  file'.comparison = [before |-> kept.quality,
                                      after |-> file.after.quality, ok |-> ok]
  <1>1. Types /\ IInv /\ RunInv
    BY TypesAreTypeOK DEF EvaluationInv
  <1>2. file.after \in Summaries(scored)
    BY <1>1 DEF Compare, RunInv
  <1>3. kept \in Measured /\ file.after \in Measured
    BY <1>1, <1>2, SummaryIsABaseline DEF Compare, IInv, RunInv, Written, Types, Baselines
  <1>4. PICK q \in Overalls(scored) :
            file.after = [quality |-> q, sum |-> SumOf(scored, DOMAIN scored)]
    BY <1>2 DEF Summaries
  <1>5. file.after.sum = SumOf(scored, DOMAIN scored) /\ file.after.quality \in Overalls(scored)
    BY <1>4
  <1>6. PICK ok \in RegressionOk(kept, file.after) :
            Write("comparison", [before |-> kept.quality, after |-> file.after.quality,
                                 ok |-> ok])
    BY DEF Compare
  <1>7. file'.comparison = [before |-> kept.quality, after |-> file.after.quality, ok |-> ok]
    BY <1>1, <1>6, WriteOne DEF Names
  <1> QED
    BY <1>3, <1>5, <1>7

\* For every golden set, any number of commands and crashes: cost-eval-result.json compares
\* the results on disk with the baseline of the last complete run_eval.py, unless a crash
\* lost it.
THEOREM EvaluationComparisonIsHonest == Spec => ComparisonIsHonest
  <1> DEFINE Honest ==
          file'.comparison # file.comparison /\ file'.comparison # Torn =>
              /\ file.after.sum = SumOf(file.results.cases, DOMAIN file.results.cases)
              /\ file'.comparison.after \in Overalls(file.results.cases)
              /\ ~lost => file'.comparison.before = original.quality
  <1>1. ASSUME EvaluationInv, [Next]_vars PROVE Honest
    <2>0. SUFFICES ASSUME file'.comparison # file.comparison, file'.comparison # Torn
                   PROVE  /\ file.after.sum =
                                 SumOf(file.results.cases, DOMAIN file.results.cases)
                          /\ file'.comparison.after \in Overalls(file.results.cases)
                          /\ ~lost => file'.comparison.before = original.quality
      OBVIOUS
    <2>1. Types /\ IInv /\ RunInv
      BY <1>1, TypesAreTypeOK DEF EvaluationInv
    <2>2. Compare
      BY <1>1, <2>0, <2>1, OnlyCompareCompares
    <2>3. PICK ok : file'.comparison = [before |-> kept.quality,
                                        after |-> file.after.quality, ok |-> ok]
      BY <1>1, <2>2, WhatIsCompared
    <2>4. file.results.cases = AsWritten(scored)
      BY <2>1, <2>2 DEF Compare, RunInv, Written
    <2>5. file.after.sum = SumOf(scored, DOMAIN scored)
          /\ file.after.quality \in Overalls(scored)
      BY <1>1, <2>2, WhatIsCompared
    <2>6. scored \in Seq(ResultType)
      BY <2>1 DEF Types
    <2>7. ~lost => kept = original
      BY <2>1, <2>2 DEF IInv, Compare
    <2>8. file'.comparison.after = file.after.quality
          /\ file'.comparison.before = kept.quality
      BY <2>3
    <2> QED
      BY <2>4, <2>5, <2>6, <2>7, <2>8, SameScoresOnDisk
  <1>2. EvaluationInv /\ [Next]_vars => [Honest]_vars
    BY <1>1
  <1> QED
    BY <1>2, EvaluationInvariant, PTL DEF Spec, ComparisonIsHonest

\* A rounded quality is within half a thousandth of the exact one.
LEMMA RoundedIsNear ==
    ASSUME NEW m \in Measured, NEW unit, unit = Whole * Len(Golden)
    PROVE  /\ 2 * (m.quality * unit) <= 2 * (1000 * m.sum) + unit
           /\ 2 * (1000 * m.sum) - unit <= 2 * (m.quality * unit)
  <1>1. unit \in Nat
    BY UnitIsPositive
  <1>2. m.quality \in Int /\ m.sum \in Int
    BY MeasuredFields
  <1>3. m.quality \in Rounded(1000 * m.sum, unit)
    BY MeasuredIsRounded
  <1>4. 2 * m.quality * unit <= 2 * (1000 * m.sum) + unit
        /\ 2 * (1000 * m.sum) - unit <= 2 * m.quality * unit
    BY <1>3 DEF Rounded
  <1>5. 2 * m.quality * unit = 2 * (m.quality * unit)
    BY <1>1, <1>2
  <1> QED
    BY <1>4, <1>5

\* A drop of the exact quality is within a thousandth of the drop of the rounded one.
LEMMA DropIsNear ==
    ASSUME NEW unit \in Nat, NEW b \in Int, NEW a \in Int, NEW sb \in Int, NEW sa \in Int,
           2 * (b * unit) <= 2 * (1000 * sb) + unit,
           2 * (1000 * sb) - unit <= 2 * (b * unit),
           2 * (a * unit) <= 2 * (1000 * sa) + unit,
           2 * (1000 * sa) - unit <= 2 * (a * unit)
    PROVE  /\ a + 50 >= b => 1000 * (sb - sa) <= 51 * unit
           /\ a + 50 <= b => 1000 * (sb - sa) >= 49 * unit
  <1>1. (a + 50) * unit = a * unit + 50 * unit /\ a * unit \in Int /\ b * unit \in Int
    OBVIOUS
  <1>2. a + 50 >= b => a * unit + 50 * unit >= b * unit
    <2>1. a + 50 >= b => (a + 50) * unit >= b * unit
      OBVIOUS
    <2> QED
      BY <1>1, <2>1
  <1>3. a + 50 <= b => a * unit + 50 * unit <= b * unit
    <2>1. a + 50 <= b => (a + 50) * unit <= b * unit
      OBVIOUS
    <2> QED
      BY <1>1, <2>1
  <1> QED
    BY <1>1, <1>2, <1>3

\* For every golden set: the comparison of the rounded qualities lets no drop of more than
\* 0.051 pass and refuses none of less than 0.049.
THEOREM EvaluationRegressionTolerance == Spec => RegressionToleranceHolds
  <1> DEFINE unit == Whole * Len(Golden)
             drop == 1000 * (kept.sum - file.after.sum)
             Tolerant ==
                 file'.comparison # file.comparison /\ file'.comparison # Torn =>
                     IF file'.comparison.ok THEN drop <= 51 * unit ELSE drop >= 49 * unit
  <1>1. ASSUME EvaluationInv, [Next]_vars PROVE Tolerant
    <2>0. SUFFICES ASSUME file'.comparison # file.comparison, file'.comparison # Torn
                   PROVE  IF file'.comparison.ok THEN drop <= 51 * unit ELSE drop >= 49 * unit
      OBVIOUS
    <2>1. Types /\ IInv
      BY <1>1, TypesAreTypeOK DEF EvaluationInv
    <2>2. Compare
      BY <1>1, <2>0, <2>1, OnlyCompareCompares
    <2>3. kept \in Measured
      BY <1>1, <2>2, WhatIsCompared
    <2>4. file.after \in Measured
      BY <1>1, <2>2, WhatIsCompared
    <2>5. PICK ok \in RegressionOk(kept, file.after) :
              file'.comparison = [before |-> kept.quality, after |-> file.after.quality,
                                  ok |-> ok]
      BY <1>1, <2>2, WhatIsCompared
    <2>6. file'.comparison.ok = ok
      BY <2>5
    <2>7. (ok => file.after.quality + 50 >= kept.quality)
          /\ (~ok => file.after.quality + 50 <= kept.quality)
      BY <2>3, <2>4, RegressionOutcome
    <2>8. unit \in Nat
      BY UnitIsPositive
    <2>9. kept.quality \in Int /\ kept.sum \in Int
      BY <2>3, MeasuredFields
    <2>10. file.after.quality \in Int /\ file.after.sum \in Int
      BY <2>4, MeasuredFields
    <2>11. /\ 2 * (kept.quality * unit) <= 2 * (1000 * kept.sum) + unit
           /\ 2 * (1000 * kept.sum) - unit <= 2 * (kept.quality * unit)
      BY <2>3, RoundedIsNear
    <2>12. /\ 2 * (file.after.quality * unit) <= 2 * (1000 * file.after.sum) + unit
           /\ 2 * (1000 * file.after.sum) - unit <= 2 * (file.after.quality * unit)
      BY <2>4, RoundedIsNear
    <2> HIDE DEF unit
    <2>13. /\ file.after.quality + 50 >= kept.quality => drop <= 51 * unit
           /\ file.after.quality + 50 <= kept.quality => drop >= 49 * unit
      BY <2>8, <2>9, <2>10, <2>11, <2>12, DropIsNear
    <2> HIDE DEF drop
    <2> QED
      BY <2>6, <2>7, <2>13
  <1>2. EvaluationInv /\ [Next]_vars => [Tolerant]_vars
    BY <1>1
  <1> QED
    BY <1>2, EvaluationInvariant, PTL DEF Spec, RegressionToleranceHolds
=============================================================================
