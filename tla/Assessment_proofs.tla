--------------------------- MODULE Assessment_proofs ---------------------------
(***************************************************************************)
(* The parts that judge what others have recorded: the classifier, over    *)
(* every text, and the readers of the data directory, over every sequence  *)
(* of runs.  The two share no state.                                       *)
(***************************************************************************)
EXTENDS Classifier, MetricsWindow, WellFoundedInduction, FiniteSetTheorems,
        TLAPS

(* Sets of numbers: the least of them, induction, the greatest.            *)
LEMMA LeastExists ==
    ASSUME NEW S, S \subseteq Nat, S # {}
    PROVE  \E k \in S : \A j \in S : k <= j
<1>1. PICK R : R = {p \in Nat \X Nat : p[1] < p[2]}
  OBVIOUS
<1>2. IsWellFoundedOn(R, Nat)
  BY <1>1, NatLessThanWellFounded DEF OpToRel
<1>3. PICK k \in S : \A j \in S : <<j, k>> \notin R
  BY <1>2, WFMin
<1>4. \A j \in S : k <= j
  <2> SUFFICES ASSUME NEW j \in S, ~ (k <= j) PROVE FALSE
    OBVIOUS
  <2>1. j \in Nat /\ k \in Nat /\ j < k
    OBVIOUS
  <2>2. <<j, k>> \in R
    BY <1>1, <2>1
  <2> QED
    BY <1>3, <2>2
<1> QED
  BY <1>4

(* The lowest of a nonempty set of rule numbers.                           *)
LEMMA LeastIsThere ==
    ASSUME NEW S \in SUBSET Nat, S # {}
    PROVE  Least(S) \in S /\ \A j \in S : Least(S) <= j
  BY LeastExists DEF Least

(* Induction, on a set of numbers.                                         *)
LEMMA NatInductionSet ==
    ASSUME NEW B, B \subseteq Nat, 0 \in B, \A n \in B : n + 1 \in B
    PROVE  B = Nat
<1> SUFFICES ASSUME Nat \ B # {} PROVE FALSE
  OBVIOUS
<1>1. PICK x \in Nat \ B : \A y \in Nat \ B : x <= y
  BY LeastExists
<1>2. x # 0 /\ x - 1 \in Nat /\ x - 1 < x /\ (x - 1) + 1 = x
  OBVIOUS
<1>3. x - 1 \in B
  BY <1>1, <1>2
<1> QED
  BY <1>1, <1>2, <1>3

LEMMA GreatestExists ==
    ASSUME NEW S, NEW n \in Nat, S \subseteq 0..n, S # {}
    PROVE  \E m \in S : \A k \in S : k <= m
<1> DEFINE T == {j \in Nat : n - j \in S}
<1>1. T \subseteq Nat /\ T # {}
  <2>1. PICK k \in S : TRUE
    OBVIOUS
  <2>2. n - k \in Nat /\ n - (n - k) = k
    BY <2>1
  <2> QED
    BY <2>1, <2>2
<1> HIDE DEF T
<1>2. PICK j \in T : \A i \in T : j <= i
  BY <1>1, LeastExists
<1>3. n - j \in S /\ j \in Nat
  BY <1>2 DEF T
<1>4. ASSUME NEW k \in S PROVE k <= n - j
  <2>1. n - k \in Nat /\ n - (n - k) = k /\ k \in Nat
    OBVIOUS
  <2>2. n - k \in T
    BY <2>1 DEF T
  <2>3. j <= n - k
    BY <1>2, <2>2
  <2> QED
    BY <1>3, <2>1, <2>3
<1> QED
  BY <1>3, <1>4

LEMMA MinFacts ==
    ASSUME NEW S, S \subseteq Nat, S # {}
    PROVE  Min(S) \in S /\ \A k \in S : Min(S) <= k
<1>1. \E x \in S : \A y \in S : x <= y
  BY LeastExists
<1> QED
  BY <1>1 DEF Min

LEMMA MaxFacts ==
    ASSUME NEW S, NEW n \in Nat, S \subseteq 0..n, S # {}
    PROVE  Max(S) \in S /\ \A k \in S : k <= Max(S)
<1>1. PICK m \in S : \A k \in S : k <= m
  BY GreatestExists
<1>2. \E x \in S : \A y \in S : x >= y
  <2>1. \A y \in S : m >= y
    BY <1>1
  <2> QED
    BY <2>1
<1>3. Max(S) \in S /\ \A y \in S : Max(S) >= y
  BY <1>2, Zenon DEF Max
<1> QED
  BY <1>3

-----------------------------------------------------------------------------
(* The classifier.                                                         *)

(* What the order of the rules is about: the definitive groups come first, *)
(* then the two transient ones, and only those are retryable.              *)
LEMMA RuleOrder ==
    /\ DOMAIN Rules = 1..16
    /\ \A k \in 1..16 : /\ Rules[k].category \in Categories \ {"unknown"}
                        /\ Rules[k].category = "cancelled" <=> k = 1
                        /\ Rules[k].retryable <=> k \in {6, 7}
    /\ \A k \in 1..7 : Rules[k].code = AnyCode
    /\ \A k \in 1..5 : Rules[k].group \in Definitive
    /\ \A g \in Definitive : \E k \in 1..5 : Rules[k].group = g
    /\ Rules[1].group = "cancelled_marker"
    /\ Rules[6].group = "apt_lock" /\ Rules[7].group = "network"
<1>1. DOMAIN Rules = 1..16
  BY DEF Rules
<1>2. \A k \in 1..16 : Rules[k].category \in Categories \ {"unknown"}
  BY DEF Rules, Rule, Categories
<1>3. \A k \in 1..16 : Rules[k].category = "cancelled" <=> k = 1
  BY DEF Rules, Rule
<1>4. \A k \in 1..16 : Rules[k].retryable <=> k \in {6, 7}
  BY DEF Rules, Rule
<1>5. \A k \in 1..7 : Rules[k].code = AnyCode
  BY DEF Rules, Rule
<1>6. \A k \in 1..5 : Rules[k].group \in Definitive
  BY DEF Rules, Rule, Definitive
<1>7. \A g \in Definitive : \E k \in 1..5 : Rules[k].group = g
  BY DEF Rules, Rule, Definitive
<1>8. /\ Rules[1].group = "cancelled_marker"
      /\ Rules[6].group = "apt_lock" /\ Rules[7].group = "network"
  BY DEF Rules, Rule
<1> QED
  BY <1>1, <1>2, <1>3, <1>4, <1>5, <1>6, <1>7, <1>8

(* The class of a text is that of the first rule that fires.               *)
LEMMA ClassIsFirst ==
    ASSUME NEW t, NEW c, NEW k, k = Least(Hits(Rules, t, c)),
           Hits(Rules, t, c) # {}
    PROVE  /\ k \in 1..16 /\ k \in Hits(Rules, t, c)
           /\ \A j \in Hits(Rules, t, c) : k <= j
           /\ classify_error(t, c).category = Rules[k].category
           /\ classify_error(t, c).retryable = Rules[k].retryable
<1>1. Hits(Rules, t, c) \in SUBSET (1..16)
  BY RuleOrder DEF Hits
<1>2. k \in Hits(Rules, t, c) /\ \A j \in Hits(Rules, t, c) : k <= j
  BY <1>1, LeastIsThere
<1>3. classify_error(t, c) = [category |-> Rules[k].category,
                              retryable |-> Rules[k].retryable]
  BY DEF classify_error, FirstMatch
<1> QED
  BY <1>1, <1>2, <1>3

(* Among the first seven rules only the text decides.                      *)
LEMMA FirstSeven ==
    ASSUME NEW t, NEW c \in ExitCodes, NEW k \in 1..7
    PROVE  k \in Hits(Rules, t, c) <=> Rules[k].group \in t
<1>1. Rules[k].code = AnyCode /\ k \in DOMAIN Rules
  BY RuleOrder
<1>2. AnyCode # c
  BY DEF AnyCode, ExitCodes
<1> QED
  BY <1>1, <1>2 DEF Hits, Fires

LEMMA RetryableWhen ==
    ASSUME NEW t, NEW c \in ExitCodes
    PROVE  /\ classify_error(t, c).category \in Categories
           /\ classify_error(t, c).retryable <=>
                 /\ t \cap TransientGroups # {}
                 /\ t \cap Definitive = {}
<1>1. PICK H : H = Hits(Rules, t, c)
  OBVIOUS
<1>2. t \cap TransientGroups # {} <=> 6 \in H \/ 7 \in H
  BY <1>1, FirstSeven, RuleOrder DEF TransientGroups
<1>3. t \cap Definitive = {} <=> \A j \in 1..5 : j \notin H
  BY <1>1, FirstSeven, RuleOrder
<1>4. CASE H = {}
  <2>1. classify_error(t, c) = Unknown
    BY <1>1, <1>4 DEF classify_error, FirstMatch
  <2>2. Unknown.category \in Categories /\ ~ Unknown.retryable
    BY DEF Unknown, Categories
  <2> QED
    BY <1>2, <1>4, <2>1, <2>2
<1>5. CASE H # {}
  <2>1. PICK k : k = Least(H)
    OBVIOUS
  <2>2. /\ k \in 1..16 /\ k \in H /\ \A j \in H : k <= j
        /\ classify_error(t, c).category = Rules[k].category
        /\ classify_error(t, c).retryable = Rules[k].retryable
    BY <1>1, <1>5, <2>1, ClassIsFirst
  <2>3. H \in SUBSET (1..16)
    BY <1>1, RuleOrder DEF Hits
  <2>4. k \in {6, 7} <=> (6 \in H \/ 7 \in H) /\ \A j \in 1..5 : j \notin H
    BY <2>2, <2>3
  <2>5. classify_error(t, c).retryable <=> k \in {6, 7}
    BY <2>2, RuleOrder
  <2> QED
    BY <1>2, <1>3, <2>2, <2>4, <2>5, RuleOrder
<1> QED
  BY <1>4, <1>5

(* classifier.rs:66-267: an error is retryable exactly when the output     *)
(* shows something transient and nothing definitive, however much was      *)
(* printed.                                                                *)
THEOREM RetryableIsTransient == RetryableExactly
BY RetryableWhen DEF RetryableExactly

-----------------------------------------------------------------------------
(* The readers of the data directory.                                      *)

(* The greater of two numbers.                                             *)
LEMMA MaxOfTwo ==
    ASSUME NEW a \in Nat, NEW b \in Nat
    PROVE  Max({a, b}) \in {a, b} /\ Max({a, b}) >= a /\ Max({a, b}) >= b
<1>1. \E x \in {a, b} : \A y \in {a, b} : x >= y
  <2>1. CASE a >= b
    BY <2>1
  <2>2. CASE b >= a
    BY <2>2
  <2> QED
    BY <2>1, <2>2
<1>2. Max({a, b}) \in {a, b} /\ \A y \in {a, b} : Max({a, b}) >= y
  BY <1>1 DEF Max
<1> QED
  BY <1>2

(* Whether two entries count as the same change of the failing set.        *)
LEMMA DiffExplains ==
    ASSUME NEW a, NEW b
    PROVE  /\ failing(a) # failing(b) => Diff(a, b) # "unchanged"
           /\ a # Absent /\ b # Absent =>
                /\ Diff(a, b) = "regressed" <=> (failing(a) = {} /\ failing(b) # {})
                /\ Diff(a, b) = "recovered" <=> (failing(a) # {} /\ failing(b) = {})
<1>1. ~ Fails(Absent)
  BY DEF Fails, is_failure_status, Absent, Missing
<1>2. \A e : failing(e) = {} <=> ~ Fails(e)
  BY DEF failing
<1>3. CASE a = Absent /\ b = Absent
  BY <1>3
<1>4. CASE a = Absent /\ b # Absent
  <2>1. Diff(a, b) = "added"
    BY <1>4, Zenon DEF Diff
  <2> QED
    BY <1>4, <2>1
<1>5. CASE a # Absent /\ b = Absent
  <2>1. Diff(a, b) = "removed"
    BY <1>5, Zenon DEF Diff
  <2> QED
    BY <1>5, <2>1
<1>6. CASE a # Absent /\ b # Absent
  <2>1. Diff(a, b) = IF a.status = b.status /\ a.category = b.category
                     THEN "unchanged"
                     ELSE IF ~Fails(a) /\ Fails(b) THEN "regressed"
                     ELSE IF Fails(a) /\ ~Fails(b) THEN "recovered"
                     ELSE "changed"
    BY <1>6 DEF Diff
  <2>2. CASE a.status = b.status /\ a.category = b.category
    <3>1. failing(a) = failing(b) /\ (Fails(a) <=> Fails(b))
      BY <2>2 DEF failing, Fails
    <3> QED
      BY <1>2, <2>1, <2>2, <3>1
  <2>3. CASE ~ (a.status = b.status /\ a.category = b.category)
    BY <1>2, <2>1, <2>3
  <2> QED
    BY <2>2, <2>3
<1> QED
  BY <1>3, <1>4, <1>5, <1>6

(* `diff' explains every change of the failing set (diff_runs).            *)
THEOREM DiffsExplained == Spec => []DiffExplainsFailing
<1>1. DiffExplainsFailing
  BY DiffExplains DEF DiffExplainsFailing
<1> QED
  BY <1>1, PTL

(* The runs of the window whose remediation reached a snapshot.            *)
Counted(w) == {k \in DOMAIN w : w[k].remediated /\ w[k].saved}

(* What a snapshot has counted: at least those runs, as long as it is      *)
(* good; the run whose snapshot is still to come is not among them.        *)
WindowInv ==
    /\ window \in Seq(RunFacts)
    /\ snapshot \in [remediations : Nat, fresh : BOOLEAN]
    /\ pending \in BOOLEAN
    /\ pending => Len(window) > 0
    /\ snapshot.fresh => Cardinality(Counted(window)) <= snapshot.remediations
    /\ ~ snapshot.fresh => \A k \in DOMAIN window : ~ window[k].saved

LEMMA CountedIsFinite ==
    ASSUME NEW w \in Seq(RunFacts)
    PROVE  /\ IsFiniteSet(Counted(w)) /\ Cardinality(Counted(w)) \in Nat
           /\ DOMAIN w = 1..Len(w) /\ Len(w) \in Nat
<1>1. DOMAIN w = 1..Len(w) /\ Len(w) \in Nat
  OBVIOUS
<1>2. IsFiniteSet(1..Len(w))
  BY <1>1, FS_Interval
<1>3. Counted(w) \subseteq 1..Len(w)
  BY <1>1 DEF Counted
<1> QED
  BY <1>1, <1>2, <1>3, FS_Subset, FS_CardinalityType

(* A window whose runs are recorded as before, but for a new one at the    *)
(* end that has no snapshot yet, counts the same runs.                     *)
LEMMA NewRunUncounted ==
    ASSUME NEW w \in Seq(RunFacts), NEW v \in Seq(RunFacts),
           Len(v) = Len(w) + 1, ~ v[Len(v)].saved,
           \A k \in DOMAIN w : /\ v[k].remediated = w[k].remediated
                               /\ v[k].saved = w[k].saved
    PROVE  /\ Counted(v) = Counted(w)
           /\ (\A k \in DOMAIN w : ~ w[k].saved) => \A k \in DOMAIN v : ~ v[k].saved
<1>1. /\ DOMAIN w = 1..Len(w) /\ Len(w) \in Nat /\ DOMAIN v = 1..(Len(w) + 1)
  OBVIOUS
<1>2. \A k \in DOMAIN v : k \in DOMAIN w \/ k = Len(v)
  BY <1>1
<1> QED
  BY <1>1, <1>2 DEF Counted

(* Pruning touches only whether a run's file is there.                     *)
LEMMA PrunedFacts ==
    ASSUME NEW w \in Seq(RunFacts), NEW v, v = Pruned(w)
    PROVE  /\ v \in Seq(RunFacts) /\ Len(v) = Len(w)
           /\ \A k \in DOMAIN w : /\ v[k].remediated = w[k].remediated
                                  /\ v[k].saved = w[k].saved
<1>1. DOMAIN w = 1..Len(w) /\ Len(w) \in Nat
  OBVIOUS
<1>2. ASSUME NEW k \in DOMAIN w
      PROVE  /\ v[k] \in RunFacts
             /\ v[k].remediated = w[k].remediated /\ v[k].saved = w[k].saved
  <2>1. w[k] \in RunFacts
    OBVIOUS
  <2>2. PICK f \in BOOLEAN :
          f = (w[k].filed /\ Cardinality({j \in Filed(w) : j > k}) < keep)
    OBVIOUS
  <2>3. v[k] = [w[k] EXCEPT !.filed = f]
    BY <2>2 DEF Pruned
  <2> QED
    BY <2>1, <2>3 DEF RunFacts
<1>3. v \in [1..Len(w) -> RunFacts]
  BY <1>1, <1>2 DEF Pruned
<1>4. v \in Seq(RunFacts) /\ Len(v) = Len(w)
  BY <1>1, <1>3
<1> QED
  BY <1>2, <1>4

(* A run ends, with or without a results file.                             *)
LEMMA RunEnds ==
    ASSUME WindowInv, NEW v \in Seq(RunFacts), window' = v, snapshot' = snapshot,
           pending' = TRUE, Len(v) = Len(window) + 1, ~ v[Len(v)].saved,
           \A k \in DOMAIN window : /\ v[k].remediated = window[k].remediated
                                    /\ v[k].saved = window[k].saved
    PROVE  WindowInv'
<1>1. PICK w \in Seq(RunFacts) : w = window
  BY DEF WindowInv
<1>2. Counted(v) = Counted(w)
      /\ ((\A k \in DOMAIN w : ~ w[k].saved) => \A k \in DOMAIN v : ~ v[k].saved)
  BY <1>1, NewRunUncounted
<1>3. Len(v) > 0
  BY <1>1
<1> QED
  BY <1>1, <1>2, <1>3 DEF WindowInv

LEMMA AppendFacts ==
    ASSUME NEW w \in Seq(RunFacts), NEW n \in RunFacts, NEW v, v = Append(w, n)
    PROVE  /\ v \in Seq(RunFacts) /\ Len(v) = Len(w) + 1 /\ v[Len(w) + 1] = n
           /\ Len(w) + 1 \in DOMAIN v
           /\ \A k \in DOMAIN w : v[k] = w[k] /\ k \in DOMAIN v
OBVIOUS

LEMMA FinishRunKeeps ==
    ASSUME WindowInv, NEW e, NEW r \in BOOLEAN, FinishRun(e, r)
    PROVE  WindowInv'
<1>1. PICK w \in Seq(RunFacts) : w = window
  BY DEF WindowInv
<1>2. PICK n : n = [remediated |-> r, filed |-> TRUE, saved |-> FALSE]
  OBVIOUS
<1>3. n \in RunFacts /\ n.saved = FALSE
  BY <1>2 DEF RunFacts
<1>4. PICK u : u = Append(w, n)
  OBVIOUS
<1>5. /\ u \in Seq(RunFacts) /\ Len(u) = Len(w) + 1 /\ u[Len(w) + 1] = n
      /\ Len(w) + 1 \in DOMAIN u
      /\ \A k \in DOMAIN w : u[k] = w[k] /\ k \in DOMAIN u
  BY <1>3, <1>4, AppendFacts
<1>6. PICK v : v = Pruned(u)
  OBVIOUS
<1>7. /\ v \in Seq(RunFacts) /\ Len(v) = Len(u)
      /\ \A k \in DOMAIN u : /\ v[k].remediated = u[k].remediated
                             /\ v[k].saved = u[k].saved
  BY <1>5, <1>6, PrunedFacts
<1>8. window' = v /\ snapshot' = snapshot /\ pending' = TRUE
  BY <1>1, <1>2, <1>4, <1>6 DEF FinishRun
<1>9. v[Len(v)].saved = FALSE
  BY <1>3, <1>5, <1>7
<1>10. \A k \in DOMAIN window : /\ v[k].remediated = window[k].remediated
                                /\ v[k].saved = window[k].saved
  BY <1>1, <1>5, <1>7
<1>11. Len(v) = Len(window) + 1 /\ ~ v[Len(v)].saved
  BY <1>1, <1>5, <1>7, <1>9
<1> QED
  BY <1>7, <1>8, <1>10, <1>11, RunEnds

LEMMA FinishRunUnfiledKeeps ==
    ASSUME WindowInv, NEW r \in BOOLEAN, FinishRunUnfiled(r)
    PROVE  WindowInv'
<1>1. PICK w \in Seq(RunFacts) : w = window
  BY DEF WindowInv
<1>2. PICK n : n = [remediated |-> r, filed |-> FALSE, saved |-> FALSE]
  OBVIOUS
<1>3. n \in RunFacts /\ n.saved = FALSE
  BY <1>2 DEF RunFacts
<1>4. PICK u : u = Append(w, n)
  OBVIOUS
<1>5. /\ u \in Seq(RunFacts) /\ Len(u) = Len(w) + 1 /\ u[Len(w) + 1] = n
      /\ \A k \in DOMAIN w : u[k] = w[k]
  BY <1>3, <1>4, AppendFacts
<1>6. window' = u /\ snapshot' = snapshot /\ pending' = TRUE
  BY <1>1, <1>2, <1>4 DEF FinishRunUnfiled
<1>7. Len(u) = Len(window) + 1 /\ ~ u[Len(u)].saved
  BY <1>1, <1>3, <1>5
<1> QED
  BY <1>1, <1>5, <1>6, <1>7, RunEnds

(* The run whose snapshot is taken joins the count, and the count goes up  *)
(* with it.                                                                *)
LEMMA PersistSnapshotKeeps ==
    ASSUME WindowInv, PersistSnapshot
    PROVE  WindowInv'
<1>1. PICK w \in Seq(RunFacts) : w = window
  BY DEF WindowInv
<1>2. PICK n : n = Len(w)
  OBVIOUS
<1>3. n \in DOMAIN w /\ n \in Nat /\ DOMAIN w = 1..n /\ w[n] \in RunFacts
  BY <1>1, <1>2 DEF PersistSnapshot, WindowInv
<1>4. PICK v : v = [w EXCEPT ![n].saved = TRUE]
  OBVIOUS
<1>5. /\ v \in Seq(RunFacts) /\ Len(v) = n /\ DOMAIN v = DOMAIN w
      /\ v[n] = [w[n] EXCEPT !.saved = TRUE]
      /\ \A k \in DOMAIN w : k # n => v[k] = w[k]
  <2>1. [w[n] EXCEPT !.saved = TRUE] \in RunFacts
    BY <1>3 DEF RunFacts
  <2>2. /\ v[n] = [w[n] EXCEPT !.saved = TRUE] /\ DOMAIN v = DOMAIN w
        /\ \A k \in DOMAIN w : k # n => v[k] = w[k]
    BY <1>3, <1>4
  <2>3. v \in [1..n -> RunFacts]
    BY <1>3, <1>4, <2>1, <2>2
  <2> QED
    BY <1>3, <2>2, <2>3
<1>6. /\ window' = v /\ pending' = FALSE /\ snapshot'.fresh = TRUE
      /\ snapshot'.remediations = Carried + (IF w[n].remediated THEN 1 ELSE 0)
      /\ snapshot' = [remediations |-> snapshot'.remediations, fresh |-> TRUE]
  BY <1>1, <1>2, <1>4 DEF PersistSnapshot, Last
<1>7. Carried \in Nat /\ Cardinality(Counted(w)) <= Carried
      /\ Cardinality(Counted(w)) \in Nat /\ IsFiniteSet(Counted(w))
  <2>1. CASE snapshot.fresh
    BY <1>1, <2>1, CountedIsFinite DEF WindowInv, Carried
  <2>2. CASE ~ snapshot.fresh
    <3>1. Counted(w) = {}
      BY <1>1, <2>2 DEF WindowInv, Counted
    <3>2. Cardinality(Counted(w)) = 0
      BY <3>1, FS_EmptySet
    <3> QED
      BY <2>2, <3>2, CountedIsFinite DEF Carried
  <2> QED
    BY <2>1, <2>2
<1>8. w[n].remediated \in BOOLEAN /\ v[n].remediated = w[n].remediated
  BY <1>3, <1>5 DEF RunFacts
<1>9. CASE w[n].remediated
  <2>1. Counted(v) \subseteq Counted(w) \cup {n}
    BY <1>5 DEF Counted
  <2>2. /\ IsFiniteSet(Counted(w) \cup {n})
        /\ Cardinality(Counted(w) \cup {n}) <= Cardinality(Counted(w)) + 1
    <3>1. PICK C : C = Counted(w)
      OBVIOUS
    <3>2. /\ IsFiniteSet(C \cup {n})
          /\ Cardinality(C \cup {n}) \in {Cardinality(C), Cardinality(C) + 1}
      BY <1>7, <3>1, FS_AddElement
    <3>3. Cardinality(C) \in Nat
      BY <1>7, <3>1
    <3>4. Cardinality(C \cup {n}) <= Cardinality(C) + 1
      BY <3>2, <3>3
    <3> QED
      BY <3>1, <3>2, <3>4
  <2>3. Cardinality(Counted(v)) <= Cardinality(Counted(w) \cup {n})
    BY <2>1, <2>2, FS_Subset
  <2>4. Cardinality(Counted(v)) \in Nat /\ Cardinality(Counted(w) \cup {n}) \in Nat
    BY <1>5, <2>2, CountedIsFinite, FS_CardinalityType
  <2>5. snapshot'.remediations = Carried + 1
    BY <1>6, <1>9
  <2>6. Cardinality(Counted(v)) <= snapshot'.remediations
        /\ snapshot'.remediations \in Nat
    BY <1>7, <2>2, <2>3, <2>4, <2>5
  <2> QED
    BY <1>5, <1>6, <2>6 DEF WindowInv
<1>10. CASE ~ w[n].remediated
  <2>1. Counted(v) = Counted(w)
    BY <1>5, <1>8, <1>10 DEF Counted
  <2>2. snapshot'.remediations = Carried
    BY <1>6, <1>7, <1>10
  <2>3. Cardinality(Counted(v)) <= snapshot'.remediations
        /\ snapshot'.remediations \in Nat
    BY <1>7, <2>1, <2>2
  <2> QED
    BY <1>5, <1>6, <2>3 DEF WindowInv
<1> QED
  BY <1>9, <1>10

(* The oldest run leaves: the count of the rest is no greater.             *)
LEMMA RunAgesKeeps ==
    ASSUME WindowInv, RunAges
    PROVE  WindowInv'
<1>1. PICK w \in Seq(RunFacts) : w = window
  BY DEF WindowInv
<1>2. PICK v : v = Tail(w)
  OBVIOUS
<1>3. /\ Len(w) > 0 /\ Len(w) \in Nat /\ DOMAIN w = 1..Len(w)
      /\ pending => Len(w) > 1
  BY <1>1 DEF RunAges, WindowInv
<1>4. /\ v \in Seq(RunFacts) /\ Len(v) = Len(w) - 1 /\ DOMAIN v = 1..(Len(w) - 1)
      /\ \A k \in DOMAIN v : v[k] = w[k + 1] /\ k + 1 \in DOMAIN w
  BY <1>2, <1>3
<1>5. window' = v /\ pending' = pending /\ snapshot' = snapshot
  BY <1>1, <1>2 DEF RunAges
<1>6. Cardinality(Counted(v)) <= Cardinality(Counted(w))
  <2>1. PICK f : f = [k \in Counted(v) |-> k + 1]
    OBVIOUS
  <2>2. \A k \in Counted(v) : k \in Nat /\ k + 1 \in Counted(w)
    BY <1>4 DEF Counted
  <2>3. f \in [Counted(v) -> Counted(w)]
    BY <2>1, <2>2
  <2>4. \A a, b \in Counted(v) : f[a] = f[b] => a = b
    BY <2>1, <2>2
  <2>5. IsFiniteSet(Counted(w)) /\ IsFiniteSet(Counted(v))
    BY <1>4, CountedIsFinite
  <2>6. f \in Injection(Counted(v), Counted(w))
    BY <2>3, <2>4 DEF Injection, IsInjective
  <2> QED
    BY <2>5, <2>6, FS_Injection
<1>7. /\ Cardinality(Counted(v)) \in Nat /\ Cardinality(Counted(w)) \in Nat
  BY <1>4, CountedIsFinite
<1>8. snapshot.fresh => Cardinality(Counted(v)) <= snapshot.remediations
  BY <1>1, <1>6, <1>7 DEF WindowInv
<1>9. ~ snapshot.fresh => \A k \in DOMAIN v : ~ v[k].saved
  BY <1>1, <1>4 DEF WindowInv
<1>10. pending => Len(v) > 0
  BY <1>3, <1>4
<1> QED
  BY <1>4, <1>5, <1>8, <1>9, <1>10 DEF WindowInv

LEMMA WindowNext == WindowInv /\ [Next]_vars => WindowInv'
<1> SUFFICES ASSUME WindowInv, [Next]_vars PROVE WindowInv'
  OBVIOUS
<1>1. ASSUME NEW e, NEW r \in BOOLEAN, FinishRun(e, r) PROVE WindowInv'
  BY <1>1, FinishRunKeeps
<1>2. ASSUME NEW r \in BOOLEAN, FinishRunUnfiled(r) PROVE WindowInv'
  BY <1>2, FinishRunUnfiledKeeps
<1>3. CASE PersistSnapshot
  BY <1>3, PersistSnapshotKeeps
<1>4. CASE LosesSnapshot
  BY <1>4 DEF LosesSnapshot, WindowInv
<1>5. CASE RunAges
  BY <1>5, RunAgesKeeps
<1>6. CASE SnapshotAges
  BY <1>6 DEF SnapshotAges, WindowInv
<1>7. CASE UNCHANGED vars
  BY <1>7 DEF vars, WindowInv
<1> QED
  BY <1>1, <1>2, <1>3, <1>4, <1>5, <1>6, <1>7 DEF Next

(* The inductive invariant of the metrics snapshot                         *)
(* (persist_metrics_snapshot): what it carries over covers every run of    *)
(* the window whose snapshot was taken.                                    *)
THEOREM WindowInvariant == Spec => []WindowInv
<1>1. Init => WindowInv
  <2> SUFFICES ASSUME Init PROVE WindowInv
    OBVIOUS
  <2>1. /\ window = <<>> /\ pending = FALSE
        /\ snapshot = [remediations |-> 0, fresh |-> FALSE]
    BY DEF Init
  <2>2. window \in Seq(RunFacts) /\ DOMAIN window = {}
    BY <2>1
  <2> QED
    BY <2>1, <2>2 DEF WindowInv
<1> QED
  BY <1>1, WindowNext, PTL DEF Spec

(* Whoever reads the metrics is told of every run of the window whose      *)
(* remediation reached a snapshot (collect_metrics,                        *)
(* persist_metrics_snapshot), for any retention and any window.            *)
THEOREM RemediationsAreCounted == Spec => []RemediationsNotLost
<1>1. WindowInv => RemediationsNotLost
  <2> SUFFICES ASSUME WindowInv PROVE RemediationsNotLost
    OBVIOUS
  <2>1. Counted(window) = {k \in DOMAIN window : window[k].remediated /\ window[k].saved}
        /\ Cardinality(Counted(window)) \in Nat
    BY CountedIsFinite DEF Counted, WindowInv
  <2>2. PICK F : F = {k \in Filed(window) : window[k].remediated}
    OBVIOUS
  <2>3. Cardinality(F) \in Nat
    <3>1. DOMAIN window = 1..Len(window) /\ Len(window) \in Nat
      BY DEF WindowInv
    <3>2. IsFiniteSet(1..Len(window)) /\ F \subseteq 1..Len(window)
      BY <2>2, <3>1, FS_Interval DEF Filed
    <3> QED
      BY <3>2, FS_Subset, FS_CardinalityType
  <2>4. Carried \in Nat /\ Cardinality(Counted(window)) <= Carried
    <3>1. CASE snapshot.fresh
      BY <3>1 DEF WindowInv, Carried
    <3>2. CASE ~ snapshot.fresh
      <4>1. Counted(window) = {}
        BY <3>2 DEF WindowInv, Counted
      <4>2. Cardinality(Counted(window)) = 0
        BY <4>1, FS_EmptySet
      <4> QED
        BY <3>2, <4>2 DEF Carried
    <3> QED
      BY <3>1, <3>2
  <2>5. total_remediations_24h = Max({Carried, Cardinality(F)})
    BY <2>2 DEF total_remediations_24h
  <2>6. total_remediations_24h \in Nat /\ total_remediations_24h >= Carried
    BY <2>3, <2>4, <2>5, MaxOfTwo
  <2> QED
    BY <2>1, <2>4, <2>6 DEF RemediationsNotLost
<1> QED
  BY <1>1, WindowInvariant, PTL

-----------------------------------------------------------------------------
(* The history: what the persisted runs say of an installer.               *)

(* The places of a list of runs.                                           *)
Runs == Seq(Entries \cup {Absent})

LEMMA ConsideredFacts ==
    ASSUME NEW R \in Runs
    PROVE  /\ Len(R) \in Nat /\ DOMAIN R = 1..Len(R)
           /\ Considered(R) = {k \in 1..Len(R) : R[k].status \in {"passed", "failed", "timedout"}}
<1>1. Len(R) \in Nat /\ DOMAIN R = 1..Len(R) /\ \A k \in 1..Len(R) : R[k] \in Entries \cup {Absent}
  BY DEF Runs
<1>2. ASSUME NEW k \in 1..Len(R)
      PROVE  k \in Considered(R) <=> R[k].status \in {"passed", "failed", "timedout"}
  <2>1. CASE R[k] = Absent
    <3>1. R[k].status = "missing"
      BY <2>1 DEF Absent, Missing
    <3> QED
      BY <2>1, <3>1 DEF Considered, installer_timeline
  <2>2. CASE R[k] # Absent
    <3>1. R[k].status \in {"passed", "failed", "timedout", "cancelled", "skipped"}
      BY <1>1, <2>2, EntriesAssumption DEF Statuses
    <3> QED
      BY <1>1, <2>2, <3>1 DEF Considered, installer_timeline
  <2> QED
    BY <2>1, <2>2
<1>3. Considered(R) \subseteq 1..Len(R)
  BY <1>1 DEF Considered, installer_timeline
<1> QED
  BY <1>1, <1>2, <1>3

LEMMA SeriesFacts ==
    ASSUME NEW R \in Runs
    PROVE  /\ Hashed(R) \subseteq Considered(R) /\ HashChanges(R) \subseteq Hashed(R)
           /\ Series(R) \subseteq Considered(R) /\ Considered(R) \subseteq 1..Len(R)
           /\ \A k \in Series(R), c \in HashChanges(R) : c <= k
           /\ \A j \in Series(R), k \in Considered(R) : j <= k => k \in Series(R)
<1>1. Considered(R) \subseteq 1..Len(R) /\ Len(R) \in Nat
  BY ConsideredFacts
<1>2. Hashed(R) \subseteq Considered(R) /\ HashChanges(R) \subseteq Hashed(R)
  BY DEF Hashed, HashChanges
<1>3. \A k : k \in Series(R) <=> k \in Considered(R) /\ \A c \in HashChanges(R) : c <= k
  BY DEF Series
<1>4. ASSUME NEW j \in Series(R), NEW k \in Considered(R), j <= k PROVE k \in Series(R)
  <2>1. ASSUME NEW c \in HashChanges(R) PROVE c <= k
    <3>1. c <= j /\ c \in Nat /\ j \in Nat /\ k \in Nat
      BY <1>1, <1>2, <1>3
    <3> QED
      BY <1>4, <3>1
  <2> QED
    BY <1>3, <2>1
<1> QED
  BY <1>1, <1>2, <1>3, <1>4

(* The series has one script: where two hashes differ there is a change    *)
(* between them.                                                           *)
LEMMA OneScriptInSeries ==
    ASSUME NEW R \in Runs, NEW j \in Hashed(R), NEW k \in Hashed(R), j < k,
           R[j].sha # R[k].sha
    PROVE  \E c \in HashChanges(R) : j < c /\ c <= k
<1>0. Len(R) \in Nat /\ Hashed(R) \subseteq 1..Len(R)
  BY ConsideredFacts, SeriesFacts
<1> DEFINE S == {m \in Hashed(R) : j < m /\ R[m].sha # R[j].sha}
<1>1. S \subseteq Nat /\ k \in S
  BY <1>0
<1>2. PICK c \in S : \A m \in S : c <= m
  BY <1>1, LeastExists
<1>3. c \in Hashed(R) /\ j < c /\ c <= k /\ R[c].sha # R[j].sha /\ c \in Nat
  BY <1>0, <1>1, <1>2
<1> DEFINE P == {m \in Hashed(R) : m < c}
<1>4. P \subseteq 0..Len(R) /\ j \in P
  BY <1>0, <1>3
<1>5. PICK p \in P : \A m \in P : m <= p
  BY <1>0, <1>4, GreatestExists
<1>6. p \in Hashed(R) /\ p < c /\ j <= p /\ p \in Nat /\ j \in Nat
  BY <1>0, <1>4, <1>5
<1>7. R[p].sha = R[j].sha
  <2> SUFFICES ASSUME R[p].sha # R[j].sha PROVE FALSE
    OBVIOUS
  <2>1. p # j
    OBVIOUS
  <2>2. p \in S
    BY <1>6, <2>1
  <2> HIDE DEF S, P
  <2> QED
    BY <1>2, <1>3, <1>6, <2>2
<1>8. \A m \in Hashed(R) : m <= p \/ c <= m
  <2> SUFFICES ASSUME NEW m \in Hashed(R), ~(c <= m) PROVE m <= p
    OBVIOUS
  <2>1. m \in Nat /\ m < c
    BY <1>0, <1>3
  <2>2. m \in P
    BY <2>1
  <2> QED
    BY <1>5, <2>2
<1>9. c \in HashChanges(R)
  BY <1>3, <1>6, <1>7, <1>8 DEF HashChanges
<1> QED
  BY <1>3, <1>9

LEMMA SeriesOneScript ==
    ASSUME NEW R \in Runs, NEW j \in Series(R), NEW k \in Series(R),
           R[j].sha # Missing, R[k].sha # Missing
    PROVE  R[j].sha = R[k].sha
<1>1. j \in Hashed(R) /\ k \in Hashed(R) /\ j \in Nat /\ k \in Nat
  BY ConsideredFacts, SeriesFacts DEF Hashed
<1>2. ASSUME NEW x \in Series(R), NEW y \in Series(R), x \in Hashed(R), y \in Hashed(R),
             x < y, R[x].sha # R[y].sha
      PROVE  FALSE
  <2>1. PICK c \in HashChanges(R) : x < c /\ c <= y
    BY <1>2, OneScriptInSeries
  <2>2. c <= x /\ c \in Nat /\ x \in Nat
    BY <1>2, <2>1, ConsideredFacts, SeriesFacts
  <2> QED
    BY <2>1, <2>2
<1> QED
  BY <1>1, <1>2

-----------------------------------------------------------------------------
(* The CUSUM loop over the first N runs.                                   *)
Loops(R, N, f) ==
    f = [n \in 0..N |-> IF n = 0 THEN CusumStart
                        ELSE IF n \in Series(R) THEN CusumStep(f[n - 1], n, Passed(R, n))
                        ELSE f[n - 1]]

LEMMA LoopExists ==
    ASSUME NEW R
    PROVE  \A N \in Nat : \E f : Loops(R, N, f)
<1> DEFINE B == {N \in Nat : \E f : Loops(R, N, f)}
<1>1. 0 \in B
  <2>1. Loops(R, 0, [n \in 0..0 |-> CusumStart])
    BY DEF Loops
  <2> QED
    BY <2>1
<1>2. ASSUME NEW N \in B PROVE N + 1 \in B
  <2>1. PICK f : Loops(R, N, f)
    OBVIOUS
  <2> DEFINE step(h, n) == IF n \in Series(R) THEN CusumStep(h[n - 1], n, Passed(R, n))
                           ELSE h[n - 1]
             g == [n \in 0..(N + 1) |-> IF n <= N THEN f[n] ELSE step(f, n)]
             h == [n \in 0..(N + 1) |-> IF n = 0 THEN CusumStart ELSE step(g, n)]
  <2>2. ASSUME NEW n \in 0..(N + 1) PROVE g[n] = h[n]
    <3>0. n \in Nat /\ N \in Nat /\ (n # 0 => n - 1 \in 0..N /\ n - 1 \in 0..(N + 1))
      OBVIOUS
    <3>1. n # 0 => g[n - 1] = f[n - 1]
      BY <3>0
    <3>2. n <= N => g[n] = f[n] /\ n \in 0..N
      BY <3>0
    <3>3. n <= N => f[n] = IF n = 0 THEN CusumStart ELSE step(f, n)
      BY <2>1, <3>2 DEF Loops
    <3>4. ~(n <= N) => n # 0 /\ g[n] = step(f, n)
      BY <3>0
    <3>5. h[n] = IF n = 0 THEN CusumStart ELSE step(g, n)
      OBVIOUS
    <3>6. n # 0 => step(g, n) = step(f, n)
      <4>1. n # 0 => g[n - 1] = f[n - 1]
        BY <3>1
      <4> HIDE DEF g, h
      <4> QED
        BY <4>1, Zenon
    <3> HIDE DEF g, h, step
    <3> QED
      BY <3>0, <3>2, <3>3, <3>4, <3>5, <3>6
  <2>3. g = h
    <3>1. DOMAIN g = 0..(N + 1) /\ DOMAIN h = 0..(N + 1) /\ g = [n \in DOMAIN g |-> g[n]]
          /\ h = [n \in DOMAIN h |-> h[n]]
      OBVIOUS
    <3> HIDE DEF g, h, step
    <3> QED
      BY <2>2, <3>1
  <2>4. Loops(R, N + 1, g)
    BY <2>3, Zenon DEF Loops
  <2> HIDE DEF g, h, step
  <2> QED
    BY <2>4
<1> HIDE DEF B
<1>3. B \subseteq Nat
  BY DEF B
<1>4. B = Nat
  BY <1>1, <1>2, <1>3, NatInductionSet
<1> QED
  BY <1>4 DEF B

LEMMA CusumLoops ==
    ASSUME NEW R, Len(R) \in Nat
    PROVE  Loops(R, Len(R), Cusum(R))
<1>1. \E g : g = [n \in 0..Len(R) |-> IF n = 0 THEN CusumStart
                        ELSE IF n \in Series(R) THEN CusumStep(g[n - 1], n, Passed(R, n))
                        ELSE g[n - 1]]
  <2>1. PICK g : Loops(R, Len(R), g)
    BY LoopExists
  <2> QED
    BY <2>1, Zenon DEF Loops
<1> DEFINE f == CHOOSE g :
                  g = [n \in 0..Len(R) |-> IF n = 0 THEN CusumStart
                        ELSE IF n \in Series(R) THEN CusumStep(g[n - 1], n, Passed(R, n))
                        ELSE g[n - 1]]
<1>2. f = [n \in 0..Len(R) |-> IF n = 0 THEN CusumStart
                        ELSE IF n \in Series(R) THEN CusumStep(f[n - 1], n, Passed(R, n))
                        ELSE f[n - 1]]
  BY <1>1, Zenon
<1>3. Cusum(R) = f
  BY Zenon DEF Cusum
<1> HIDE DEF f
<1> QED
  BY <1>2, <1>3, Zenon DEF Loops

(* One outcome, when the statistic is below the threshold unless it has    *)
(* been crossed.                                                           *)
Below(acc) ==
    /\ acc \in [stat : Nat, crossed_at : Nat]
    /\ acc.crossed_at = 0 => acc.stat < 6

OnPass(acc, new) ==
    /\ new.crossed_at = 0
    /\ new.stat = IF acc.crossed_at # 0 \/ acc.stat = 0 THEN 0 ELSE acc.stat - 1
OnFail(acc, new, n) ==
    /\ new.stat = acc.stat + 2
    /\ new.crossed_at = IF acc.crossed_at # 0 THEN acc.crossed_at
                        ELSE IF acc.stat >= 4 THEN n ELSE 0

LEMMA StepFacts ==
    ASSUME NEW acc, Below(acc), NEW n \in Nat \ {0}, NEW p \in BOOLEAN, NEW new,
           new = CusumStep(acc, n, p)
    PROVE  Below(new) /\ (p => OnPass(acc, new)) /\ (~p => OnFail(acc, new, n))
<1>1. PICK s, c : s = acc.stat /\ c = acc.crossed_at
  OBVIOUS
<1>2. s \in Nat /\ c \in Nat /\ (c = 0 => s < 6)
  BY <1>1 DEF Below
<1>3. CASE p
  <2>1. Moved(s, p) = IF s = 0 THEN 0 ELSE s - 1
    BY <1>2, <1>3 DEF Moved, CUSUM_PASS, CUSUM_FAIL
  <2>2. c = 0 => ~(Moved(s, p) >= CUSUM_THRESHOLD)
    BY <1>2, <2>1 DEF CUSUM_THRESHOLD
  <2>3. CASE c # 0
    <3>1. new = CusumStart
      BY <1>1, <1>3, <2>3, Zenon DEF CusumStep
    <3>2. new.stat = 0 /\ new.crossed_at = 0 /\ new \in [stat : Nat, crossed_at : Nat]
      BY <3>1 DEF CusumStart
    <3>3. Below(new) /\ OnPass(acc, new)
      BY <1>1, <2>3, <3>2 DEF Below, OnPass
    <3> QED
      BY <1>3, <3>3
  <2>4. CASE c = 0
    <3>1. new = [stat |-> Moved(s, p), crossed_at |-> 0]
      BY <1>1, <1>3, <2>2, <2>4, Zenon DEF CusumStep
    <3>2. /\ new.stat = (IF s = 0 THEN 0 ELSE s - 1) /\ new.crossed_at = 0
          /\ new \in [stat : Nat, crossed_at : Nat] /\ new.stat < 6
      BY <1>2, <2>1, <2>4, <3>1
    <3>3. Below(new) /\ OnPass(acc, new)
      BY <1>1, <2>4, <3>2 DEF Below, OnPass
    <3> QED
      BY <1>3, <3>3
  <2> QED
    BY <2>3, <2>4
<1>4. CASE ~p
  <2>1. Moved(s, p) = s + 2
    BY <1>2, <1>4 DEF Moved, CUSUM_PASS, CUSUM_FAIL
  <2>2. new = [stat |-> Moved(s, p),
               crossed_at |-> IF Moved(s, p) >= CUSUM_THRESHOLD /\ c = 0 THEN n ELSE c]
    BY <1>1, <1>4, Zenon DEF CusumStep
  <2>3. /\ new.stat = s + 2
        /\ new.crossed_at = (IF c # 0 THEN c ELSE IF s >= 4 THEN n ELSE 0)
        /\ new \in [stat : Nat, crossed_at : Nat]
    BY <1>2, <2>1, <2>2 DEF CUSUM_THRESHOLD
  <2>4. Below(new) /\ OnFail(acc, new, n)
    BY <1>1, <1>2, <2>3 DEF Below, OnFail
  <2> QED
    BY <1>4, <2>4
<1> QED
  BY <1>3, <1>4

LEMMA LoopStep ==
    ASSUME NEW R, NEW N \in Nat, NEW f, Loops(R, N, f), NEW n \in 1..N, Below(f[n - 1])
    PROVE  /\ Below(f[n])
           /\ n \notin Series(R) => f[n] = f[n - 1]
           /\ n \in Series(R) /\ Passed(R, n) => OnPass(f[n - 1], f[n])
           /\ n \in Series(R) /\ ~Passed(R, n) => OnFail(f[n - 1], f[n], n)
<1>1. n \in 0..N /\ n # 0 /\ n \in Nat \ {0}
  OBVIOUS
<1>2. PICK p \in BOOLEAN : p = Passed(R, n)
  <2>1. Passed(R, n) \in BOOLEAN
    BY DEF Passed
  <2> QED
    BY <2>1, Zenon
<1>3. f[n] = IF n \in Series(R) THEN CusumStep(f[n - 1], n, p) ELSE f[n - 1]
  <2>1. f[n] = IF n \in Series(R) THEN CusumStep(f[n - 1], n, Passed(R, n)) ELSE f[n - 1]
    <3>1. f = [m \in 0..N |-> IF m = 0 THEN CusumStart
                        ELSE IF m \in Series(R) THEN CusumStep(f[m - 1], m, Passed(R, m))
                        ELSE f[m - 1]]
      BY Zenon DEF Loops
    <3> QED
      BY <1>1, <3>1, Zenon
  <2> QED
    BY <1>2, <2>1, Zenon
<1>4. CASE n \in Series(R)
  <2>1. Below(f[n]) /\ (p => OnPass(f[n - 1], f[n])) /\ (~p => OnFail(f[n - 1], f[n], n))
    BY <1>1, <1>3, <1>4, StepFacts
  <2> QED
    BY <1>2, <1>4, <2>1, Zenon
<1>5. CASE n \notin Series(R)
  BY <1>3, <1>5
<1> QED
  BY <1>4, <1>5

(* What the loop knows after the first n runs.                             *)
FailFrom(R, a, n) == \A k \in Series(R) : a <= k /\ k <= n => ~Passed(R, k)
Knows(R, n, acc) ==
    /\ Below(acc)
    /\ acc.crossed_at # 0 => /\ acc.crossed_at \in Series(R) /\ acc.crossed_at <= n
                             /\ FailFrom(R, acc.crossed_at, n)
    /\ \A a \in Series(R) : a <= n /\ FailFrom(R, a, n) => acc.stat >= 2
    /\ \A a, b \in Series(R) : a < b /\ b <= n /\ FailFrom(R, a, n) => acc.stat >= 4
    /\ \A a, b, c \in Series(R) : a < b /\ b < c /\ c <= n /\ FailFrom(R, a, n) =>
         acc.stat >= 6

LEMMA LoopKnows ==
    ASSUME NEW R \in Runs, NEW f, Loops(R, Len(R), f)
    PROVE  \A n \in 0..Len(R) : Knows(R, n, f[n])
<1>0. Len(R) \in Nat /\ Series(R) \subseteq 1..Len(R)
  BY ConsideredFacts, SeriesFacts
<1> DEFINE B == {n \in Nat : n <= Len(R) => Knows(R, n, f[n])}
<1>1. 0 \in B
  <2>1. f[0] = CusumStart
    BY <1>0 DEF Loops
  <2>2. f[0].stat = 0 /\ f[0].crossed_at = 0 /\ f[0] \in [stat : Nat, crossed_at : Nat]
    BY <2>1 DEF CusumStart
  <2>3. \A a \in Series(R) : a \in Nat /\ ~(a <= 0)
    BY <1>0
  <2>4. Knows(R, 0, f[0])
    BY <2>2, <2>3 DEF Knows, Below
  <2> QED
    BY <2>4
<1>2. ASSUME NEW m \in B PROVE m + 1 \in B
  <2> SUFFICES ASSUME m + 1 <= Len(R) PROVE Knows(R, m + 1, f[m + 1])
    OBVIOUS
  <2>1. PICK n \in 1..Len(R) : n = m + 1 /\ n - 1 = m /\ m \in Nat
    BY <1>0
  <2>2. Knows(R, m, f[m])
    BY <1>0, <2>1
  <2>3. /\ Below(f[n])
        /\ n \notin Series(R) => f[n] = f[m]
        /\ n \in Series(R) /\ Passed(R, n) => OnPass(f[m], f[n])
        /\ n \in Series(R) /\ ~Passed(R, n) => OnFail(f[m], f[n], n)
    <3>1. Below(f[n - 1])
      BY <2>1, <2>2 DEF Knows
    <3> HIDE DEF B
    <3> QED
      BY <1>0, <2>1, <3>1, LoopStep
  <2> HIDE DEF B
  <2>4. PICK acc, new : acc = f[m] /\ new = f[n]
    OBVIOUS
  <2>5. \A k \in Series(R) : k \in Nat /\ (k <= n <=> k <= m \/ k = n)
    BY <1>0, <2>1
  <2>6. acc.stat \in Nat /\ acc.crossed_at \in Nat /\ Below(acc) /\ new.crossed_at \in Nat
        /\ Below(new)
    BY <2>2, <2>3, <2>4 DEF Knows, Below
  <2>7. \A a : FailFrom(R, a, n) => FailFrom(R, a, m)
    BY <2>5 DEF FailFrom
  <2>8. CASE n \notin Series(R)
    <3>1. \A k \in Series(R) : k \in Nat /\ (k <= n <=> k <= m)
      BY <2>5, <2>8
    <3>2. \A a : FailFrom(R, a, n) <=> FailFrom(R, a, m)
      BY <3>1 DEF FailFrom
    <3>3. new = acc
      BY <2>3, <2>4, <2>8
    <3> QED
      BY <2>1, <2>2, <2>4, <2>6, <3>1, <3>2, <3>3 DEF Knows
  <2>9. CASE n \in Series(R) /\ Passed(R, n)
    <3>1. \A a \in Series(R) : a <= n => ~FailFrom(R, a, n)
      BY <2>1, <2>9 DEF FailFrom
    <3>2. \A a, b \in Series(R) : a < b /\ b <= n => a <= n
      BY <1>0, <2>1
    <3>3. \A a, b, c \in Series(R) : a < b /\ b < c /\ c <= n => a <= n
      BY <1>0, <2>1
    <3>4. new.crossed_at = 0
      BY <2>3, <2>4, <2>9 DEF OnPass
    <3> QED
      BY <2>1, <2>4, <2>6, <3>1, <3>2, <3>3, <3>4 DEF Knows
  <2>10. CASE n \in Series(R) /\ ~Passed(R, n)
    <3>1. OnFail(acc, new, n)
      BY <2>3, <2>4, <2>10
    <3>2. new.stat = acc.stat + 2
      BY <3>1 DEF OnFail
    <3>3. ASSUME NEW a \in Series(R), a <= n PROVE new.stat >= 2
      BY <2>6, <3>2
    <3>4. ASSUME NEW a \in Series(R), NEW b \in Series(R), a < b, b <= n, FailFrom(R, a, n)
          PROVE  new.stat >= 4
      <4>1. a <= m
        BY <2>1, <2>5, <3>4
      <4>2. acc.stat >= 2
        BY <2>2, <2>4, <2>7, <3>4, <4>1 DEF Knows
      <4> QED
        BY <2>6, <3>2, <4>2
    <3>5. ASSUME NEW a \in Series(R), NEW b \in Series(R), NEW c \in Series(R),
                 a < b, b < c, c <= n, FailFrom(R, a, n)
          PROVE  new.stat >= 6
      <4>1. b <= m
        BY <2>1, <2>5, <3>5
      <4>2. acc.stat >= 4
        BY <2>2, <2>4, <2>7, <3>5, <4>1 DEF Knows
      <4> QED
        BY <2>6, <3>2, <4>2
    <3>6. ASSUME new.crossed_at # 0
          PROVE  /\ new.crossed_at \in Series(R) /\ new.crossed_at <= n
                 /\ FailFrom(R, new.crossed_at, n)
      <4>1. CASE acc.crossed_at # 0
        <5>1. new.crossed_at = acc.crossed_at
          BY <3>1, <4>1 DEF OnFail
        <5>2. /\ acc.crossed_at \in Series(R) /\ acc.crossed_at <= m
              /\ FailFrom(R, acc.crossed_at, m)
          BY <2>2, <2>4, <4>1 DEF Knows
        <5>3. FailFrom(R, acc.crossed_at, n)
          BY <2>5, <2>10, <5>2 DEF FailFrom
        <5> QED
          BY <2>5, <5>1, <5>2, <5>3
      <4>2. CASE acc.crossed_at = 0
        <5>1. new.crossed_at = n
          BY <3>1, <3>6, <4>2 DEF OnFail
        <5>2. FailFrom(R, n, n)
          <6>1. \A k \in Series(R) : n <= k /\ k <= n => k = n
            BY <2>1, <2>5
          <6> QED
            BY <2>10, <6>1 DEF FailFrom
        <5> QED
          BY <2>1, <2>10, <5>1, <5>2
      <4> QED
        BY <4>1, <4>2
    <3> QED
      BY <2>1, <2>4, <2>6, <3>3, <3>4, <3>5, <3>6 DEF Knows
  <2> QED
    BY <2>8, <2>9, <2>10
<1> HIDE DEF B
<1>3. B = Nat
  <2>1. B \subseteq Nat
    BY DEF B
  <2> QED
    BY <1>1, <1>2, <2>1, NatInductionSet
<1> QED
  BY <1>0, <1>3 DEF B

-----------------------------------------------------------------------------
(* Three failures at the end of the series cross the threshold, and once   *)
(* it is crossed nothing passes.                                           *)
LEMMA CrossedFacts ==
    ASSUME NEW R \in Runs, NEW at, at = CrossedAt(R)
    PROVE  /\ at \in Nat
           /\ at # 0 => at \in Series(R) /\ at <= Len(R) /\ FailFrom(R, at, Len(R))
           /\ \A a, b, c \in Series(R) : a < b /\ b < c /\ FailFrom(R, a, Len(R)) => at # 0
<1>1. Len(R) \in Nat /\ Series(R) \subseteq 1..Len(R)
  BY ConsideredFacts, SeriesFacts
<1>2. PICK f, acc : f = Cusum(R) /\ acc = f[Len(R)]
  OBVIOUS
<1>3. Loops(R, Len(R), f)
  BY <1>1, <1>2, CusumLoops
<1>4. Knows(R, Len(R), acc)
  BY <1>1, <1>2, <1>3, LoopKnows
<1>5. at = acc.crossed_at
  BY <1>2 DEF CrossedAt
<1>6. at \in Nat /\ acc.stat \in Nat /\ (at = 0 => acc.stat < 6)
  BY <1>4, <1>5 DEF Knows, Below
<1>7. at # 0 => at \in Series(R) /\ at <= Len(R) /\ FailFrom(R, at, Len(R))
  BY <1>4, <1>5 DEF Knows
<1>8. ASSUME NEW a \in Series(R), NEW b \in Series(R), NEW c \in Series(R), a < b, b < c,
             FailFrom(R, a, Len(R))
      PROVE  at # 0
  <2>1. c <= Len(R)
    BY <1>1
  <2>2. acc.stat >= 6
    BY <1>4, <1>8, <2>1 DEF Knows
  <2> QED
    BY <1>6, <2>2
<1> QED
  BY <1>6, <1>7, <1>8

LEMMA StreakFacts ==
    ASSUME NEW R \in Runs, NEW at \in Nat \ {0}, at = CrossedAt(R)
    PROVE  /\ broken_since(R) \in Streak(R, at) /\ Streak(R, at) \subseteq Series(R)
           /\ \A k \in Streak(R, at) :
                broken_since(R) <= k /\ k <= at /\ FailFrom(R, k, Len(R))
           /\ at \in Streak(R, at)
           /\ \A k \in Series(R) : k <= at /\ FailFrom(R, k, Len(R)) => k \in Streak(R, at)
<1>1. Len(R) \in Nat /\ Series(R) \subseteq 1..Len(R)
  BY ConsideredFacts, SeriesFacts
<1>2. at \in Series(R) /\ at <= Len(R) /\ FailFrom(R, at, Len(R))
  BY CrossedFacts
<1>3. \A k : k \in Streak(R, at) <=>
        k \in Series(R) /\ k <= at /\ \A j \in Passes(R) : j < k \/ at < j
  BY DEF Streak
<1>4. \A j : j \in Passes(R) <=> j \in Series(R) /\ Passed(R, j)
  BY DEF Passes
<1>5. ASSUME NEW k \in Streak(R, at) PROVE FailFrom(R, k, Len(R))
  <2> SUFFICES ASSUME NEW j \in Series(R), k <= j, j <= Len(R), Passed(R, j) PROVE FALSE
    BY DEF FailFrom
  <2>1. j \in Nat /\ k \in Nat
    BY <1>1, <1>3
  <2>2. at < j
    BY <1>3, <1>4, <1>5, <2>1
  <2> QED
    BY <1>2, <2>1, <2>2 DEF FailFrom
<1>6. ASSUME NEW k \in Series(R), k <= at, FailFrom(R, k, Len(R)) PROVE k \in Streak(R, at)
  <2> SUFFICES ASSUME NEW j \in Passes(R), ~(j < k \/ at < j) PROVE FALSE
    BY <1>3, <1>6
  <2>1. j \in Series(R) /\ Passed(R, j) /\ j \in Nat /\ k \in Nat /\ j <= Len(R)
    BY <1>1, <1>4
  <2> QED
    BY <1>6, <2>1 DEF FailFrom
<1>7. at \in Streak(R, at) /\ Streak(R, at) \subseteq Nat
  BY <1>1, <1>2, <1>3, <1>6
<1>8. Min(Streak(R, at)) \in Streak(R, at) /\ \A k \in Streak(R, at) : Min(Streak(R, at)) <= k
  BY <1>7, MinFacts
<1>9. broken_since(R) = Min(Streak(R, at))
  BY DEF broken_since
<1> QED
  BY <1>3, <1>5, <1>6, <1>7, <1>8, <1>9

(* What broken_since says.                                                 *)
LEMMA SinceFacts ==
    ASSUME NEW R \in Runs, NEW since, since = broken_since(R)
    PROVE  /\ since \in Nat /\ (since # 0 <=> CrossedAt(R) # 0)
           /\ since # 0 => since \in Series(R) /\ FailFrom(R, since, Len(R))
<1>1. Len(R) \in Nat /\ Series(R) \subseteq 1..Len(R)
  BY ConsideredFacts, SeriesFacts
<1>2. PICK at : at = CrossedAt(R)
  OBVIOUS
<1>3. at \in Nat
  BY <1>2, CrossedFacts
<1>4. CASE at = 0
  BY <1>2, <1>4 DEF broken_since
<1>5. CASE at # 0
  <2>1. since \in Streak(R, at) /\ since \in Series(R) /\ FailFrom(R, since, Len(R))
    BY <1>2, <1>3, <1>5, StreakFacts
  <2>2. since \in Nat /\ since # 0
    BY <1>1, <2>1
  <2> QED
    BY <1>2, <1>5, <2>1, <2>2
<1> QED
  BY <1>4, <1>5

(* At most one element.                                                    *)
LEMMA AtMostOne ==
    ASSUME NEW S, \A x, y \in S : x = y
    PROVE  IsFiniteSet(S) /\ Cardinality(S) \in Nat /\ Cardinality(S) <= 1
<1>1. CASE S = {}
  <2>1. IsFiniteSet(S) /\ Cardinality(S) = 0
    BY <1>1, FS_EmptySet
  <2> QED
    BY <2>1
<1>2. CASE S # {}
  <2>1. PICK x \in S : TRUE
    BY <1>2
  <2>2. S = {x}
    BY <2>1
  <2>3. IsFiniteSet({x}) /\ Cardinality({x}) = 1
    BY FS_Singleton
  <2> QED
    BY <2>2, <2>3
<1> QED
  BY <1>1, <1>2

-----------------------------------------------------------------------------
(* One more run e on disk, for which the first d (none or one) are gone:   *)
(* the list R becomes Q.                                                   *)
Follows(R, Q, d, e) ==
    /\ R \in Runs /\ Q \in Runs /\ d \in {0, 1} /\ d <= Len(R)
    /\ Len(Q) = Len(R) + 1 - d /\ Q[Len(Q)] = e
    /\ \A k \in 1..(Len(R) - d) : Q[k] = R[k + d]

SameScript(R, e) ==
    e.sha = Missing \/ Hashed(R) = {} \/ e.sha = R[Max(Hashed(R))].sha

FailsAgain(R, Q, d, e) ==
    Follows(R, Q, d, e) /\ e.status \in {"failed", "timedout"} /\ SameScript(R, e)

LEMMA FollowsFacts ==
    ASSUME NEW R, NEW Q, NEW d, NEW e, FailsAgain(R, Q, d, e), NEW l, l = Len(Q)
    PROVE  /\ R \in Runs /\ Q \in Runs /\ d \in {0, 1} /\ Len(R) \in Nat
           /\ l \in Nat \ {0} /\ l = Len(R) + 1 - d /\ d <= Len(R)
           /\ l \in Considered(Q) /\ ~Passed(Q, l) /\ (l \in Hashed(Q) => e.sha # Missing)
           /\ Q[l] = e
           /\ \A k \in 1..l : k # l =>
                /\ Q[k] = R[k + d] /\ k + d \in 1..Len(R)
                /\ k \in Considered(Q) <=> k + d \in Considered(R)
                /\ k \in Hashed(Q) <=> k + d \in Hashed(R)
                /\ Passed(Q, k) <=> Passed(R, k + d)
<1>1. /\ R \in Runs /\ Q \in Runs /\ d \in {0, 1} /\ d <= Len(R)
      /\ l = Len(R) + 1 - d /\ Q[l] = e /\ \A k \in 1..(Len(R) - d) : Q[k] = R[k + d]
      /\ e.status \in {"failed", "timedout"}
  BY DEF FailsAgain, Follows
<1>2. Len(R) \in Nat /\ l \in Nat \ {0}
  BY <1>1, ConsideredFacts
<1>3. /\ Considered(R) = {k \in 1..Len(R) : R[k].status \in {"passed", "failed", "timedout"}}
      /\ Considered(Q) = {k \in 1..l : Q[k].status \in {"passed", "failed", "timedout"}}
  BY <1>1, ConsideredFacts
<1>4. l \in Considered(Q) /\ ~Passed(Q, l) /\ (l \in Hashed(Q) => e.sha # Missing)
  BY <1>1, <1>2, <1>3 DEF Passed, Hashed
<1>5. ASSUME NEW k \in 1..l, k # l
      PROVE  /\ Q[k] = R[k + d] /\ k + d \in 1..Len(R)
             /\ k \in Considered(Q) <=> k + d \in Considered(R)
             /\ k \in Hashed(Q) <=> k + d \in Hashed(R)
             /\ Passed(Q, k) <=> Passed(R, k + d)
  <2>1. k \in 1..(Len(R) - d) /\ k + d \in 1..Len(R)
    BY <1>1, <1>2, <1>5
  <2>2. Q[k] = R[k + d]
    BY <1>1, <2>1
  <2> QED
    BY <1>3, <1>5, <2>1, <2>2 DEF Hashed, Passed
<1> QED
  BY <1>1, <1>2, <1>4, <1>5

(* The place of a run that is kept.                                        *)
LEMMA PlaceFacts ==
    ASSUME NEW L \in Nat, NEW d \in {0, 1}, NEW l, l = L + 1 - d, NEW m \in 1..L, d < m
    PROVE  m - d \in 1..l /\ (m - d) + d = m /\ m - d # l /\ m - d < l
<1>1. CASE d = 0
  BY <1>1
<1>2. CASE d = 1
  BY <1>2
<1> QED
  BY <1>1, <1>2

(* The changes of script in the new list are changes in the old one, and   *)
(* those of the old one are still known unless they were to the first run. *)
LEMMA ChangesFollow ==
    ASSUME NEW R, NEW Q, NEW d, NEW e, FailsAgain(R, Q, d, e)
    PROVE  \A c \in HashChanges(Q) : c < Len(Q) /\ c + d \in HashChanges(R)
<1> SUFFICES ASSUME NEW c \in HashChanges(Q)
             PROVE  c < Len(Q) /\ c + d \in HashChanges(R)
  OBVIOUS
<1>1. PICK l : l = Len(Q)
  OBVIOUS
<1>2. /\ R \in Runs /\ Q \in Runs /\ d \in {0, 1} /\ Len(R) \in Nat
      /\ l \in Nat \ {0} /\ l = Len(R) + 1 - d /\ d <= Len(R)
      /\ (l \in Hashed(Q) => e.sha # Missing) /\ Q[l] = e
      /\ \A k \in 1..l : k # l =>
           Q[k] = R[k + d] /\ k + d \in 1..Len(R) /\ (k \in Hashed(Q) <=> k + d \in Hashed(R))
  BY <1>1, FollowsFacts
<1>3. Hashed(R) \subseteq 1..Len(R) /\ Hashed(Q) \subseteq 1..l
  BY <1>1, <1>2, SeriesFacts
<1>4. PICK j \in Hashed(Q) : /\ j < c /\ Q[j].sha # Q[c].sha
                             /\ \A m \in Hashed(Q) : m <= j \/ c <= m
  BY DEF HashChanges
<1>5. c \in Hashed(Q) /\ c \in 1..l /\ j \in 1..l /\ j # l
  BY <1>2, <1>3, <1>4 DEF HashChanges
<1>6. j + d \in Hashed(R) /\ Q[j] = R[j + d]
  BY <1>2, <1>4, <1>5
<1>7. ASSUME NEW m \in Hashed(R) PROVE m <= j + d \/ c + d <= m
  <2>1. CASE m <= d
    BY <1>2, <1>3, <1>5, <2>1
  <2>2. CASE ~(m <= d)
    <3>0. m - d \in 1..l /\ (m - d) + d = m /\ m - d # l
      <4>1. m \in 1..Len(R) /\ d < m
        BY <1>2, <1>3, <2>2
      <4> QED
        BY <1>2, <4>1, PlaceFacts
    <3>1. PICK n \in 1..l : n = m - d /\ n + d = m /\ n # l
      BY <3>0
    <3>2. n \in Hashed(Q)
      BY <1>2, <3>1
    <3>3. n <= j \/ c <= n
      BY <1>4, <3>2
    <3> QED
      BY <1>2, <1>5, <3>1, <3>3
  <2> QED
    BY <2>1, <2>2
<1>8. c # l
  <2> SUFFICES ASSUME c = l PROVE FALSE
    OBVIOUS
  <2>1. e.sha # Missing /\ Q[c] = e /\ Hashed(R) # {} /\ Hashed(R) \subseteq 0..Len(R)
    BY <1>2, <1>3, <1>5, <1>6
  <2>2. e.sha = R[Max(Hashed(R))].sha
    BY <2>1 DEF FailsAgain, SameScript
  <2>3. PICK m \in Hashed(R) : m = Max(Hashed(R)) /\ \A k \in Hashed(R) : k <= m
    BY <1>2, <2>1, MaxFacts
  <2>4. j + d <= m /\ (m <= j + d \/ l + d <= m) /\ m \in 1..Len(R)
    BY <1>3, <1>6, <1>7, <2>3
  <2>5. m = j + d
    BY <1>2, <1>5, <2>4
  <2> QED
    BY <1>4, <1>6, <2>1, <2>2, <2>3, <2>5
<1>9. c + d \in Hashed(R) /\ Q[c] = R[c + d]
  BY <1>2, <1>5, <1>8
<1>10. j + d < c + d
  BY <1>2, <1>4, <1>5
<1>11. c + d \in HashChanges(R)
  BY <1>4, <1>6, <1>7, <1>9, <1>10 DEF HashChanges
<1> QED
  BY <1>1, <1>2, <1>5, <1>8, <1>11

LEMMA ChangesStay ==
    ASSUME NEW R, NEW Q, NEW d, NEW e, FailsAgain(R, Q, d, e),
           NEW c \in Hashed(R), NEW j \in Hashed(R), j < c, R[j].sha # R[c].sha, d < j,
           \A m \in Hashed(R) : m <= j \/ c <= m
    PROVE  c - d \in HashChanges(Q)
<1>1. PICK l : l = Len(Q)
  OBVIOUS
<1>2. /\ R \in Runs /\ Q \in Runs /\ d \in {0, 1} /\ Len(R) \in Nat
      /\ l \in Nat \ {0} /\ l = Len(R) + 1 - d /\ d <= Len(R)
      /\ \A k \in 1..l : k # l =>
           Q[k] = R[k + d] /\ k + d \in 1..Len(R) /\ (k \in Hashed(Q) <=> k + d \in Hashed(R))
  BY <1>1, FollowsFacts
<1>3. Hashed(R) \subseteq 1..Len(R) /\ Hashed(Q) \subseteq 1..l
  BY <1>1, <1>2, SeriesFacts
<1>4. PICK x \in 1..l, y \in 1..l : /\ x = j - d /\ x + d = j /\ x # l
                                    /\ y = c - d /\ y + d = c /\ y # l /\ x < y
  <2>1. j \in 1..Len(R) /\ c \in 1..Len(R) /\ d < c
    BY <1>2, <1>3
  <2>2. j - d \in 1..l /\ (j - d) + d = j /\ j - d # l
    BY <1>2, <2>1, PlaceFacts
  <2>3. c - d \in 1..l /\ (c - d) + d = c /\ c - d # l
    BY <1>2, <2>1, PlaceFacts
  <2>4. j - d < c - d
    BY <1>2, <2>1
  <2> QED
    BY <2>2, <2>3, <2>4
<1>5. x \in Hashed(Q) /\ y \in Hashed(Q) /\ Q[x].sha # Q[y].sha
  BY <1>2, <1>4
<1>6. ASSUME NEW m \in Hashed(Q) PROVE m <= x \/ y <= m
  <2>1. CASE m = l
    BY <1>4, <2>1
  <2>2. CASE m # l
    <3>1. m \in 1..l /\ m + d \in Hashed(R)
      BY <1>2, <1>3, <2>2
    <3>2. m + d <= j \/ c <= m + d
      BY <3>1
    <3> QED
      BY <1>2, <1>4, <3>1, <3>2
  <2> QED
    BY <2>1, <2>2
<1> QED
  BY <1>4, <1>5, <1>6 DEF HashChanges

(* So the series goes on.                                                  *)
LEMMA SeriesGoesOn ==
    ASSUME NEW R, NEW Q, NEW d, NEW e, FailsAgain(R, Q, d, e), NEW l, l = Len(Q)
    PROVE  /\ l \in Series(Q) /\ \A k \in Series(R) : d < k => k - d \in Series(Q)
           /\ \A j \in Series(R) : FailFrom(R, j, Len(R)) => FailFrom(Q, j - d, l)
<1>1. /\ R \in Runs /\ Q \in Runs /\ d \in {0, 1} /\ Len(R) \in Nat
      /\ l \in Nat \ {0} /\ l = Len(R) + 1 - d /\ d <= Len(R)
      /\ l \in Considered(Q) /\ ~Passed(Q, l)
      /\ \A k \in 1..l : k # l =>
           /\ k + d \in 1..Len(R)
           /\ k \in Considered(Q) <=> k + d \in Considered(R)
           /\ Passed(Q, k) <=> Passed(R, k + d)
  BY FollowsFacts
<1>2. /\ Considered(R) \subseteq 1..Len(R) /\ Considered(Q) \subseteq 1..l
      /\ HashChanges(Q) \subseteq 1..l
      /\ Series(R) \subseteq Considered(R) /\ Series(Q) \subseteq Considered(Q)
      /\ \A k \in Series(R), c \in HashChanges(R) : c <= k
      /\ \A j \in Series(R), k \in Considered(R) : j <= k => k \in Series(R)
  BY <1>1, SeriesFacts
<1>3. \A c \in HashChanges(Q) : c < l /\ c + d \in HashChanges(R)
  BY ChangesFollow
<1>4. l \in Series(Q)
  BY <1>1, <1>2, <1>3 DEF Series
<1>5. ASSUME NEW k \in Series(R), d < k PROVE k - d \in Series(Q)
  <2>0. k - d \in 1..l /\ (k - d) + d = k /\ k - d # l
    <3>1. k \in 1..Len(R)
      BY <1>2
    <3> QED
      BY <1>1, <1>5, <3>1, PlaceFacts
  <2>1. PICK n \in 1..l : n = k - d /\ n + d = k /\ n # l
    BY <2>0
  <2>2. n \in Considered(Q)
    BY <1>1, <1>2, <2>1
  <2>3. ASSUME NEW c \in HashChanges(Q) PROVE c <= n
    <3>1. c + d <= k /\ c \in Nat
      BY <1>2, <1>3
    <3> QED
      BY <1>1, <2>1, <3>1
  <2> QED
    BY <2>1, <2>2, <2>3 DEF Series
<1>6. ASSUME NEW j \in Series(R), FailFrom(R, j, Len(R)), NEW k \in Series(Q), j - d <= k, k <= l
      PROVE  ~Passed(Q, k)
  <2>1. CASE k = l
    BY <1>1, <2>1
  <2>2. CASE k # l
    <3>1. k \in 1..l /\ k + d \in 1..Len(R) /\ k + d \in Considered(R) /\ j \in Nat
      BY <1>1, <1>2, <2>2
    <3>2. j <= k + d /\ k + d <= Len(R)
      BY <1>1, <1>6, <3>1
    <3>3. k + d \in Series(R)
      BY <1>2, <3>1, <3>2
    <3>4. ~Passed(R, k + d)
      BY <1>6, <3>2, <3>3 DEF FailFrom
    <3> QED
      BY <1>1, <2>2, <3>1, <3>4
  <2> QED
    BY <2>1, <2>2
<1> QED
  BY <1>4, <1>5, <1>6 DEF FailFrom

(* Two failures in a row, and one more: broken since the same run, or an   *)
(* earlier one.                                                            *)
LEMMA StaysBrokenTwice ==
    ASSUME NEW R, NEW Q, NEW d, NEW e, FailsAgain(R, Q, d, e),
           NEW since, since = broken_since(R), since > d,
           NEW p \in Considered(R), NEW q \in Considered(R), since <= p, p < q
    PROVE  broken_since(Q) \in 1..(since - d)
<1>1. PICK l : l = Len(Q)
  OBVIOUS
<1>2. /\ R \in Runs /\ Q \in Runs /\ d \in {0, 1} /\ Len(R) \in Nat
      /\ l \in Nat \ {0} /\ l = Len(R) + 1 - d
  BY <1>1, FollowsFacts
<1>3. /\ Considered(R) \subseteq 1..Len(R) /\ Series(R) \subseteq Considered(R)
      /\ Series(Q) \subseteq 1..l
      /\ \A j \in Series(R), k \in Considered(R) : j <= k => k \in Series(R)
  BY <1>1, <1>2, SeriesFacts
<1>4. since \in Nat /\ since # 0 /\ since \in Series(R) /\ FailFrom(R, since, Len(R))
  BY <1>2, SinceFacts
<1>5. p \in Series(R) /\ q \in Series(R) /\ p \in 1..Len(R) /\ q \in 1..Len(R) /\ since <= q
  BY <1>3, <1>4
<1>6. /\ l \in Series(Q) /\ since - d \in Series(Q) /\ p - d \in Series(Q) /\ q - d \in Series(Q)
      /\ FailFrom(Q, since - d, l)
  <2>1. /\ l \in Series(Q) /\ \A k \in Series(R) : d < k => k - d \in Series(Q)
        /\ \A j \in Series(R) : FailFrom(R, j, Len(R)) => FailFrom(Q, j - d, l)
    BY <1>1, SeriesGoesOn
  <2>2. d < since /\ d < p /\ d < q
    BY <1>2, <1>4, <1>5
  <2> QED
    BY <1>4, <1>5, <2>1, <2>2
<1>7. FailFrom(Q, p - d, l)
  <2>1. \A k \in Series(Q) : p - d <= k => since - d <= k
    BY <1>2, <1>3, <1>4, <1>5
  <2> QED
    BY <1>6, <2>1 DEF FailFrom
<1>8. p - d < q - d /\ q - d < l
  BY <1>2, <1>5
<1>9. PICK at : at = CrossedAt(Q)
  OBVIOUS
<1>10. at \in Nat \ {0}
  <2>1. /\ at \in Nat
        /\ \A a, b, c \in Series(Q) : a < b /\ b < c /\ FailFrom(Q, a, l) => at # 0
    BY <1>1, <1>2, <1>9, CrossedFacts
  <2>2. PICK a \in Series(Q), b \in Series(Q) : a = p - d /\ b = q - d
    BY <1>6
  <2> QED
    BY <1>6, <1>7, <1>8, <2>1, <2>2
<1>11. PICK now : now = broken_since(Q)
  OBVIOUS
<1>12. /\ now \in Series(Q)
       /\ at \in Streak(Q, at) /\ \A k \in Streak(Q, at) : now <= k
       /\ \A k \in Series(Q) : k <= at /\ FailFrom(Q, k, l) => k \in Streak(Q, at)
  BY <1>1, <1>2, <1>9, <1>10, <1>11, StreakFacts
<1>13. now <= since - d
  <2>1. CASE since - d <= at
    BY <1>6, <1>12, <2>1
  <2>2. CASE ~(since - d <= at)
    <3>1. now <= at /\ now \in Nat
      BY <1>3, <1>12
    <3> QED
      BY <1>2, <1>4, <1>10, <2>2, <3>1
  <2> QED
    BY <2>1, <2>2
<1> QED
  BY <1>2, <1>3, <1>4, <1>11, <1>12, <1>13

-----------------------------------------------------------------------------
(* The run that was dropped did not count.                                 *)
Kept(R, d) ==
    \/ d = 0 \/ 1 \notin Considered(R)
    \/ \E j, k \in Hashed(R) \ {1} : R[j].sha # R[k].sha

(* Then either the series is not about it, or a change of script after it  *)
(* is still known.                                                         *)
LEMMA KeptFacts ==
    ASSUME NEW R, NEW Q, NEW d, NEW e, FailsAgain(R, Q, d, e), Kept(R, d),
           ~(d = 0 \/ 1 \notin Considered(R))
    PROVE  \E b \in HashChanges(Q) : b + d \in HashChanges(R)
                /\ \E x \in Hashed(R) : 1 < x /\ x < b + d
<1>1. R \in Runs /\ d = 1 /\ Len(R) \in Nat
  <2>1. R \in Runs /\ d \in {0, 1} /\ Len(R) \in Nat /\ Len(Q) \in Nat
    BY FollowsFacts
  <2> QED
    BY <2>1
<1>2. Hashed(R) \subseteq 1..Len(R)
  BY <1>1, SeriesFacts
<1>3. PICK x \in Hashed(R), y \in Hashed(R) : R[x].sha # R[y].sha /\ x # 1 /\ y # 1 /\ x < y
  <2>1. PICK x \in Hashed(R), y \in Hashed(R) : R[x].sha # R[y].sha /\ x # 1 /\ y # 1
    BY DEF Kept
  <2>2. x \in Nat /\ y \in Nat /\ x # y
    BY <1>2, <2>1
  <2>3. x < y \/ y < x
    BY <2>2
  <2> QED
    BY <2>1, <2>3
<1>4. PICK c \in HashChanges(R) : x < c /\ c <= y
  BY <1>1, <1>3, OneScriptInSeries
<1>5. PICK j \in Hashed(R) : /\ j < c /\ R[j].sha # R[c].sha
                             /\ \A m \in Hashed(R) : m <= j \/ c <= m
  BY DEF HashChanges
<1>6. c \in Hashed(R) /\ x \in Nat /\ j \in Nat /\ c \in Nat
  BY <1>2, <1>5 DEF HashChanges
<1>7. 1 < x /\ x <= j /\ d < j
  <2>1. x <= j \/ c <= x
    BY <1>5
  <2>2. 1 < x
    BY <1>2, <1>3
  <2> QED
    BY <1>1, <1>4, <1>6, <2>1, <2>2
<1>8. c - d \in HashChanges(Q)
  BY <1>5, <1>6, <1>7, ChangesStay
<1>9. (c - d) + d = c
  BY <1>1, <1>6
<1> QED
  BY <1>4, <1>7, <1>8, <1>9

(* The last change of script is the same one.                              *)
LEMMA ChangesKept ==
    ASSUME NEW R, NEW Q, NEW d, NEW e, FailsAgain(R, Q, d, e), Kept(R, d),
           NEW c \in HashChanges(R)
    PROVE  \E b \in HashChanges(Q) : c <= b + d
<1>1. R \in Runs /\ d \in {0, 1} /\ Len(R) \in Nat /\ Q \in Runs /\ Len(Q) \in Nat
  BY FollowsFacts
<1>2. /\ Hashed(R) \subseteq Considered(R) /\ Hashed(R) \subseteq 1..Len(R)
      /\ HashChanges(Q) \subseteq 1..Len(Q)
  BY <1>1, SeriesFacts
<1>3. PICK j \in Hashed(R) : /\ j < c /\ R[j].sha # R[c].sha
                             /\ \A m \in Hashed(R) : m <= j \/ c <= m
  BY DEF HashChanges
<1>4. c \in Hashed(R) /\ j \in Nat /\ c \in Nat
  BY <1>2, <1>3 DEF HashChanges
<1>5. CASE d < j
  <2>1. c - d \in HashChanges(Q)
    BY <1>3, <1>4, <1>5, ChangesStay
  <2>2. c <= (c - d) + d
    BY <1>1, <1>4
  <2> QED
    BY <2>1, <2>2
<1>6. CASE ~(d < j)
  <2>1. d = 1 /\ j = 1
    BY <1>1, <1>2, <1>6
  <2>2. 1 \in Considered(R)
    BY <1>2, <2>1
  <2>3. PICK b \in HashChanges(Q) : \E x \in Hashed(R) : 1 < x /\ x < b + d
    BY <2>1, <2>2, KeptFacts
  <2>4. PICK x \in Hashed(R) : 1 < x /\ x < b + d
    BY <2>3
  <2>5. c <= x /\ x \in Nat /\ b \in Nat
    BY <1>2, <1>3, <2>1, <2>4
  <2> QED
    BY <1>4, <2>1, <2>4, <2>5
<1> QED
  BY <1>5, <1>6

LEMMA SeriesKept ==
    ASSUME NEW R, NEW Q, NEW d, NEW e, FailsAgain(R, Q, d, e), Kept(R, d), NEW l, l = Len(Q)
    PROVE  /\ \A k \in Series(R) : d < k
           /\ \A k \in 1..l : k # l => (k \in Series(Q) <=> k + d \in Series(R))
<1>1. /\ R \in Runs /\ Q \in Runs /\ d \in {0, 1} /\ Len(R) \in Nat /\ l \in Nat
      /\ \A k \in 1..l : k # l => (k \in Considered(Q) <=> k + d \in Considered(R))
  BY FollowsFacts
<1>2. /\ Considered(R) \subseteq 1..Len(R) /\ Series(R) \subseteq Considered(R)
      /\ HashChanges(R) \subseteq 1..Len(R) /\ HashChanges(Q) \subseteq 1..l
      /\ Series(Q) \subseteq Considered(Q) /\ Hashed(R) \subseteq 1..Len(R)
      /\ \A k \in Series(R), c \in HashChanges(R) : c <= k
      /\ \A k \in Series(Q), c \in HashChanges(Q) : c <= k
  BY <1>1, SeriesFacts
<1>3. ASSUME NEW k \in Series(R) PROVE d < k
  <2> SUFFICES ASSUME ~(d < k) PROVE FALSE
    OBVIOUS
  <2>1. d = 1 /\ k = 1 /\ 1 \in Considered(R)
    BY <1>1, <1>2
  <2>2. PICK b \in HashChanges(Q) : b + d \in HashChanges(R)
                /\ \E x \in Hashed(R) : 1 < x /\ x < b + d
    BY <2>1, KeptFacts
  <2>3. PICK x \in Hashed(R) : 1 < x /\ x < b + d
    BY <2>2
  <2>4. b + d <= 1 /\ b \in Nat /\ x \in Nat
    BY <1>2, <2>1, <2>2
  <2> QED
    BY <2>1, <2>3, <2>4
<1>4. ASSUME NEW k \in 1..l, k # l, k + d \in Series(R) PROVE k \in Series(Q)
  <2>1. \A i \in Series(R) : d < i => i - d \in Series(Q)
    BY SeriesGoesOn
  <2>2. (k + d) - d = k
    BY <1>1
  <2> QED
    BY <1>3, <1>4, <2>1, <2>2
<1>5. ASSUME NEW k \in 1..l, k # l, k \in Series(Q) PROVE k + d \in Series(R)
  <2>1. k + d \in Considered(R)
    BY <1>1, <1>2, <1>5
  <2>2. ASSUME NEW c \in HashChanges(R) PROVE c <= k + d
    <3>1. PICK b \in HashChanges(Q) : c <= b + d
      BY ChangesKept
    <3>2. b <= k /\ b \in Nat /\ c \in Nat /\ k \in Nat
      BY <1>2, <1>5
    <3> QED
      BY <1>1, <3>1, <3>2
  <2> QED
    BY <2>1, <2>2 DEF Series
<1> QED
  BY <1>3, <1>4, <1>5

(* Then the loop over the new list repeats the one over the old.           *)
Shifted(acc, new, d) ==
    /\ new.stat = acc.stat
    /\ new.crossed_at = IF acc.crossed_at = 0 THEN 0 ELSE acc.crossed_at - d

LEMMA LoopShifts ==
    ASSUME NEW R, NEW Q, NEW d, NEW e, FailsAgain(R, Q, d, e), Kept(R, d),
           NEW f, Loops(R, Len(R), f), NEW g, Loops(Q, Len(Q), g)
    PROVE  \A n \in 0..(Len(Q) - 1) : Shifted(f[n + d], g[n], d)
<1>1. PICK l : l = Len(Q)
  OBVIOUS
<1>2. /\ R \in Runs /\ Q \in Runs /\ d \in {0, 1} /\ Len(R) \in Nat /\ l \in Nat \ {0}
      /\ l = Len(R) + 1 - d /\ d <= Len(R)
      /\ \A k \in 1..l : k # l => (Passed(Q, k) <=> Passed(R, k + d))
  BY <1>1, FollowsFacts
<1>3. /\ \A k \in Series(R) : d < k
      /\ \A k \in 1..l : k # l => (k \in Series(Q) <=> k + d \in Series(R))
  BY <1>1, SeriesKept
<1>4. /\ \A n \in 0..Len(R) : Knows(R, n, f[n])
      /\ \A n \in 0..l : Knows(Q, n, g[n])
  BY <1>1, <1>2, LoopKnows
<1>5. Series(R) \subseteq 1..Len(R) /\ Series(Q) \subseteq 1..l
  BY <1>1, <1>2, ConsideredFacts, SeriesFacts
<1> DEFINE B == {n \in Nat : n <= l - 1 => Shifted(f[n + d], g[n], d)}
<1>6. 0 \in B
  <2>1. f[0] = CusumStart /\ g[0] = CusumStart
    BY <1>1, <1>2 DEF Loops
  <2>2. f[d] = CusumStart
    <3>1. CASE d = 0
      BY <2>1, <3>1
    <3>2. CASE d = 1
      <4>1. d \notin Series(R) /\ d \in 1..Len(R) /\ d - 1 = 0 /\ 0 \in 0..Len(R)
        BY <1>2, <1>3, <3>2
      <4>2. Below(f[d - 1])
        BY <1>4, <4>1 DEF Knows
      <4>3. f[d] = f[d - 1]
        BY <1>2, <4>1, <4>2, LoopStep
      <4> QED
        BY <2>1, <4>1, <4>3
    <3> QED
      BY <1>2, <3>1, <3>2
  <2>3. 0 + d = d
    BY <1>2
  <2> QED
    BY <2>1, <2>2, <2>3 DEF Shifted, CusumStart
<1>7. ASSUME NEW m \in B PROVE m + 1 \in B
  <2> SUFFICES ASSUME m + 1 <= l - 1 PROVE Shifted(f[(m + 1) + d], g[m + 1], d)
    OBVIOUS
  <2>1. m \in Nat /\ m <= l - 1 /\ Shifted(f[m + d], g[m], d)
    BY <1>2
  <2> HIDE DEF B
  <2>2. PICK n \in 1..l, i \in 1..Len(R) :
            /\ n = m + 1 /\ n - 1 = m /\ n # l /\ i = n + d /\ i - 1 = m + d /\ d < i
            /\ i = (m + 1) + d /\ m \in 0..l /\ m + d \in 0..Len(R)
    <3>1. /\ m + 1 \in 1..l /\ (m + 1) - 1 = m /\ m + 1 # l /\ m \in 0..l
          /\ (m + 1) + d \in 1..Len(R) /\ ((m + 1) + d) - 1 = m + d /\ d < (m + 1) + d
          /\ m + d \in 0..Len(R)
      <4>1. CASE d = 0
        BY <1>2, <2>1, <4>1
      <4>2. CASE d = 1
        BY <1>2, <2>1, <4>2
      <4> QED
        BY <1>2, <4>1, <4>2
    <3> QED
      BY <3>1
  <2>3. PICK acc, new, Acc, New : acc = f[m + d] /\ new = f[i] /\ Acc = g[m] /\ New = g[n]
    OBVIOUS
  <2>4. Below(acc) /\ Below(Acc)
    BY <1>4, <2>2, <2>3 DEF Knows
  <2>5. /\ i \notin Series(R) => new = acc
        /\ i \in Series(R) /\ Passed(R, i) => OnPass(acc, new)
        /\ i \in Series(R) /\ ~Passed(R, i) => OnFail(acc, new, i)
    BY <1>2, <2>2, <2>3, <2>4, LoopStep
  <2>6. /\ n \notin Series(Q) => New = Acc
        /\ n \in Series(Q) /\ Passed(Q, n) => OnPass(Acc, New)
        /\ n \in Series(Q) /\ ~Passed(Q, n) => OnFail(Acc, New, n)
    BY <1>1, <1>2, <2>2, <2>3, <2>4, LoopStep
  <2>7. (n \in Series(Q) <=> i \in Series(R)) /\ (Passed(Q, n) <=> Passed(R, i))
    BY <1>2, <1>3, <2>2
  <2>8. /\ acc.stat \in Nat /\ acc.crossed_at \in Nat
        /\ acc.crossed_at # 0 => d < acc.crossed_at
    BY <1>3, <1>4, <2>2, <2>3 DEF Knows, Below
  <2>9. Acc.stat = acc.stat /\ Acc.crossed_at = IF acc.crossed_at = 0 THEN 0
                                                ELSE acc.crossed_at - d
    BY <2>1, <2>3 DEF Shifted
  <2>10. Acc.crossed_at = 0 <=> acc.crossed_at = 0
    BY <1>2, <2>8, <2>9
  <2>11. CASE i \notin Series(R)
    BY <2>1, <2>2, <2>3, <2>5, <2>6, <2>7, <2>11
  <2>12. CASE i \in Series(R) /\ Passed(R, i)
    <3>1. OnPass(acc, new) /\ OnPass(Acc, New)
      BY <2>5, <2>6, <2>7, <2>12
    <3>2. New.stat = new.stat /\ New.crossed_at = 0 /\ new.crossed_at = 0
      BY <2>9, <2>10, <3>1 DEF OnPass
    <3> QED
      BY <2>2, <2>3, <3>2 DEF Shifted
  <2>13. CASE i \in Series(R) /\ ~Passed(R, i)
    <3>1. OnFail(acc, new, i) /\ OnFail(Acc, New, n)
      BY <2>5, <2>6, <2>7, <2>13
    <3>2. New.stat = new.stat
      BY <2>9, <3>1 DEF OnFail
    <3>3. New.crossed_at = IF new.crossed_at = 0 THEN 0 ELSE new.crossed_at - d
      <4>1. CASE acc.crossed_at # 0
        BY <2>9, <2>10, <3>1, <4>1 DEF OnFail
      <4>2. CASE acc.crossed_at = 0
        <5>1. new.crossed_at = (IF acc.stat >= 4 THEN i ELSE 0)
              /\ New.crossed_at = (IF acc.stat >= 4 THEN n ELSE 0)
          BY <2>9, <2>10, <3>1, <4>2 DEF OnFail
        <5>2. i # 0 /\ n = i - d
          BY <1>2, <2>2
        <5> QED
          BY <5>1, <5>2
      <4> QED
        BY <4>1, <4>2
    <3> QED
      BY <2>2, <2>3, <3>2, <3>3 DEF Shifted
  <2> QED
    BY <2>11, <2>12, <2>13
<1> HIDE DEF B
<1>8. B = Nat
  <2>1. B \subseteq Nat
    BY DEF B
  <2> QED
    BY <1>6, <1>7, <2>1, NatInductionSet
<1>9. ASSUME NEW n \in 0..(l - 1) PROVE Shifted(f[n + d], g[n], d)
  <2>1. n \in Nat /\ n <= l - 1
    BY <1>2
  <2> QED
    BY <1>8, <2>1 DEF B
<1> QED
  BY <1>1, <1>9

LEMMA CrossedShifts ==
    ASSUME NEW R, NEW Q, NEW d, NEW e, FailsAgain(R, Q, d, e), Kept(R, d),
           NEW at, at = CrossedAt(R), at # 0
    PROVE  CrossedAt(Q) = at - d /\ d < at
<1>1. PICK l, f, g : l = Len(Q) /\ f = Cusum(R) /\ g = Cusum(Q)
  OBVIOUS
<1>2. /\ R \in Runs /\ Q \in Runs /\ d \in {0, 1} /\ Len(R) \in Nat /\ l \in Nat \ {0}
      /\ l = Len(R) + 1 - d /\ ~Passed(Q, l)
  BY <1>1, FollowsFacts
<1>3. Loops(R, Len(R), f) /\ Loops(Q, l, g)
  BY <1>1, <1>2, CusumLoops
<1>4. l \in Series(Q) /\ \A k \in Series(R) : d < k
  BY <1>1, SeriesGoesOn, SeriesKept
<1>5. at = f[Len(R)].crossed_at /\ CrossedAt(Q) = g[l].crossed_at
  BY <1>1 DEF CrossedAt
<1>6. at \in Nat /\ at \in Series(R)
  BY <1>2, CrossedFacts
<1>7. PICK m \in 0..l, n \in 1..l : m = l - 1 /\ m + d = Len(R) /\ n = l /\ n - 1 = m
                                    /\ m \in 0..(l - 1)
  <2>1. l - 1 \in 0..l /\ (l - 1) + d = Len(R) /\ l \in 1..l /\ l - 1 \in 0..(l - 1)
    BY <1>2
  <2> QED
    BY <2>1
<1>8. Shifted(f[Len(R)], g[m], d)
  <2>1. \A k \in 0..(l - 1) : Shifted(f[k + d], g[k], d)
    BY <1>1, <1>3, LoopShifts
  <2> QED
    BY <1>7, <2>1
<1>9. g[m].crossed_at = at - d /\ at - d # 0
  BY <1>2, <1>4, <1>5, <1>6, <1>8 DEF Shifted
<1>10. Below(g[n - 1])
  <2>1. Knows(Q, m, g[m])
    BY <1>1, <1>2, <1>3, <1>7, LoopKnows
  <2> QED
    BY <1>7, <2>1 DEF Knows
<1>11. OnFail(g[m], g[l], l)
  BY <1>2, <1>3, <1>4, <1>7, <1>10, LoopStep
<1>12. g[l].crossed_at = at - d
  BY <1>9, <1>11 DEF OnFail
<1> QED
  BY <1>4, <1>5, <1>6, <1>12

(* When nothing that counted is dropped, broken since the same run.        *)
LEMMA StaysBrokenSince ==
    ASSUME NEW R, NEW Q, NEW d, NEW e, FailsAgain(R, Q, d, e), Kept(R, d),
           NEW since, since = broken_since(R), since > d
    PROVE  broken_since(Q) = since - d
<1>1. PICK l, at, now : l = Len(Q) /\ at = CrossedAt(R) /\ now = broken_since(Q)
  OBVIOUS
<1>2. /\ R \in Runs /\ Q \in Runs /\ d \in {0, 1} /\ Len(R) \in Nat /\ l \in Nat \ {0}
      /\ l = Len(R) + 1 - d
      /\ \A k \in 1..l : k # l => (Passed(Q, k) <=> Passed(R, k + d))
  BY <1>1, FollowsFacts
<1>3. Series(R) \subseteq 1..Len(R) /\ Series(Q) \subseteq 1..l
  BY <1>1, <1>2, SeriesFacts
<1>4. since \in Nat /\ since # 0 /\ at # 0 /\ since \in Series(R) /\ FailFrom(R, since, Len(R))
  BY <1>1, <1>2, SinceFacts
<1>5. at \in Nat \ {0} /\ at <= Len(R)
  BY <1>1, <1>2, <1>4, CrossedFacts
<1>6. PICK new \in Nat \ {0} : new = at - d /\ new = CrossedAt(Q) /\ new < l
  <2>1. CrossedAt(Q) = at - d /\ d < at
    BY <1>1, <1>4, CrossedShifts
  <2> QED
    BY <1>2, <1>5, <2>1
<1>7. /\ since \in Streak(R, at) /\ since <= at
      /\ \A k \in Streak(R, at) : since <= k
      /\ \A k \in Series(R) : k <= at /\ FailFrom(R, k, Len(R)) => k \in Streak(R, at)
  BY <1>1, <1>2, <1>5, StreakFacts
<1>8. /\ now \in Series(Q) /\ now <= new /\ FailFrom(Q, now, l)
      /\ \A k \in Streak(Q, new) : now <= k
      /\ \A k \in Series(Q) : k <= new /\ FailFrom(Q, k, l) => k \in Streak(Q, new)
  BY <1>1, <1>2, <1>6, StreakFacts
<1>9. /\ \A k \in Series(R) : d < k /\ k - d \in Series(Q)
      /\ \A k \in 1..l : k # l => (k \in Series(Q) <=> k + d \in Series(R))
      /\ FailFrom(Q, since - d, l)
  BY <1>1, <1>4, SeriesGoesOn, SeriesKept
<1>10. now <= since - d
  <2>1. since - d \in Series(Q) /\ since - d <= new
    BY <1>2, <1>4, <1>5, <1>6, <1>7, <1>9
  <2> QED
    BY <1>8, <1>9, <2>1
<1>11. since <= now + d
  <2>1. now \in 1..l /\ now # l /\ now + d <= at
    BY <1>2, <1>3, <1>5, <1>6, <1>8
  <2>2. now + d \in Series(R)
    BY <1>8, <1>9, <2>1
  <2>3. ASSUME NEW k \in Series(R), now + d <= k, k <= Len(R) PROVE ~Passed(R, k)
    <3>1. k - d \in Series(Q) /\ d < k /\ k \in 1..Len(R)
      BY <1>3, <1>9
    <3>2. k - d \in 1..l /\ (k - d) + d = k /\ k - d # l /\ k - d < l
      BY <1>2, <3>1, PlaceFacts
    <3>3. now <= k - d
      BY <1>2, <2>1, <2>3, <3>1
    <3>4. ~Passed(Q, k - d)
      <4>1. k - d <= l
        BY <1>2, <3>2
      <4> QED
        BY <1>8, <3>1, <3>3, <4>1 DEF FailFrom
    <3>5. Passed(Q, k - d) <=> Passed(R, (k - d) + d)
      BY <1>2, <3>2
    <3> QED
      BY <3>2, <3>4, <3>5
  <2>4. FailFrom(R, now + d, Len(R))
    BY <2>3 DEF FailFrom
  <2> QED
    BY <1>7, <2>1, <2>2, <2>4
<1>12. now \in Nat
  BY <1>3, <1>8
<1> QED
  BY <1>1, <1>2, <1>4, <1>10, <1>11, <1>12

(* Two elements at least.                                                  *)
LEMMA TwoAtLeast ==
    ASSUME NEW S, S \subseteq Nat, Cardinality(S) >= 2
    PROVE  \E p, q \in S : p < q
<1> SUFFICES ASSUME \A p, q \in S : ~(p < q) PROVE FALSE
  OBVIOUS
<1>1. \A p, q \in S : p = q
  OBVIOUS
<1>2. Cardinality(S) \in Nat /\ Cardinality(S) <= 1
  BY <1>1, AtMostOne
<1> QED
  BY <1>2

-----------------------------------------------------------------------------
(* What the assessment says, of a list of runs.                            *)
ScriptsFrom(R, j) == {R[k].sha : k \in {k \in Considered(R) : k >= j}} \ {Missing}

LEMMA OneScriptFrom ==
    ASSUME NEW R \in Runs, NEW j \in Series(R)
    PROVE  Cardinality(ScriptsFrom(R, j)) <= 1
<1>1. /\ Series(R) \subseteq Considered(R) /\ Considered(R) \subseteq Nat
      /\ \A k \in Considered(R) : j <= k => k \in Series(R)
  BY ConsideredFacts, SeriesFacts
<1>2. ASSUME NEW x \in ScriptsFrom(R, j), NEW y \in ScriptsFrom(R, j) PROVE x = y
  <2>1. PICK k \in Considered(R), m \in Considered(R) :
            k >= j /\ m >= j /\ x = R[k].sha /\ y = R[m].sha
    BY DEF ScriptsFrom
  <2>2. x # Missing /\ y # Missing
    BY DEF ScriptsFrom
  <2>3. k \in Series(R) /\ m \in Series(R)
    BY <1>1, <2>1
  <2> QED
    BY <2>1, <2>2, <2>3, SeriesOneScript
<1> QED
  BY <1>2, AtMostOne

(* Three failures with one script at the end, and nothing after them.      *)
LEMMA ThreeFailures ==
    ASSUME NEW R \in Runs, NEW a \in Considered(R), NEW b \in Considered(R),
           NEW c \in Considered(R), a < b, b < c, {k \in Considered(R) : k >= a} = {a, b, c},
           \A k \in {a, b, c} : R[k].sha = R[c].sha /\ R[k].sha # Missing /\ ~Passed(R, k)
    PROVE  broken_since(R) # 0
<1>1. /\ Len(R) \in Nat /\ Considered(R) \subseteq 1..Len(R)
      /\ Hashed(R) \subseteq Considered(R) /\ HashChanges(R) \subseteq Hashed(R)
      /\ Series(R) \subseteq Considered(R)
      /\ \A j \in Series(R), k \in Considered(R) : j <= k => k \in Series(R)
  BY ConsideredFacts, SeriesFacts
<1>2. \A k \in Considered(R) : k >= a => k \in {a, b, c}
  OBVIOUS
<1>3. ASSUME NEW h \in HashChanges(R) PROVE h <= a
  <2> SUFFICES ASSUME ~(h <= a) PROVE FALSE
    OBVIOUS
  <2>1. PICK j \in Hashed(R) : /\ j < h /\ R[j].sha # R[h].sha
                               /\ \A m \in Hashed(R) : m <= j \/ h <= m
    BY DEF HashChanges
  <2>2. h \in Considered(R) /\ j \in Considered(R) /\ a \in Nat /\ h \in Nat /\ j \in Nat
    BY <1>1, <2>1
  <2>3. a \in Hashed(R)
    BY DEF Hashed
  <2>4. a <= j
    BY <2>1, <2>2, <2>3
  <2>5. h \in {a, b, c} /\ j \in {a, b, c}
    BY <1>2, <2>2, <2>4
  <2> QED
    BY <2>1, <2>5
<1>4. a \in Series(R)
  BY <1>3 DEF Series
<1>5. b \in Series(R) /\ c \in Series(R)
  BY <1>1, <1>4
<1>6. FailFrom(R, a, Len(R))
  <2>1. \A k \in Series(R) : a <= k => k >= a /\ k \in Considered(R)
    BY <1>1
  <2> QED
    BY <1>2, <2>1 DEF FailFrom
<1>7. CrossedAt(R) # 0
  BY <1>4, <1>5, <1>6, CrossedFacts
<1> QED
  BY <1>7, SinceFacts

(* The verdict as the reader of the files has it.                          *)
LEMMA VerdictFacts ==
    ASSUME files \in Runs
    PROVE  /\ Outcomes = Considered(files)
           /\ Verdict.broken_since = broken_since(files) /\ Verdict.flaky = flaky(files)
<1>1. Outcomes = Considered(files)
  BY ConsideredFacts DEF Outcomes
<1>2. assess(files) = [broken_since |-> broken_since(files), flaky |-> flaky(files)]
  BY DEF assess
<1> QED
  BY <1>1, <1>2 DEF Verdict

LEMMA BrokenFails ==
    ASSUME files \in Runs
    PROVE  BrokenMeansFailing
<1>1. PICK R \in Runs : R = files
  OBVIOUS
<1>2. PICK since : since = broken_since(R)
  OBVIOUS
<1>3. /\ Outcomes = Considered(R)
      /\ Verdict.broken_since = since /\ Verdict.flaky = flaky(R)
  BY <1>1, <1>2, VerdictFacts
<1>4. /\ Len(R) \in Nat /\ Considered(R) \subseteq 1..Len(R) /\ Series(R) \subseteq Considered(R)
      /\ \A j \in Series(R), k \in Considered(R) : j <= k => k \in Series(R)
  BY ConsideredFacts, SeriesFacts
<1>5. ASSUME since # 0
      PROVE  /\ Cardinality(ScriptsFrom(R, since)) <= 1
             /\ \A k \in {k \in Considered(R) : k >= since} : R[k].status # "passed"
  <2>1. since \in Series(R) /\ FailFrom(R, since, Len(R))
    BY <1>2, <1>5, SinceFacts
  <2>2. ASSUME NEW k \in Considered(R), k >= since PROVE R[k].status # "passed"
    <3>1. since <= k /\ k <= Len(R)
      BY <1>4, <2>1, <2>2
    <3>2. k \in Series(R)
      BY <1>4, <2>1, <3>1
    <3> QED
      BY <2>1, <3>1, <3>2 DEF FailFrom, Passed
  <2> QED
    BY <2>1, <2>2, OneScriptFrom
<1>6. ASSUME LastThreeFailed PROVE since # 0
  <2>1. PICK a \in Considered(R), b \in Considered(R), c \in Considered(R) :
          /\ a < b /\ b < c /\ {k \in Considered(R) : k >= a} = {a, b, c}
          /\ \A k \in {a, b, c} : R[k].sha = R[c].sha /\ R[k].sha # Missing
                                  /\ R[k].status # "passed"
    <3>1. PICK a \in Outcomes, b \in Outcomes, c \in Outcomes :
            /\ a < b /\ b < c /\ {k \in Outcomes : k >= a} = {a, b, c}
            /\ \A k \in {a, b, c} : files[k].sha = files[c].sha /\ files[k].sha # Missing
                                    /\ files[k].status # "passed"
      BY <1>6 DEF LastThreeFailed
    <3>2. {k \in Considered(R) : k >= a} = {a, b, c}
      BY <1>3, <3>1
    <3> QED
      BY <1>1, <1>3, <3>1, <3>2
  <2>2. \A k \in {a, b, c} : R[k].sha = R[c].sha /\ R[k].sha # Missing /\ ~Passed(R, k)
    BY <2>1 DEF Passed
  <2> QED
    BY <1>2, <2>1, <2>2, ThreeFailures
<1>7. ASSUME flaky(R)
      PROVE  \E j \in Considered(R) :
                /\ R[j].status # "passed" /\ Cardinality(ScriptsFrom(R, j)) <= 1
                /\ \E k \in {k \in Considered(R) : k >= j} : R[k].status = "passed"
  <2>1. PICK f \in Failures(R), p \in Passes(R) : f < p
    BY <1>7 DEF flaky
  <2>2. /\ f \in Series(R) /\ R[f].status # "passed"
        /\ p \in Series(R) /\ R[p].status = "passed"
    BY DEF Failures, Passes, Passed
  <2>3. p >= f /\ f \in Considered(R) /\ p \in Considered(R)
    BY <1>4, <2>1, <2>2
  <2>4. Cardinality(ScriptsFrom(R, f)) <= 1
    BY <2>2, OneScriptFrom
  <2> QED
    BY <2>2, <2>3, <2>4
<1>8. \A j : ScriptsFrom(R, j) = {files[k].sha : k \in {k \in Outcomes : k >= j}} \ {Missing}
  BY <1>1, <1>3 DEF ScriptsFrom
<1>9. Verdict.broken_since # 0 =>
        /\ Cardinality({files[k].sha : k \in {k \in Outcomes : k >= Verdict.broken_since}}
                        \ {Missing}) <= 1
        /\ \A k \in {k \in Outcomes : k >= Verdict.broken_since} : files[k].status # "passed"
  BY <1>1, <1>3, <1>5, <1>8
<1>10. Verdict.flaky => \E j \in Outcomes :
         /\ files[j].status # "passed"
         /\ Cardinality({files[k].sha : k \in {k \in Outcomes : k >= j}} \ {Missing}) <= 1
         /\ \E k \in {k \in Outcomes : k >= j} : files[k].status = "passed"
  BY <1>1, <1>3, <1>7, <1>8
<1> QED
  BY <1>3, <1>6, <1>9, <1>10, Zenon DEF BrokenMeansFailing

-----------------------------------------------------------------------------
(* Retention: the files are at most as many as are kept, and a run that    *)
(* ends is the last of them.                                               *)
FilesInv == files \in Runs /\ keep \in Keeps /\ Len(files) <= keep

LEMMA RunFollows ==
    ASSUME FilesInv, NEW e \in Entries \cup {Absent}, NEW r, FinishRun(e, r)
    PROVE  FilesInv' /\ \E d : Follows(files, files', d, e)
<1>1. PICK R, Q, K : R = files /\ Q = files' /\ K = keep
  OBVIOUS
<1>2. R \in Seq(Entries \cup {Absent}) /\ K \in Nat \ {0} /\ Len(R) \in Nat /\ Len(R) <= K
  BY <1>1, WindowAssumption DEF FilesInv, Runs
<1>3. PICK d \in {0, 1} : /\ d = (IF Len(R) < K THEN 0 ELSE 1) /\ d <= Len(R)
                          /\ (IF Len(R) < K THEN 1 ELSE 2) = d + 1 /\ Len(R) + 1 - d <= K
  <2>1. CASE Len(R) < K
    BY <1>2, <2>1
  <2>2. CASE ~(Len(R) < K)
    BY <1>2, <2>2
  <2> QED
    BY <2>1, <2>2
<1>4. PICK S : S = SubSeq(R, d + 1, Len(R))
  OBVIOUS
<1>5. Q = S \o <<e>>
  BY <1>1, <1>3, <1>4 DEF FinishRun
<1>6. /\ S \in Seq(Entries \cup {Absent}) /\ Len(S) = Len(R) - d
      /\ \A k \in 1..(Len(R) - d) : S[k] = R[k + d]
  <2>1. CASE d = 0
    BY <1>2, <1>4, <2>1
  <2>2. CASE d = 1
    <3>1. S = SubSeq(R, 2, Len(R)) /\ Len(R) >= 1
      BY <1>2, <1>3, <1>4, <2>2
    <3>2. S \in Seq(Entries \cup {Absent})
      BY <1>2, <3>1
    <3>3. Len(S) = Len(R) - 1
      <4>1. PICK n \in Nat : n = Len(R)
        BY <1>2
      <4>2. n >= 1
        BY <3>1, <4>1
      <4>3. CASE n = 1
        <5>1. Len(SubSeq(R, 2, 1)) = 0
          BY <1>2
        <5> QED
          BY <3>1, <4>1, <4>3, <5>1
      <4>4. CASE n # 1
        <5>1. n >= 2
          BY <4>2, <4>4
        <5>2. Len(SubSeq(R, 2, n)) = n - 2 + 1
          BY <1>2, <4>1, <5>1
        <5> QED
          BY <3>1, <4>1, <5>1, <5>2
      <4> QED
        BY <4>3, <4>4
    <3>4. \A k \in 1..(Len(R) - 1) : S[k] = R[k + 1]
      BY <1>2, <3>1
    <3> QED
      BY <2>2, <3>2, <3>3, <3>4
  <2> QED
    BY <2>1, <2>2
<1>7. /\ Q \in Seq(Entries \cup {Absent}) /\ Len(Q) = Len(S) + 1 /\ Q[Len(S) + 1] = e
      /\ \A k \in 1..Len(S) : Q[k] = S[k]
  BY <1>5, <1>6
<1>8. Len(Q) = Len(R) + 1 - d /\ \A k \in 1..(Len(R) - d) : Q[k] = R[k + d]
  <2>1. Len(Q) = Len(R) + 1 - d
    BY <1>2, <1>6, <1>7
  <2>2. \A k \in 1..(Len(R) - d) : Q[k] = R[k + d]
    BY <1>6, <1>7
  <2> QED
    BY <2>1, <2>2
<1>9. Follows(R, Q, d, e)
  BY <1>2, <1>3, <1>7, <1>8 DEF Follows, Runs
<1>10. FilesInv'
  <2>1. keep' = K /\ keep' \in Keeps
    BY <1>1 DEF FinishRun, FilesInv
  <2> QED
    BY <1>1, <1>3, <1>7, <1>8, <2>1 DEF FilesInv, Runs
<1> QED
  BY <1>1, <1>9, <1>10

LEMMA OthersLeaveFiles ==
    ASSUME [Next]_vars,
           ~ \E e \in Entries \cup {Absent}, r \in BOOLEAN : FinishRun(e, r)
    PROVE  files' = files /\ keep' = keep
  BY DEF Next, vars, FinishRunUnfiled, PersistSnapshot, LosesSnapshot, RunAges, SnapshotAges

(* The runs on disk, whatever retention has removed (prune).               *)
THEOREM FilesInvariant == Spec => []FilesInv
<1>1. Init => FilesInv
  BY WindowAssumption DEF Init, FilesInv, Runs
<1>2. FilesInv /\ [Next]_vars => FilesInv'
  <2> SUFFICES ASSUME FilesInv, [Next]_vars PROVE FilesInv'
    OBVIOUS
  <2>1. CASE \E e \in Entries \cup {Absent}, r \in BOOLEAN : FinishRun(e, r)
    BY <2>1, RunFollows
  <2>2. CASE ~ \E e \in Entries \cup {Absent}, r \in BOOLEAN : FinishRun(e, r)
    BY <2>2, OthersLeaveFiles DEF FilesInv
  <2> QED
    BY <2>1, <2>2
<1> QED
  BY <1>1, <1>2, PTL DEF Spec

(* An installer called broken has failed ever since with one script, three *)
(* failures in a row are called broken, and a flaky one has failed and     *)
(* passed with one script (assess), for any runs and any retention.        *)
THEOREM BrokenIsFailing == Spec => []BrokenMeansFailing
<1>1. FilesInv => BrokenMeansFailing
  BY BrokenFails DEF FilesInv
<1> QED
  BY <1>1, FilesInvariant, PTL

LEMMA BrokenAgain ==
    ASSUME FilesInv, [Next]_vars
    PROVE  StillBroken
<1>1. CASE files' = files
  BY <1>1 DEF StillBroken
<1>2. CASE files' # files
  <2>1. PICK e \in Entries \cup {Absent}, r \in BOOLEAN : FinishRun(e, r)
    BY <1>2, OthersLeaveFiles
  <2>2. PICK d : Follows(files, files', d, e)
    BY <2>1, RunFollows
  <2>3. PICK R \in Runs, Q \in Runs : R = files /\ Q = files'
    BY <2>2 DEF Follows
  <2>4. /\ Follows(R, Q, d, e) /\ Len(R) \in Nat /\ Len(Q) \in Nat /\ Q[Len(Q)] = e
        /\ Len(R) + 1 - Len(Q) = d
    <3>1. Len(Q) = Len(R) + 1 - d /\ d \in {0, 1} /\ Q[Len(Q)] = e
      BY <2>2, <2>3 DEF Follows
    <3> QED
      BY <2>2, <2>3, <3>1, ConsideredFacts
  <2>5. PICK since, now : since = broken_since(R) /\ now = broken_since(Q)
    OBVIOUS
  <2>6. /\ Outcomes = Considered(R) /\ Verdict.broken_since = since
        /\ assess(files').broken_since = now
    BY <2>3, <2>5, VerdictFacts DEF assess
  <2>7. {k \in Outcomes : files[k].sha # Missing} = Hashed(R)
    BY <2>3, <2>6 DEF Hashed
  <2>8. Last(files') = e
    BY <2>3, <2>4 DEF Last
  <2>9. ASSUME since > d, e.status \in {"failed", "timedout"},
               \/ e.sha = Missing \/ Hashed(R) = {}
               \/ e.sha = R[Max(Hashed(R))].sha
        PROVE  /\ \/ d = 0 \/ 1 \notin Considered(R)
                  \/ \E j, k \in Hashed(R) \ {1} : R[j].sha # R[k].sha
                  => now = since - d
               /\ Cardinality({k \in Considered(R) : k >= since}) >= 2
                  => now \in 1..(since - d)
    <3>1. FailsAgain(R, Q, d, e)
      BY <2>4, <2>9 DEF FailsAgain, SameScript
    <3>2. ASSUME \/ d = 0 \/ 1 \notin Considered(R)
                 \/ \E j, k \in Hashed(R) \ {1} : R[j].sha # R[k].sha
          PROVE  now = since - d
      <4>1. Kept(R, d)
        BY <3>2 DEF Kept
      <4> QED
        BY <2>5, <2>9, <3>1, <4>1, StaysBrokenSince
    <3>3. ASSUME Cardinality({k \in Considered(R) : k >= since}) >= 2
          PROVE  now \in 1..(since - d)
      <4>1. Considered(R) \subseteq Nat
        BY ConsideredFacts
      <4>2. PICK p \in {k \in Considered(R) : k >= since},
                 q \in {k \in Considered(R) : k >= since} : p < q
        BY <3>3, <4>1, TwoAtLeast
      <4>3. since \in Nat
        BY <2>5, SinceFacts
      <4>4. p \in Considered(R) /\ q \in Considered(R) /\ since <= p
        BY <4>1, <4>3
      <4> QED
        BY <2>5, <2>9, <3>1, <4>2, <4>4, StaysBrokenTwice
    <3> QED
      BY <3>2, <3>3
  <2>10. PICK dropped, new, hashed, was, then :
           /\ dropped = Len(files) + 1 - Len(files') /\ new = Last(files')
           /\ hashed = {k \in Outcomes : files[k].sha # Missing}
           /\ was = Verdict.broken_since /\ then = assess(files').broken_since
    OBVIOUS
  <2>11. /\ dropped = d /\ new = e /\ hashed = Hashed(R) /\ was = since /\ then = now
         /\ Outcomes = Considered(R) /\ files = R
    BY <2>3, <2>4, <2>6, <2>7, <2>8, <2>10
  <2>12. ASSUME was > dropped, new.status \in {"failed", "timedout"},
                \/ new.sha = Missing \/ hashed = {}
                \/ new.sha = files[Max(hashed)].sha
         PROVE  /\ \/ dropped = 0 \/ 1 \notin Outcomes
                   \/ \E j, k \in hashed \ {1} : files[j].sha # files[k].sha
                   => then = was - dropped
                /\ Cardinality({k \in Outcomes : k >= was}) >= 2
                   => then \in 1..(was - dropped)
    BY <2>9, <2>11, <2>12
  <2> QED
    BY <2>10, <2>12, Zenon DEF StillBroken
<1> QED
  BY <1>1, <1>2

(* A broken installer that fails once more stays broken, in the cases the  *)
(* property names (assess, prune).                                         *)
THEOREM BrokenStays == Spec => StaysBroken
<1>1. FilesInv /\ [Next]_vars => [StillBroken]_vars
  BY BrokenAgain
<1> QED
  BY <1>1, FilesInvariant, PTL DEF Spec, StaysBroken

-----------------------------------------------------------------------------
(* The bounds: a run that may still be counted has room in the count.      *)
Room ==
    /\ Len(window) <= MaxWindow /\ snapshot.remediations <= MaxCount
    /\ pending /\ window[Len(window)].remediated => snapshot.remediations < MaxCount

LEMMA RoomNext == WindowInv /\ Room /\ [Next]_vars => Room'
<1> SUFFICES ASSUME WindowInv, Room, [Next]_vars PROVE Room'
  OBVIOUS
<1>1. PICK w \in Seq(RunFacts), s \in [remediations : Nat, fresh : BOOLEAN] :
          w = window /\ s = snapshot
  BY DEF WindowInv
<1>2. /\ Len(w) \in Nat /\ MaxWindow \in Nat /\ MaxCount \in Nat /\ s.remediations \in Nat
      /\ Len(w) <= MaxWindow /\ s.remediations <= MaxCount
  BY <1>1, WindowAssumption DEF Room
<1>3. ASSUME NEW v \in Seq(RunFacts), NEW r \in BOOLEAN, window' = v, snapshot' = snapshot,
             Len(v) = Len(w) + 1, Len(w) < MaxWindow, v[Len(v)].remediated = r,
             r => s.remediations < MaxCount
      PROVE  Room'
  BY <1>1, <1>2, <1>3 DEF Room
<1>4. ASSUME NEW e, NEW r \in BOOLEAN, FinishRun(e, r) PROVE Room'
  <2>1. PICK n : n = [remediated |-> r, filed |-> TRUE, saved |-> FALSE]
    OBVIOUS
  <2>2. n \in RunFacts /\ n.remediated = r
    BY <2>1 DEF RunFacts
  <2>3. PICK u : u = Append(w, n)
    OBVIOUS
  <2>4. u \in Seq(RunFacts) /\ Len(u) = Len(w) + 1 /\ u[Len(w) + 1] = n /\ Len(w) + 1 \in DOMAIN u
    BY <2>2, <2>3, AppendFacts
  <2>5. PICK v : v = Pruned(u)
    OBVIOUS
  <2>6. /\ v \in Seq(RunFacts) /\ Len(v) = Len(u)
        /\ \A k \in DOMAIN u : v[k].remediated = u[k].remediated
    BY <2>4, <2>5, PrunedFacts
  <2>7. /\ window' = v /\ snapshot' = snapshot /\ Len(w) < MaxWindow
        /\ r => s.remediations < MaxCount
    BY <1>1, <1>4, <2>1, <2>3, <2>5 DEF FinishRun
  <2>8. v[Len(v)].remediated = r
    BY <2>2, <2>4, <2>6
  <2> QED
    BY <1>3, <2>4, <2>6, <2>7, <2>8
<1>5. ASSUME NEW r \in BOOLEAN, FinishRunUnfiled(r) PROVE Room'
  <2>1. PICK n : n = [remediated |-> r, filed |-> FALSE, saved |-> FALSE]
    OBVIOUS
  <2>2. n \in RunFacts /\ n.remediated = r
    BY <2>1 DEF RunFacts
  <2>3. PICK u : u = Append(w, n)
    OBVIOUS
  <2>4. u \in Seq(RunFacts) /\ Len(u) = Len(w) + 1 /\ u[Len(w) + 1] = n
    BY <2>2, <2>3, AppendFacts
  <2>5. /\ window' = u /\ snapshot' = snapshot /\ Len(w) < MaxWindow
        /\ r => s.remediations < MaxCount
    BY <1>1, <1>5, <2>1, <2>3 DEF FinishRunUnfiled
  <2> QED
    BY <1>3, <2>2, <2>4, <2>5
<1>6. CASE PersistSnapshot
  <2>1. PICK n \in Nat : n = Len(w)
    BY <1>2
  <2>2. n \in DOMAIN w /\ w[n] \in RunFacts /\ pending /\ DOMAIN w = 1..n
    BY <1>1, <1>6, <2>1 DEF PersistSnapshot, WindowInv
  <2>3. window' = [w EXCEPT ![n].saved = TRUE] /\ pending' = FALSE
    BY <1>1, <1>6, <2>1 DEF PersistSnapshot
  <2>4. Len(window') = n
    BY <2>1, <2>2, <2>3
  <2>5. snapshot'.remediations = Carried + (IF w[n].remediated THEN 1 ELSE 0)
    BY <1>1, <1>6, <2>1 DEF PersistSnapshot, Last
  <2>6. Carried \in Nat /\ Carried <= s.remediations
    BY <1>1, <1>2 DEF Carried
  <2>7. w[n].remediated \in BOOLEAN
    BY <2>2 DEF RunFacts
  <2>8. w[n].remediated => s.remediations < MaxCount
    BY <1>1, <2>1, <2>2 DEF Room
  <2>9. snapshot'.remediations <= MaxCount
    BY <1>2, <2>5, <2>6, <2>7, <2>8
  <2> QED
    BY <1>2, <2>1, <2>3, <2>4, <2>9 DEF Room
<1>7. CASE LosesSnapshot
  BY <1>7 DEF LosesSnapshot, Room
<1>8. CASE RunAges
  <2>1. /\ window' = Tail(w) /\ snapshot' = snapshot /\ pending' = pending
        /\ Len(w) > (IF pending THEN 1 ELSE 0)
    BY <1>1, <1>8 DEF RunAges
  <2>2. PICK v : v = Tail(w)
    OBVIOUS
  <2>3. Len(w) > 0
    BY <1>2, <2>1
  <2>4. Len(v) = Len(w) - 1 /\ \A k \in 1..(Len(w) - 1) : v[k] = w[k + 1]
    BY <1>2, <2>2, <2>3
  <2>5. pending => v[Len(v)] = w[Len(w)]
    BY <1>2, <2>1, <2>4
  <2> QED
    BY <1>1, <1>2, <2>1, <2>2, <2>4, <2>5 DEF Room
<1>9. CASE SnapshotAges
  <2>1. /\ window' = window /\ pending' = pending
        /\ snapshot'.remediations = snapshot.remediations
    BY <1>1, <1>9 DEF SnapshotAges
  <2> QED
    BY <2>1 DEF Room
<1>10. CASE UNCHANGED vars
  BY <1>10 DEF vars, Room
<1> QED
  BY <1>4, <1>5, <1>6, <1>7, <1>8, <1>9, <1>10 DEF Next

(* Type correctness of the data directory: retention holds (prune), and    *)
(* the count stays within its bound, which only a remediated run meets.    *)
THEOREM WindowTypeCorrect == Spec => []WindowTypeOK
<1>1. Init => Room
  BY WindowAssumption DEF Init, Room
<1>2. Spec => []Room
  BY <1>1, WindowInvariant, RoomNext, PTL DEF Spec
<1>3. FilesInv /\ WindowInv /\ Room => WindowTypeOK
  <2> SUFFICES ASSUME FilesInv, WindowInv, Room PROVE WindowTypeOK
    OBVIOUS
  <2>1. PICK s \in [remediations : Nat, fresh : BOOLEAN] : s = snapshot
    BY DEF WindowInv
  <2>2. s \in [remediations : 0..MaxCount, fresh : BOOLEAN]
    BY <2>1, WindowAssumption DEF Room
  <2> QED
    BY <2>1, <2>2 DEF FilesInv, Runs, WindowInv, Room, WindowTypeOK
<1> QED
  BY <1>2, <1>3, FilesInvariant, WindowInvariant, PTL

=============================================================================
