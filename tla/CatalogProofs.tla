---------------------------- MODULE CatalogProofs ----------------------------
(***************************************************************************)
(* The catalog for every set of courses and entries: the invariants of its    *)
(* atomic writes, and one inductive invariant, ClientsInv, of administrators, *)
(* requests for generated roadmaps and the import that meet in it, from       *)
(* which the properties of the generation and of the import follow.          *)
(***************************************************************************)
EXTENDS CatalogClients, FiniteSetTheorems, WellFoundedInduction, SequenceTheorems, TLAPS

-----------------------------------------------------------------------------
(* Numbers: induction and functions defined from each number to the next.  *)

\* Every non-empty set of numbers has a least one.
LEMMA LeastNumber ==
  ASSUME NEW T \in SUBSET Nat, T # {}
  PROVE  \E m \in T : \A k \in T : m <= k
<1>. DEFINE Below == {0 .. k : k \in T}
<1>1. Below \subseteq FiniteSubsetsOf(Nat)
  <2>1. ASSUME NEW k \in T PROVE 0 .. k \in FiniteSubsetsOf(Nat)
    <3>1. k \in Int /\ 0 \in Int /\ 0 .. k \in SUBSET Nat
      OBVIOUS
    <3>2. IsFiniteSet(0 .. k)
      BY <3>1, FS_Interval
    <3>. QED BY <3>1, <3>2 DEF FiniteSubsetsOf
  <2>. QED BY <2>1
<1>2. Below # {}
  OBVIOUS
<1>3. IsWellFoundedOn(StrictSubsetOrdering(Nat), FiniteSubsetsOf(Nat))
  BY FS_StrictSubsetOrderingWellFounded
<1>4. PICK x \in Below : \A y \in Below : <<y, x>> \notin StrictSubsetOrdering(Nat)
  <2>. HIDE DEF Below
  <2>. QED BY <1>1, <1>2, <1>3, WFMin
<1>5. PICK m \in T : x = 0 .. m
  OBVIOUS
<1>6. ASSUME NEW k \in T, k < m PROVE FALSE
  <2>1. <<0 .. k, 0 .. m>> \in (SUBSET Nat) \X (SUBSET Nat)
    OBVIOUS
  <2>2. m \in 0 .. m /\ m \notin 0 .. k /\ 0 .. k \subseteq 0 .. m
    BY <1>6
  <2>3. <<0 .. k, 0 .. m>> \in StrictSubsetOrdering(Nat)
    BY <2>1, <2>2 DEF StrictSubsetOrdering
  <2>. QED BY <1>4, <1>5, <2>3
<1>. QED BY <1>6

\* Induction up to n, for a set of numbers.
LEMMA Reaches ==
  ASSUME NEW n \in Nat, NEW T, 0 \in T, \A i \in 1 .. n : i - 1 \in T => i \in T
  PROVE  0 .. n \subseteq T
<1>. SUFFICES ASSUME (0 .. n) \ T # {} PROVE FALSE
  OBVIOUS
<1>1. PICK m \in (0 .. n) \ T : \A k \in (0 .. n) \ T : m <= k
  <2>1. (0 .. n) \ T \in SUBSET Nat
    OBVIOUS
  <2>. QED BY <2>1, LeastNumber
<1>2. m \in 0 .. n /\ m \notin T /\ m # 0
  BY <1>1
<1>3. m \in 1 .. n /\ m - 1 \in 0 .. n /\ ~(m <= m - 1)
  BY <1>2
<1>. QED BY <1>1, <1>2, <1>3

\* f starts from v0 and goes from each number to the next by step.
Folds(f, n, v0, step) == f[0] = v0 /\ \A i \in 1 .. n : f[i] = step[i][f[i - 1]]
SomeFold(n, V, v0, step) == \E f \in [0 .. n -> V] : Folds(f, n, v0, step)

\* A function defined by a step from each number to the next exists.
LEMMA FoldExists ==
  ASSUME NEW n \in Nat, NEW V, NEW v0 \in V, NEW step \in [1 .. n -> [V -> V]]
  PROVE  SomeFold(n, V, v0, step)
<1>. DEFINE Is(f, m) == Folds(f, m, v0, step)
            T == {m \in 0 .. n : \E f \in [0 .. m -> V] : Is(f, m)}
<1>1. 0 \in T
  <2>. DEFINE f == [i \in 0 .. 0 |-> v0]
  <2>1. f \in [0 .. 0 -> V] /\ Is(f, 0)
    BY DEF Folds
  <2>. HIDE DEF f
  <2>. QED BY <2>1
<1>2. ASSUME NEW m \in 1 .. n, m - 1 \in T PROVE m \in T
  <2>1. PICK f \in [0 .. (m - 1) -> V] : Is(f, m - 1)
    BY <1>2
  <2>. DEFINE g == [i \in 0 .. m |-> IF i = m THEN step[m][f[m - 1]] ELSE f[i]]
  <2>2. \A i \in 0 .. (m - 1) : g[i] = f[i]
    OBVIOUS
  <2>3. g[m] = step[m][g[m - 1]]
    <3>1. m \in 0 .. m /\ m - 1 \in 0 .. (m - 1)
      OBVIOUS
    <3>. QED BY <2>2, <3>1
  <2>4. step[m][f[m - 1]] \in V
    OBVIOUS
  <2>5. g \in [0 .. m -> V]
    BY <2>4
  <2>6. \A i \in 1 .. m : i = m \/ (i \in 1 .. (m - 1) /\ i \in 0 .. (m - 1) /\ i - 1 \in 0 .. (m - 1))
    OBVIOUS
  <2>7. Is(g, m)
    <3>1. 0 \in 0 .. (m - 1)
      OBVIOUS
    <3>. HIDE DEF g
    <3>. QED BY <2>1, <2>2, <2>3, <2>6, <3>1 DEF Folds
  <2>. HIDE DEF Is, g
  <2>. QED BY <2>5, <2>7
<1>3. 0 .. n \subseteq T
  <2>. HIDE DEF T
  <2>. QED BY <1>1, <1>2, Reaches
<1>4. n \in T
  BY <1>3
<1>. QED BY <1>4 DEF SomeFold

-----------------------------------------------------------------------------
(* Lemmas about the prerequisite graph.                                     *)

\* The recursive query returns the ids it starts from.
LEMMA ReachableContainsStart ==
  ASSUME NEW P \in SUBSET Courses
  PROVE  P \subseteq Reachable(P)
BY DEF Reachable

\* The recursive query returns a set closed under prerequisites.
LEMMA ReachableIsClosed ==
  ASSUME TypeOK, NEW P \in SUBSET Courses
  PROVE  PrereqClosed(Reachable(P))
<1> SUFFICES ASSUME NEW x \in Reachable(P), NEW y \in prereqs[x]
             PROVE  y \in Reachable(P)
  BY DEF PrereqClosed
<1>1. x \in Courses /\ y \in Courses
  BY DEF Reachable, TypeOK
<1>2. ASSUME NEW S \in SUBSET Courses, P \subseteq S, PrereqClosed(S)
      PROVE  y \in S
  <2>1. x \in S
    BY <1>2 DEF Reachable
  <2> QED
    BY <1>2, <2>1 DEF PrereqClosed
<1> QED
  BY <1>1, <1>2 DEF Reachable

\* Pointing a course at a closed set it is not in keeps the graph acyclic: a set
\* of courses that meets the closed set has its minimal member there, and a set
\* that does not meet it keeps the minimal member it had.
LEMMA RedirectKeepsAcyclic ==
  ASSUME TypeOK, PrerequisitesAcyclic,
         NEW c \in Courses, NEW R \in SUBSET Courses, NEW P \in SUBSET R,
         PrereqClosed(R), c \notin R,
         prereqs' = [prereqs EXCEPT ![c] = P]
  PROVE  PrerequisitesAcyclic'
<1> SUFFICES ASSUME NEW S \in SUBSET Courses, S # {}
             PROVE  \E x \in S : prereqs'[x] \cap S = {}
  BY DEF PrerequisitesAcyclic
<1>0. /\ prereqs'[c] = P
      /\ \A d \in Courses \ {c} : prereqs'[d] = prereqs[d]
  BY DEF TypeOK
<1>1. CASE S \cap R # {}
  <2>1. PICK x \in S \cap R : prereqs[x] \cap (S \cap R) = {}
    BY <1>1 DEF PrerequisitesAcyclic
  <2>2. prereqs[x] \subseteq R
    BY DEF PrereqClosed
  <2> QED
    BY <1>0, <2>1, <2>2
<1>2. CASE S \cap R = {}
  <2>1. PICK x \in S : prereqs[x] \cap S = {}
    BY DEF PrerequisitesAcyclic
  <2>2. CASE x = c
    BY <1>0, <1>2, <2>2
  <2>3. CASE x # c
    BY <1>0, <2>1, <2>3
  <2> QED
    BY <2>2, <2>3
<1> QED
  BY <1>1, <1>2

-----------------------------------------------------------------------------
(* The steps.                                                              *)

\* Every write keeps every variable in its type.
LEMMA TypeStep ==
  TypeOK /\ [Next]_vars => TypeOK'
<1> SUFFICES ASSUME TypeOK, [Next]_vars PROVE TypeOK'
  OBVIOUS
<1> USE DEF TypeOK, Existing
<1>1. ASSUME NEW k \in Kind, NEW e \in Entries, SaveTaxonomy(k, e)
      PROVE  TypeOK'
  BY <1>1 DEF SaveTaxonomy
<1>2. ASSUME NEW k \in Kind, NEW e \in Entries, DeleteTaxonomy(k, e)
      PROVE  TypeOK'
  BY <1>2 DEF DeleteTaxonomy
<1>3. ASSUME NEW c \in Courses, NEW f \in BOOLEAN, NEW t \in TagChoices,
             NEW P \in SUBSET Courses, CreateCourse(c, f, t, P)
      PROVE  TypeOK'
  BY <1>3 DEF CreateCourse, TagChoices, CourseStatus
<1>4. ASSUME NEW c \in Courses, NEW f \in BOOLEAN, NEW t \in TagChoices,
             NEW P \in SUBSET Courses, UpdateCourse(c, f, t, P)
      PROVE  TypeOK'
  BY <1>4 DEF UpdateCourse, TagChoices
<1>5. ASSUME NEW c \in Courses, NEW s \in CourseStatus, ChangeStatus(c, s)
      PROVE  TypeOK'
  BY <1>5 DEF ChangeStatus, CourseStatus
<1>6. CASE UNCHANGED vars
  BY <1>6 DEF vars
<1> QED
  BY <1>1, <1>2, <1>3, <1>4, <1>5, <1>6 DEF Next

\* Rows are only removed by DeleteTaxonomy, which refuses an entry in use, and
\* courses never are.
LEMMA NoDanglingStep ==
  TypeOK /\ NoDanglingReference /\ [Next]_vars => NoDanglingReference'
<1> SUFFICES ASSUME TypeOK, NoDanglingReference, [Next]_vars
             PROVE  NoDanglingReference'
  OBVIOUS
<1> USE DEF TypeOK, NoDanglingReference, Existing
<1>1. ASSUME NEW k \in Kind, NEW e \in Entries, SaveTaxonomy(k, e)
      PROVE  NoDanglingReference'
  BY <1>1 DEF SaveTaxonomy
<1>2. ASSUME NEW k \in Kind, NEW e \in Entries, DeleteTaxonomy(k, e)
      PROVE  NoDanglingReference'
  BY <1>2 DEF DeleteTaxonomy
<1>3. ASSUME NEW c \in Courses, NEW f \in BOOLEAN, NEW t \in TagChoices,
             NEW P \in SUBSET Courses, CreateCourse(c, f, t, P)
      PROVE  NoDanglingReference'
  BY <1>3 DEF CreateCourse, KnownTags
<1>4. ASSUME NEW c \in Courses, NEW f \in BOOLEAN, NEW t \in TagChoices,
             NEW P \in SUBSET Courses, UpdateCourse(c, f, t, P)
      PROVE  NoDanglingReference'
  BY <1>4 DEF UpdateCourse
<1>5. ASSUME NEW c \in Courses, NEW s \in CourseStatus, ChangeStatus(c, s)
      PROVE  NoDanglingReference'
  BY <1>5 DEF ChangeStatus, CourseStatus
<1>6. CASE UNCHANGED vars
  BY <1>6 DEF vars
<1> QED
  BY <1>1, <1>2, <1>3, <1>4, <1>5, <1>6 DEF Next

\* A new course points into the existing ones, an edited one into what it cannot
\* be reached from: both are closed sets without the course.
LEMMA AcyclicStep ==
  TypeOK /\ NoDanglingReference /\ PrerequisitesAcyclic /\ [Next]_vars
    => PrerequisitesAcyclic'
<1> SUFFICES ASSUME TypeOK, NoDanglingReference, PrerequisitesAcyclic, [Next]_vars
             PROVE  PrerequisitesAcyclic'
  OBVIOUS
<1>1. ASSUME NEW c \in Courses, NEW f \in BOOLEAN, NEW t \in TagChoices,
             NEW P \in SUBSET Courses, CreateCourse(c, f, t, P)
      PROVE  PrerequisitesAcyclic'
  <2>1. PrereqClosed(Existing)
    BY DEF PrereqClosed, NoDanglingReference, Existing
  <2>2. c \notin Existing /\ P \in SUBSET Existing
    BY <1>1 DEF CreateCourse, Existing
  <2>3. Existing \in SUBSET Courses
    BY DEF Existing
  <2>4. prereqs' = [prereqs EXCEPT ![c] = P]
    BY <1>1 DEF CreateCourse
  <2> QED
    BY <2>1, <2>2, <2>3, <2>4, RedirectKeepsAcyclic
<1>2. ASSUME NEW c \in Courses, NEW f \in BOOLEAN, NEW t \in TagChoices,
             NEW P \in SUBSET Courses, UpdateCourse(c, f, t, P)
      PROVE  PrerequisitesAcyclic'
  <2>1. CASE P = prereqs[c]
    <3>1. prereqs' = prereqs
      BY <1>2, <2>1 DEF UpdateCourse, TypeOK
    <3> QED
      BY <3>1 DEF PrerequisitesAcyclic
  <2>2. CASE P # prereqs[c]
    <3>1. c \notin Reachable(P)
      BY <1>2, <2>2 DEF UpdateCourse
    <3>2. Reachable(P) \in SUBSET Courses
      BY DEF Reachable
    <3>3. P \in SUBSET Reachable(P)
      BY ReachableContainsStart
    <3>4. prereqs' = [prereqs EXCEPT ![c] = P]
      BY <1>2 DEF UpdateCourse
    <3> QED
      BY <3>1, <3>2, <3>3, <3>4, ReachableIsClosed, RedirectKeepsAcyclic
  <2> QED
    BY <2>1, <2>2
<1>3. CASE UNCHANGED prereqs
  BY <1>3 DEF PrerequisitesAcyclic
<1> QED
  BY <1>1, <1>2, <1>3
  DEF Next, SaveTaxonomy, DeleteTaxonomy, ChangeStatus, vars

\* Publishing and editing ask for published prerequisites, withdrawing for no
\* published dependents.
LEMMA PrerequisitesPublishedStep ==
  TypeOK /\ PublishedClosed /\ [Next]_vars => PublishedClosed'
<1> SUFFICES ASSUME TypeOK, PublishedClosed, [Next]_vars
             PROVE  PublishedClosed'
  OBVIOUS
<1> USE DEF TypeOK, PublishedClosed, Published
<1>1. ASSUME NEW c \in Courses, NEW f \in BOOLEAN, NEW t \in TagChoices,
             NEW P \in SUBSET Courses, CreateCourse(c, f, t, P)
      PROVE  PublishedClosed'
  <2>1. Published' = Published /\ c \notin Published
    BY <1>1 DEF CreateCourse
  <2> QED
    BY <1>1, <2>1 DEF CreateCourse
<1>2. ASSUME NEW c \in Courses, NEW f \in BOOLEAN, NEW t \in TagChoices,
             NEW P \in SUBSET Courses, UpdateCourse(c, f, t, P)
      PROVE  PublishedClosed'
  BY <1>2 DEF UpdateCourse, Publishable
<1>3. ASSUME NEW c \in Courses, NEW s \in CourseStatus, ChangeStatus(c, s)
      PROVE  PublishedClosed'
  <2>1. CASE s = "published"
    BY <1>3, <2>1 DEF ChangeStatus, Publishable
  <2>2. CASE s # "published"
    BY <1>3, <2>2 DEF ChangeStatus, PublishedDependents
  <2> QED
    BY <2>1, <2>2
<1>4. CASE UNCHANGED <<status, prereqs>>
  BY <1>4
<1> QED
  BY <1>1, <1>2, <1>3, <1>4 DEF Next, SaveTaxonomy, DeleteTaxonomy, vars

\* Publishing and editing a published course ask for every required value.
LEMMA PublishedStayCompleteStep ==
  TypeOK /\ PublishedComplete /\ [Next]_vars => PublishedComplete'
<1> SUFFICES ASSUME TypeOK, PublishedComplete, [Next]_vars
             PROVE  PublishedComplete'
  OBVIOUS
<1> USE DEF TypeOK, PublishedComplete, Published
<1>1. ASSUME NEW c \in Courses, NEW f \in BOOLEAN, NEW t \in TagChoices,
             NEW P \in SUBSET Courses, CreateCourse(c, f, t, P)
      PROVE  PublishedComplete'
  BY <1>1 DEF CreateCourse
<1>2. ASSUME NEW c \in Courses, NEW f \in BOOLEAN, NEW t \in TagChoices,
             NEW P \in SUBSET Courses, UpdateCourse(c, f, t, P)
      PROVE  PublishedComplete'
  BY <1>2 DEF UpdateCourse, Publishable
<1>3. ASSUME NEW c \in Courses, NEW s \in CourseStatus, ChangeStatus(c, s)
      PROVE  PublishedComplete'
  BY <1>3 DEF ChangeStatus, Publishable
<1>4. CASE UNCHANGED <<status, filled, tags>>
  BY <1>4
<1> QED
  BY <1>1, <1>2, <1>3, <1>4 DEF Next, SaveTaxonomy, DeleteTaxonomy, vars

FinitelyMany == IsFiniteSet(Existing)

\* A write creates one course at most.
LEMMA FiniteStep ==
  TypeOK /\ FinitelyMany /\ [Next]_vars => FinitelyMany'
<1> SUFFICES ASSUME TypeOK, FinitelyMany, [Next]_vars
             PROVE  FinitelyMany'
  OBVIOUS
<1>1. \E c : Existing' \subseteq Existing \cup {c}
  <2>1. ASSUME NEW c \in Courses, NEW f \in BOOLEAN, NEW t \in TagChoices,
               NEW P \in SUBSET Courses, CreateCourse(c, f, t, P)
        PROVE  Existing' \subseteq Existing \cup {c}
    BY <2>1 DEF CreateCourse, Existing, TypeOK
  <2>2. ASSUME NEW c \in Courses, NEW s \in CourseStatus, ChangeStatus(c, s)
        PROVE  Existing' \subseteq Existing
    BY <2>2 DEF ChangeStatus, Existing, TypeOK
  <2>3. CASE UNCHANGED status
    BY <2>3 DEF Existing
  <2> QED
    BY <2>1, <2>2, <2>3 DEF Next, SaveTaxonomy, DeleteTaxonomy, UpdateCourse, vars
<1>2. PICK c : Existing' \subseteq Existing \cup {c}
  BY <1>1
<1> QED
  BY <1>2, FS_AddElement, FS_Subset DEF FinitelyMany

-----------------------------------------------------------------------------
(* Listing the published courses in order.                                 *)

\* s lists n published courses, each once and after its prerequisites.
InOrder(s, n) ==
  /\ s \in [1 .. n -> Published]
  /\ \A i \in 1 .. n :
       /\ \A j \in 1 .. (i - 1) : s[j] # s[i]
       /\ prereqs[s[i]] \subseteq {s[j] : j \in 1 .. (i - 1)}

\* A list in order that misses a published course can be continued: of those it
\* misses, one requires none of the others.
LEMMA OrderContinues ==
  ASSUME TypeOK, PrerequisitesAcyclic, PublishedClosed,
         NEW n \in Nat, NEW s, InOrder(s, n), NEW d \in Published,
         \A i \in 1 .. n : s[i] # d
  PROVE  \E t : InOrder(t, n + 1)
<1>. DEFINE Missed == {x \in Published : \A i \in 1 .. n : s[i] # x}
<1>1. PICK x \in Missed : prereqs[x] \cap Missed = {}
  <2>1. Missed \in SUBSET Courses /\ Missed # {}
    BY DEF Published
  <2>. QED BY <2>1 DEF PrerequisitesAcyclic
<1>2. prereqs[x] \subseteq {s[j] : j \in 1 .. n}
  BY <1>1 DEF PublishedClosed
<1>. DEFINE t == [i \in 1 .. (n + 1) |-> IF i = n + 1 THEN x ELSE s[i]]
<1>3. t[n + 1] = x /\ \A i \in 1 .. n : t[i] = s[i]
  OBVIOUS
<1>4. t \in [1 .. (n + 1) -> Published]
  BY <1>1 DEF InOrder
<1>. HIDE DEF t
<1>5. ASSUME NEW i \in 1 .. (n + 1)
      PROVE  /\ \A j \in 1 .. (i - 1) : t[j] # t[i]
             /\ prereqs[t[i]] \subseteq {t[j] : j \in 1 .. (i - 1)}
  <2>1. CASE i = n + 1
    BY <1>1, <1>2, <1>3, <2>1
  <2>2. CASE i # n + 1
    <3>1. i \in 1 .. n /\ \A j \in 1 .. (i - 1) : j \in 1 .. n
      BY <2>2
    <3>. QED BY <1>3, <3>1 DEF InOrder
  <2>. QED BY <2>1, <2>2
<1>. QED BY <1>4, <1>5 DEF InOrder

\* All published courses can be listed in order.
LEMMA OrderOfAll ==
  ASSUME TypeOK, PrerequisitesAcyclic, PublishedClosed, IsFiniteSet(Published)
  PROVE  \E s : InOrder(s, Cardinality(Published))
<1>. DEFINE N == Cardinality(Published)
            T == {n \in 0 .. N : \E s : InOrder(s, n)}
<1>1. N \in Nat
  BY FS_CardinalityType
<1>2. 0 \in T
  <2>1. InOrder(<< >>, 0)
    BY DEF InOrder
  <2>. QED BY <1>1, <2>1
<1>3. ASSUME NEW n \in 1 .. N, n - 1 \in T PROVE n \in T
  <2>1. PICK s : InOrder(s, n - 1)
    BY <1>3
  <2>2. n - 1 \in Nat /\ (n - 1) + 1 = n /\ n - 1 < N
    BY <1>1
  <2>3. PICK d \in Published : \A i \in 1 .. (n - 1) : s[i] # d
    <3>. SUFFICES ASSUME \A d \in Published : \E i \in 1 .. (n - 1) : s[i] = d
                  PROVE  FALSE
      OBVIOUS
    <3>1. s \in Surjection(1 .. (n - 1), Published)
      BY <2>1 DEF InOrder, Surjection
    <3>2. IsFiniteSet(1 .. (n - 1)) /\ Cardinality(1 .. (n - 1)) = n - 1
      BY <2>2, FS_Interval
    <3>3. N <= n - 1
      BY <3>1, <3>2, FS_Surjection
    <3>. QED BY <1>1, <2>2, <3>3
  <2>4. \E t : InOrder(t, (n - 1) + 1)
    BY <2>1, <2>2, <2>3, OrderContinues
  <2>. QED BY <2>2, <2>4
<1>. HIDE DEF T
<1>4. N \in T
  BY <1>1, <1>2, <1>3, Reaches
<1>. QED BY <1>4 DEF T

\* What the order of all gives for publication and validateRoadmapSelection.
LEMMA OrderedAreSelectable ==
  ASSUME TypeOK, PrerequisitesAcyclic, PublishedClosed, IsFiniteSet(Published)
  PROVE  PublishedSelectable
<1>. DEFINE N == Cardinality(Published)
<1>1. PICK s : InOrder(s, N)
  BY OrderOfAll
<1>2. N \in Nat
  BY FS_CardinalityType
<1>3. s \in Surjection(1 .. N, Published)
  <2>1. IsFiniteSet(1 .. N) /\ Cardinality(1 .. N) = N
    BY <1>2, FS_Interval
  <2>2. s \in Injection(1 .. N, Published)
    <3>1. \A i, j \in 1 .. N : i < j => s[i] # s[j]
      BY <1>1, <1>2 DEF InOrder
    <3>2. \A i, j \in 1 .. N : i < j \/ i = j \/ j < i
      BY <1>2
    <3>. QED BY <1>1, <3>1, <3>2 DEF InOrder, Injection, IsInjective
  <2>. QED BY <2>1, <2>2, FS_Injection
<1>. SUFFICES ASSUME NEW c \in Published
              PROVE  \E n \in 1 .. N : \E ids \in [1 .. n -> Published] :
                       ids[n] = c /\ ValidSelection(ids, {})
  BY DEF PublishedSelectable
<1>4. PICK n \in 1 .. N : s[n] = c
  BY <1>3 DEF Surjection
<1>. DEFINE ids == [i \in 1 .. n |-> s[i]]
<1>5. ids \in [1 .. n -> Published] /\ ids[n] = c
  BY <1>1, <1>2, <1>4 DEF InOrder
<1>6. ValidSelection(ids, {})
  <2>1. DOMAIN ids = 1 .. n /\ n \in DOMAIN ids
    BY <1>2
  <2>2. \A i \in 1 .. n : i \in 1 .. N /\ ids[i] = s[i] /\ \A j \in 1 .. (i - 1) : ids[j] = s[j]
    BY <1>2
  <2>3. ids # << >>
    BY <2>1
  <2>. HIDE DEF ids
  <2>. QED BY <1>1, <1>5, <2>1, <2>2, <2>3 DEF ValidSelection, InOrder
<1>. QED BY <1>5, <1>6

-----------------------------------------------------------------------------
(* The invariants of the atomic catalog.                                   *)

\* Init and every write keep every variable in its type.
THEOREM TypeCorrect == Spec => []TypeOK
<1>1. Init => TypeOK
  BY DEF Init, TypeOK, NoTags, CourseStatus
<1> QED
  BY <1>1, TypeStep, PTL DEF Spec

\* The join tables never point at a missing row: rows are only removed by
\* DeleteTaxonomy, which refuses an entry in use, and courses never are.
THEOREM NoDangling == Spec => []NoDanglingReference
<1>1. Init => NoDanglingReference
  BY DEF Init, NoDanglingReference, NoTags
<1> QED
  BY <1>1, NoDanglingStep, TypeCorrect, PTL DEF Spec

\* No sequence of creations and edits makes the prerequisites cyclic.  A new
\* course points into the existing ones, an edited one into what it cannot be
\* reached from: both are closed sets without the course.
THEOREM Acyclic == Spec => []PrerequisitesAcyclic
<1>1. Init => PrerequisitesAcyclic
  BY DEF Init, PrerequisitesAcyclic
<1> QED
  BY <1>1, AcyclicStep, TypeCorrect, NoDangling, PTL DEF Spec

\* What a published course requires is published: no order of publishing,
\* editing and withdrawing leaves a student a course that cannot be started.
THEOREM PrerequisitesPublished == Spec => []PublishedClosed
<1>1. Init => PublishedClosed
  BY DEF Init, PublishedClosed, Published
<1> QED
  BY <1>1, PrerequisitesPublishedStep, TypeCorrect, PTL DEF Spec

\* A published course has what publication requires, at any later time too.
THEOREM PublishedStayComplete == Spec => []PublishedComplete
<1>1. Init => PublishedComplete
  BY DEF Init, PublishedComplete, Published
<1> QED
  BY <1>1, PublishedStayCompleteStep, TypeCorrect, PTL DEF Spec

\* Publication agrees with the rule of validateRoadmapSelection: whatever was
\* written, every published course can be the last of an acceptable list.  The
\* published courses, being finite, closed and acyclic, can be listed in order, and
\* the list up to a course is one.
THEOREM PublishedAreSelectable == Spec => []PublishedSelectable
<1>1. Init => FinitelyMany
  <2>1. Init => Existing = {}
    BY DEF Init, Existing
  <2> QED
    BY <2>1, FS_EmptySet DEF FinitelyMany
<1>2. Spec => []FinitelyMany
  BY <1>1, FiniteStep, TypeCorrect, PTL DEF Spec
<1>3. TypeOK /\ PrerequisitesAcyclic /\ PublishedClosed /\ FinitelyMany
        => PublishedSelectable
  <2> SUFFICES ASSUME TypeOK, PrerequisitesAcyclic, PublishedClosed, FinitelyMany
               PROVE  PublishedSelectable
    OBVIOUS
  <2>1. Published \in SUBSET Existing
    BY DEF Published, Existing
  <2> QED
    BY <2>1, FS_Subset, OrderedAreSelectable DEF FinitelyMany
<1> QED
  BY <1>2, <1>3, TypeCorrect, Acyclic, PrerequisitesPublished, PTL

-----------------------------------------------------------------------------
(* The clients together: what holds between their steps.                    *)

\* The lock is held by the one transaction that is open under it.
LockHeld ==
  /\ lock \in {NoHolder, Importer} \cup Requests
  /\ \A g \in Requests : lock = g <=> gen[g].phase \in {"locked", "checked"}
  /\ lock = Importer <=> imp # Idle

\* A request that asks has a candidate that requires nothing and keeps only an
\* acceptable fallback; its plan is accepted, and valid once it is checked.
RequestOK(r) ==
  /\ DOMAIN r = {"phase", "candidates", "needs", "attempt", "plain", "fallback", "plan"}
  /\ r.phase = "asking" =>
       /\ \E c \in r.candidates : r.needs[c] = {}
       /\ r.fallback = << >> \/ SelectionAccepted(r, r.fallback)
  /\ r.phase \in {"planned", "locked"} => SelectionAccepted(r, r.plan)
  /\ r.phase = "checked" => ValidSelection(r.plan, {})

GenOK == DOMAIN gen = Requests /\ \A g \in Requests : RequestOK(gen[g])

\* The open transaction of the import.
RunTyped(r) ==
  /\ DOMAIN r = {"phase", "file", "at", "fill", "publish", "work", "pending", "index",
                 "progress", "promised"}
  /\ r.phase \in {"entries", "publishing", "questionnaire"}
  /\ r.file \in Files /\ r.at \in 1 .. (Len(r.file) + 1)
  /\ r.phase # "entries" => r.at = Len(r.file) + 1
  /\ r.pending \in Seq(Courses) /\ r.index \in 0 .. Len(r.pending)
  /\ ~r.publish => r.pending = << >>
  /\ ~r.publish => r.promised = {}
  /\ \A i \in DOMAIN r.file : r.file[i].category \in r.work.taxonomy["categories"]

Imported == {marker[s] : s \in Sources}

\* What work may differ in from the committed database.
Completes(work, fill, publish) ==
  /\ work.prereqs = prereqs
  /\ \A c \in Existing :
       /\ work.status[c] # status[c] =>
            /\ publish /\ c \in Imported
            /\ status[c] = "draft" /\ work.status[c] = "published"
       /\ work.url[c] = url[c]
       /\ filled[c] => work.filled[c]
       /\ \A k \in Kind : tags[c][k] \in {{}, work.tags[c][k]}
       /\ work.filled[c] # filled[c] \/ work.tags[c] # tags[c] => fill /\ c \in Imported
  /\ \A s \in Sources : marker[s] \in {NoCourse, work.marker[s]}

\* Courses wait for publication if the file made or marked them.
PendingOK(pending) ==
  \A i \in DOMAIN pending : pending[i] \in Existing => pending[i] \in Imported

\* Nothing is written yet for the entries from number at on.
Ahead(work, file, at) ==
  \A i \in at .. Len(file) :
    /\ work.marker[file[i].key] = marker[file[i].key]
    /\ \A c \in Courses : work.url[c] = file[i].key /\ work.status[c] # "absent" => c \in Existing

\* The courses promised before entry i.
Earlier(file, promised, i) ==
  {file[j].key : j \in {j \in 1 .. (i - 1) : file[j].key \in promised}}

\* Each promise is about an entry, and was made knowing those of the earlier entries.
PromisesMade(file, promised) ==
  /\ promised \subseteq {file[i].key : i \in 1 .. Len(file)}
  /\ \A i \in 1 .. Len(file) :
       file[i].key \in promised => Foreseen(file[i], Earlier(file, promised, i))

\* The course of a promise that the transaction has come to.
Kept(work, pending, file, promised, i) ==
  LET c == work.marker[file[i].key]
  IN /\ c \in Courses
     /\ work.filled[c] /\ \A k \in Kind : work.tags[c][k] # {}
     /\ prereqs[c] \subseteq Published \cup {work.marker[s] : s \in Earlier(file, promised, i)}
     /\ \/ work.status[c] = "published"
        \/ work.status[c] = "draft" /\ \E j \in DOMAIN pending : pending[j] = c

PromisesKept(work, pending, file, promised, at) ==
  \A i \in 1 .. (at - 1) :
    file[i].key \in promised => Kept(work, pending, file, promised, i)

Ready(work, c) ==
  /\ work.status[c] = "draft" /\ work.filled[c]
  /\ \A k \in Kind : work.tags[c][k] # {}
  /\ work.prereqs[c] \subseteq PublishedIn(work)

\* What a pass without progress has gone over cannot be published.
PassOK(r) ==
  /\ r.phase = "publishing" /\ ~r.progress =>
       \A i \in (r.index + 1) .. Len(r.pending) : ~Ready(r.work, r.pending[i])
  /\ r.phase = "questionnaire" =>
       \A i \in DOMAIN r.pending : ~Ready(r.work, r.pending[i])

RunOK(r) ==
  /\ RunTyped(r)
  /\ Lawful(r.work)
  /\ Completes(r.work, r.fill, r.publish)
  /\ PendingOK(r.pending)
  /\ Ahead(r.work, r.file, r.at)
  /\ PromisesMade(r.file, r.promised)
  /\ PromisesKept(r.work, r.pending, r.file, r.promised, r.at)
  /\ PassOK(r)

ImportOK == imp # Idle => RunOK(imp)

ClientsInv == Lawful(Committed) /\ LockHeld /\ GenOK /\ ImportOK

\* What Lawful says of the committed database, in the variables.
Rules ==
  /\ CatalogRulesHold /\ FinitelyMany
  /\ url \in [Courses -> Sources \cup {Elsewhere}]
  /\ marker \in [Sources -> Existing \cup {NoCourse}]
  /\ form \in TagChoices

\* The committed database, once lawful, keeps the rules of the catalog ...
LEMMA LawfulCommitted == Lawful(Committed) => Rules
<1>. SUFFICES ASSUME Lawful(Committed) PROVE Rules
  OBVIOUS
<1>1. ExistingIn(Committed) = Existing /\ PublishedIn(Committed) = Published
  BY DEF ExistingIn, PublishedIn, Existing, Published, Committed
<1>2. /\ taxonomy \in TagChoices /\ status \in [Courses -> CourseStatus \cup {"absent"}]
      /\ filled \in [Courses -> BOOLEAN] /\ tags \in [Courses -> TagChoices]
      /\ prereqs \in [Courses -> SUBSET Courses]
      /\ url \in [Courses -> Sources \cup {Elsewhere}]
      /\ marker \in [Sources -> Existing \cup {NoCourse}] /\ form \in TagChoices
  BY <1>1 DEF Lawful, Tables, Committed
<1>3. /\ FinitelyMany
      /\ \A c \in Courses \ Existing : ~filled[c] /\ tags[c] = NoTags /\ prereqs[c] = {}
      /\ PrerequisitesAcyclic
      /\ \A k \in Kind : form[k] \subseteq taxonomy[k]
  BY <1>1 DEF Lawful, Committed, FinitelyMany, PrerequisitesAcyclic
<1>4. PublishedClosed /\ PublishedComplete /\ NoDanglingReference
  BY <1>1 DEF Lawful, Committed, PublishedClosed, PublishedComplete, NoDanglingReference
<1>5. TypeOK
  BY <1>2, <1>3 DEF TypeOK, TagChoices
<1>. QED BY <1>2, <1>3, <1>4, <1>5 DEF Rules, CatalogRulesHold

\* ... and is lawful again when they hold after a step.
LEMMA RulesLawful == Rules' => Lawful(Committed)'
<1>. SUFFICES ASSUME Rules' PROVE Lawful(Committed)'
  OBVIOUS
<1>1. ExistingIn(Committed)' = Existing' /\ PublishedIn(Committed)' = Published'
  BY DEF ExistingIn, PublishedIn, Existing, Published, Committed
<1>2. /\ Committed' \in Tables
      /\ \A s \in Sources : marker'[s] \in Existing' \cup {NoCourse}
  BY <1>1 DEF Rules, CatalogRulesHold, TypeOK, TagChoices, Committed, Tables, Existing
<1>3. /\ Committed'.status = status' /\ Committed'.filled = filled' /\ Committed'.tags = tags'
      /\ Committed'.prereqs = prereqs' /\ Committed'.taxonomy = taxonomy'
      /\ Committed'.form = form' /\ Committed'.marker = marker'
  BY DEF Committed
<1>. QED BY <1>1, <1>2, <1>3 DEF Lawful, Rules, CatalogRulesHold, TypeOK, FinitelyMany,
             PrerequisitesAcyclic, PublishedClosed, PublishedComplete, NoDanglingReference

\* A write of the catalog keeps the database lawful.
LEMMA AdminKeepsLaw == Lawful(Committed) /\ AdminWrite => Lawful(Committed)'
<1>. SUFFICES ASSUME Lawful(Committed), AdminWrite PROVE Lawful(Committed)'
  OBVIOUS
<1>1. Rules
  BY LawfulCommitted
<1>2. Next
  <2>1. ASSUME NEW c \in Courses, SaveCourse(c) PROVE Next
    BY <2>1, ClientsAssumption DEF SaveCourse, Next
  <2>2. ASSUME NEW c \in Courses, NEW s \in CourseStatus, ChangeStatus(c, s) PROVE Next
    BY <2>2 DEF Next
  <2>3. ASSUME NEW k \in Kind, NEW e \in Entries, DeleteUnpinned(k, e) PROVE Next
    BY <2>3 DEF DeleteUnpinned, Next
  <2>. QED BY <2>1, <2>2, <2>3 DEF AdminWrite
<1>3. /\ TypeOK' /\ NoDanglingReference' /\ PrerequisitesAcyclic' /\ PublishedClosed'
      /\ PublishedComplete' /\ FinitelyMany'
  BY <1>1, <1>2, TypeStep, NoDanglingStep, AcyclicStep, PrerequisitesPublishedStep,
     PublishedStayCompleteStep, FiniteStep DEF Rules, CatalogRulesHold
<1>4. Existing \subseteq Existing'
  <2>1. ASSUME NEW c \in Courses, status'[c] = "absent" PROVE status[c] = "absent"
    BY <1>1, <1>2, <2>1 DEF Rules, CatalogRulesHold, TypeOK, Next, SaveTaxonomy, DeleteTaxonomy,
       CreateCourse, UpdateCourse, ChangeStatus, CourseStatus, Existing
  <2>. QED BY <2>1 DEF Existing
<1>5. url' \in [Courses -> Sources \cup {Elsewhere}]
  BY <1>1 DEF Rules, AdminWrite, SaveCourse, DeleteUnpinned
<1>6. marker' = marker /\ form' = form
  BY DEF AdminWrite
<1>7. \A k \in Kind : form[k] \subseteq taxonomy'[k]
  <2>1. CASE taxonomy' = taxonomy
    BY <1>1, <2>1 DEF Rules, CatalogRulesHold
  <2>2. ASSUME NEW k \in Kind, NEW e \in Entries, DeleteUnpinned(k, e)
        PROVE  \A j \in Kind : form[j] \subseteq taxonomy'[j]
    BY <1>1, <2>2 DEF Rules, CatalogRulesHold, DeleteUnpinned, DeleteTaxonomy, TypeOK
  <2>. QED BY <2>1, <2>2 DEF AdminWrite, SaveCourse, CreateCourse, UpdateCourse, ChangeStatus
<1>8. Rules'
  BY <1>1, <1>3, <1>4, <1>5, <1>6, <1>7 DEF Rules, CatalogRulesHold
<1>. QED BY <1>8, RulesLawful

\* The closure that selectCandidates adds is closed.
LEMMA ClosureIsClosed ==
  ASSUME NEW S, NEW y \in ClosedOverPrerequisites(S)
  PROVE  prereqs[y] \cap Published \subseteq ClosedOverPrerequisites(S)
<1>. SUFFICES ASSUME NEW x \in prereqs[y] \cap Published,
                     NEW T \in SUBSET Published, S \subseteq T,
                     \A z \in T : prereqs[z] \cap Published \subseteq T
              PROVE  x \in T
  BY DEF ClosedOverPrerequisites
<1>1. y \in T
  BY DEF ClosedOverPrerequisites
<1>. QED BY <1>1

\* Whatever the ranking and the limit, the candidates are published courses, with
\* the published prerequisites of each.
LEMMA CandidatesAreClosed ==
  ASSUME NEW n \in Nat, NEW ranked \in [1 .. n -> Published]
  PROVE  LET chosen == SelectCandidates(ranked)
         IN chosen \subseteq Published /\ \A y \in chosen : prereqs[y] \cap Published \subseteq chosen
<1>. DEFINE Closed == {T \in SUBSET Published : \A y \in T : prereqs[y] \cap Published \subseteq T}
            Turn(T, c) == LET next == ClosedOverPrerequisites(T \cup {c})
                          IN  IF T = {} \/ Cardinality(next) <= MaxCandidateCourses
                              THEN next ELSE T
            Is(f) == f = [i \in 0 .. n |-> IF i = 0 THEN {} ELSE Turn(f[i - 1], ranked[i])]
            Chosen == CHOOSE f : Is(f)
            step == [i \in 1 .. n |-> [x \in Closed |-> Turn(x, ranked[i])]]
<1>1. SelectCandidates(ranked) = Chosen[n]
  <2>1. Len(ranked) = n
    OBVIOUS
  <2>. QED BY <2>1 DEF SelectCandidates
<1>2. ASSUME NEW T \in Closed, NEW c PROVE Turn(T, c) \in Closed
  <2>1. ClosedOverPrerequisites(T \cup {c}) \in Closed
    <3>1. ClosedOverPrerequisites(T \cup {c}) \in SUBSET Published
      BY DEF ClosedOverPrerequisites
    <3>. QED BY <3>1, ClosureIsClosed
  <2>. QED BY <2>1
<1>3. step \in [1 .. n -> [Closed -> Closed]] /\ {} \in Closed
  <2>1. {} \in Closed
    OBVIOUS
  <2>. HIDE DEF Turn, Closed
  <2>. QED BY <1>2, <2>1
<1>4. \E f \in [0 .. n -> Closed] : Is(f)
  <2>. HIDE DEF Closed
  <2>1. PICK f \in [0 .. n -> Closed] : Folds(f, n, {}, step)
    <3>. HIDE DEF step
    <3>1. SomeFold(n, Closed, {}, step)
      BY <1>3, FoldExists
    <3>. QED BY <3>1 DEF SomeFold
  <2>2. \A i \in 1 .. n : step[i][f[i - 1]] = Turn(f[i - 1], ranked[i])
    <3>. SUFFICES ASSUME NEW i \in 1 .. n
                  PROVE  step[i][f[i - 1]] = Turn(f[i - 1], ranked[i])
      OBVIOUS
    <3>1. f[i - 1] \in Closed
      OBVIOUS
    <3>. HIDE DEF Turn
    <3>. QED BY <3>1
  <2>3. Is(f)
    <3>. HIDE DEF Turn, step
    <3>2. \A i \in 0 .. n : i = 0 \/ i \in 1 .. n
      OBVIOUS
    <3>3. \A i \in 0 .. n : f[i] = IF i = 0 THEN {} ELSE Turn(f[i - 1], ranked[i])
      BY <2>1, <2>2, <3>2 DEF Folds
    <3>. QED BY <2>1, <3>3
  <2>. QED BY <2>3
<1>5. Is(Chosen)
  <2>. HIDE DEF Is
  <2>. QED BY <1>4
<1>. DEFINE T == {i \in 0 .. n : Chosen[i] \in Closed}
<1>. HIDE DEF Closed, Chosen
<1>6. 0 \in T
  BY <1>3, <1>5
<1>7. ASSUME NEW i \in 1 .. n, i - 1 \in T PROVE i \in T
  <2>1. Chosen[i - 1] \in Closed
    BY <1>7
  <2>2. Chosen[i] = Turn(Chosen[i - 1], ranked[i])
    <3>. HIDE DEF Turn
    <3>1. \A j \in 0 .. n : Chosen[j] = IF j = 0 THEN {} ELSE Turn(Chosen[j - 1], ranked[j])
      BY <1>5
    <3>2. i \in 0 .. n /\ i # 0
      OBVIOUS
    <3>. QED BY <3>1, <3>2
  <2>. HIDE DEF Turn
  <2>. QED BY <1>2, <2>1, <2>2
<1>8. n \in T
  <2>. HIDE DEF T
  <2>. QED BY <1>6, <1>7, Reaches
<1>. QED BY <1>1, <1>8 DEF Closed

\* Some candidate requires nothing.
LEMMA CandidatesStart ==
  ASSUME TypeOK, PrerequisitesAcyclic, PublishedClosed,
         NEW chosen \in SUBSET Published, chosen # {},
         \A y \in chosen : prereqs[y] \cap Published \subseteq chosen
  PROVE  \E c \in chosen : prereqs[c] = {}
<1>1. chosen \in SUBSET Courses
  BY DEF Published
<1>2. PICK c \in chosen : prereqs[c] \cap chosen = {}
  BY <1>1 DEF PrerequisitesAcyclic
<1>3. prereqs[c] \subseteq Published
  BY DEF PublishedClosed
<1>. QED BY <1>2, <1>3

\* What coerceDraft keeps of an answer is nothing or an acceptable selection.
LEMMA CoercedIsAccepted ==
  ASSUME NEW r, NEW ids, NEW n \in Nat, Len(ids) = n
  PROVE  Coerced(r, ids) = << >> \/ SelectionAccepted(r, Coerced(r, ids))
<1>. DEFINE Good == {k \in Seq(r.candidates) :
                       /\ Len(k) <= MaxRoadmapCourses
                       /\ \A i \in 1 .. Len(k) :
                            /\ \A j \in 1 .. (i - 1) : k[j] # k[i]
                            /\ r.needs[k[i]] \subseteq {k[j] : j \in 1 .. (i - 1)}}
            Turn(k, id) ==
              LET available == {k[j] : j \in DOMAIN k}
              IN  IF /\ Len(k) < MaxRoadmapCourses
                     /\ id \in r.candidates \ available
                     /\ r.needs[id] \subseteq available
                  THEN Append(k, id)
                  ELSE k
            Is(f) == f = [i \in 0 .. n |-> IF i = 0 THEN << >> ELSE Turn(f[i - 1], ids[i])]
            Result == CHOOSE f : Is(f)
            step == [i \in 1 .. n |-> [k \in Good |-> Turn(k, ids[i])]]
<1>1. Coerced(r, ids) = Result[n]
  BY DEF Coerced
<1>2. ASSUME NEW k \in Good, NEW id PROVE Turn(k, id) \in Good
  <2>. DEFINE available == {k[j] : j \in DOMAIN k}
  <2>1. CASE Turn(k, id) = k
    BY <2>1
  <2>2. CASE /\ Turn(k, id) = Append(k, id)
             /\ Len(k) < MaxRoadmapCourses /\ id \in r.candidates \ available
             /\ r.needs[id] \subseteq available
    <3>. DEFINE a == Append(k, id)
                m == Len(k)
    <3>1. /\ m \in Nat /\ DOMAIN k = 1 .. m /\ k \in Seq(r.candidates)
          /\ available = {k[j] : j \in 1 .. m}
      OBVIOUS
    <3>2. /\ a \in Seq(r.candidates) /\ Len(a) = m + 1
          /\ a[m + 1] = id /\ \A i \in 1 .. m : a[i] = k[i]
      BY <2>2, <3>1
    <3>3. ASSUME NEW i \in 1 .. (m + 1)
          PROVE  /\ \A j \in 1 .. (i - 1) : a[j] # a[i]
                 /\ r.needs[a[i]] \subseteq {a[j] : j \in 1 .. (i - 1)}
      <4>. HIDE DEF a, available, m
      <4>1. CASE i = m + 1
        <5>1. i - 1 = m
          BY <3>1, <4>1
        <5>2. {a[j] : j \in 1 .. m} = available
          BY <3>1, <3>2
        <5>3. \A j \in 1 .. m : a[j] \in available
          BY <5>2
        <5>. QED BY <2>2, <3>2, <4>1, <5>1, <5>2, <5>3
      <4>2. CASE i # m + 1
        <5>1. i \in 1 .. m /\ \A j \in 1 .. (i - 1) : j \in 1 .. m
          BY <3>1, <4>2
        <5>2. {a[j] : j \in 1 .. (i - 1)} = {k[j] : j \in 1 .. (i - 1)}
          BY <3>2, <5>1
        <5>3. /\ \A j \in 1 .. (i - 1) : k[j] # k[i]
              /\ r.needs[k[i]] \subseteq {k[j] : j \in 1 .. (i - 1)}
          BY <5>1 DEF m
        <5>. QED BY <3>2, <5>1, <5>2, <5>3
      <4>. QED BY <4>1, <4>2
    <3>4. Len(a) <= MaxRoadmapCourses
      BY <2>2, <3>1, <3>2, GenerationAssumption
    <3>5. a \in Good
      <4>. HIDE DEF a, available
      <4>. QED BY <3>1, <3>2, <3>3, <3>4
    <3>. QED BY <2>2, <3>5
  <2>3. Turn(k, id) = k \/
        /\ Turn(k, id) = Append(k, id)
        /\ Len(k) < MaxRoadmapCourses /\ id \in r.candidates \ available
        /\ r.needs[id] \subseteq available
    OBVIOUS
  <2>. HIDE DEF Turn, Good, available
  <2>. QED BY <2>1, <2>2, <2>3
<1>3. step \in [1 .. n -> [Good -> Good]] /\ << >> \in Good
  <2>1. << >> \in Good
    BY GenerationAssumption
  <2>. HIDE DEF Turn, Good
  <2>. QED BY <1>2, <2>1
<1>4. \E f \in [0 .. n -> Good] : Is(f)
  <2>. HIDE DEF Good
  <2>1. PICK f \in [0 .. n -> Good] : Folds(f, n, << >>, step)
    <3>. HIDE DEF step
    <3>1. SomeFold(n, Good, << >>, step)
      BY <1>3, FoldExists
    <3>. QED BY <3>1 DEF SomeFold
  <2>2. \A i \in 1 .. n : step[i][f[i - 1]] = Turn(f[i - 1], ids[i])
    <3>. SUFFICES ASSUME NEW i \in 1 .. n
                  PROVE  step[i][f[i - 1]] = Turn(f[i - 1], ids[i])
      OBVIOUS
    <3>1. f[i - 1] \in Good
      OBVIOUS
    <3>. HIDE DEF Turn
    <3>. QED BY <3>1
  <2>3. Is(f)
    <3>. HIDE DEF Turn, step
    <3>1. \A i \in 0 .. n : i = 0 \/ i \in 1 .. n
      OBVIOUS
    <3>2. \A i \in 0 .. n : f[i] = IF i = 0 THEN << >> ELSE Turn(f[i - 1], ids[i])
      BY <2>1, <2>2, <3>1 DEF Folds
    <3>. QED BY <2>1, <3>2
  <2>. QED BY <2>3
<1>5. Is(Result)
  <2>. HIDE DEF Is
  <2>. QED BY <1>4
<1>. DEFINE T == {i \in 0 .. n : Result[i] \in Good}
<1>. HIDE DEF Result
<1>6. 0 \in T
  <2>. HIDE DEF Turn, Good
  <2>. QED BY <1>3, <1>5
<1>7. ASSUME NEW i \in 1 .. n, i - 1 \in T PROVE i \in T
  <2>. HIDE DEF Turn, Good
  <2>1. Result[i] = Turn(Result[i - 1], ids[i])
    <3>1. \A j \in 0 .. n : Result[j] = IF j = 0 THEN << >> ELSE Turn(Result[j - 1], ids[j])
      BY <1>5
    <3>2. i \in 0 .. n /\ i # 0
      OBVIOUS
    <3>. QED BY <3>1, <3>2
  <2>. QED BY <1>2, <1>7, <2>1
<1>8. Result[n] \in Good
  <2>1. n \in T
    <3>. HIDE DEF T
    <3>. QED BY <1>6, <1>7, Reaches
  <2>. QED BY <2>1
<1>9. PICK k \in Good : k = Coerced(r, ids)
  BY <1>1, <1>8
<1>10. DOMAIN k = 1 .. Len(k) /\ \A i \in 1 .. Len(k) : k[i] \in r.candidates
  BY <1>9
<1>. QED BY <1>9, <1>10 DEF SelectionAccepted

\* A step of one request.
LEMMA BecomeKeepsGen ==
  ASSUME GenOK, NEW g \in Requests, NEW r, RequestOK(r), Become(g, r), UNCHANGED vars
  PROVE  GenOK'
<1>1. DOMAIN gen' = Requests /\ \A h \in Requests : gen'[h] = IF h = g THEN r ELSE gen[h]
  BY DEF Become, GenOK
<1>2. ASSUME NEW q, RequestOK(q) PROVE RequestOK(q)'
  <2>1. status' = status /\ prereqs' = prereqs
    BY DEF vars
  <2>2. ValidSelection(q.plan, {})' <=> ValidSelection(q.plan, {})
    BY <2>1 DEF ValidSelection, Published
  <2>3. \A ids : SelectionAccepted(q, ids)' <=> SelectionAccepted(q, ids)
    BY DEF SelectionAccepted
  <2>. QED BY <1>2, <2>2, <2>3 DEF RequestOK
<1>. QED BY <1>1, <1>2 DEF GenOK

\* While nobody holds the lock to store a plan, the catalog may change.
LEMMA GenKept ==
  ASSUME GenOK, UNCHANGED gen, \A g \in Requests : gen[g].phase # "checked"
  PROVE  GenOK'
<1>1. ASSUME NEW g \in Requests PROVE RequestOK(gen[g])'
  <2>1. RequestOK(gen[g]) /\ gen[g].phase # "checked"
    BY DEF GenOK
  <2>2. \A ids : SelectionAccepted(gen[g], ids)' <=> SelectionAccepted(gen[g], ids)
    BY DEF SelectionAccepted
  <2>. QED BY <2>1, <2>2 DEF RequestOK
<1>. QED BY <1>1 DEF GenOK

\* A ranking of a finite set of courses lists it.
LEMMA RankingsListed ==
  ASSUME NEW S, IsFiniteSet(S), NEW ranked \in Rankings(S)
  PROVE  Cardinality(S) \in Nat /\ ranked \in [1 .. Cardinality(S) -> S]
BY FS_CardinalityType DEF Rankings

\* A request that has nothing left is in order.
LEMMA FreshEnds ==
  ASSUME NEW phase \in {"start", "refused", "saved"}
  PROVE  RequestOK([Fresh EXCEPT !.phase = phase])
<1>1. DOMAIN Fresh = {"phase", "candidates", "needs", "attempt", "plain", "fallback", "plan"}
  BY DEF Fresh
<1>. QED BY <1>1 DEF RequestOK

\* What a selection is accepted for.
LEMMA AcceptedFor ==
  ASSUME NEW r, NEW q, q.candidates = r.candidates, q.needs = r.needs
  PROVE  \A ids : SelectionAccepted(q, ids) <=> SelectionAccepted(r, ids)
BY DEF SelectionAccepted

\* The candidates that a request has chosen contain one that requires nothing.
LEMMA ReadKeepsGen ==
  ASSUME Rules, GenOK, NEW g \in Requests, ReadCatalog(g)
  PROVE  GenOK'
<1>1. PICK p \in Profiles : \E ranked \in Rankings({c \in Published : Matches(c, p)}) :
        LET chosen == SelectCandidates(ranked)
        IN  Become(g, IF chosen = {}
                      THEN [Fresh EXCEPT !.phase = "refused"]
                      ELSE [Fresh EXCEPT !.phase = "asking", !.attempt = 1,
                                         !.candidates = chosen,
                                         !.needs = [c \in chosen |-> prereqs[c]]])
  BY DEF ReadCatalog
<1>. DEFINE S == {c \in Published : Matches(c, p)}
<1>2. PICK ranked \in Rankings(S) :
        LET chosen == SelectCandidates(ranked)
        IN  Become(g, IF chosen = {}
                      THEN [Fresh EXCEPT !.phase = "refused"]
                      ELSE [Fresh EXCEPT !.phase = "asking", !.attempt = 1,
                                         !.candidates = chosen,
                                         !.needs = [c \in chosen |-> prereqs[c]]])
  BY <1>1
<1>. DEFINE chosen == SelectCandidates(ranked)
            asking == [Fresh EXCEPT !.phase = "asking", !.attempt = 1,
                                    !.candidates = chosen,
                                    !.needs = [c \in chosen |-> prereqs[c]]]
<1>3. chosen \subseteq Published /\ \A y \in chosen : prereqs[y] \cap Published \subseteq chosen
  <2>1. IsFiniteSet(S)
    <3>1. S \in SUBSET Existing
      BY DEF Published, Existing
    <3>. QED BY <3>1, FS_Subset DEF Rules, FinitelyMany
  <2>. DEFINE m == Cardinality(S)
  <2>2. m \in Nat /\ ranked \in [1 .. m -> Published]
    <3>. HIDE DEF S
    <3>1. m \in Nat /\ ranked \in [1 .. m -> S]
      BY <1>2, <2>1, RankingsListed
    <3>2. S \subseteq Published
      BY DEF S
    <3>. QED BY <3>1, <3>2
  <2>. HIDE DEF m
  <2>. QED BY <2>2, CandidatesAreClosed
<1>4. UNCHANGED vars
  BY DEF ReadCatalog
<1>. HIDE DEF chosen
<1>5. CASE chosen = {}
  <2>1. Become(g, [Fresh EXCEPT !.phase = "refused"])
    BY <1>2, <1>5 DEF chosen
  <2>. QED BY <1>4, <2>1, FreshEnds, BecomeKeepsGen
<1>6. CASE chosen # {}
  <2>1. Become(g, asking)
    BY <1>2, <1>6 DEF chosen
  <2>2. PICK c \in chosen : prereqs[c] = {}
    BY <1>3, <1>6, CandidatesStart DEF Rules, CatalogRulesHold
  <2>3. /\ DOMAIN asking = {"phase", "candidates", "needs", "attempt", "plain", "fallback", "plan"}
        /\ asking.phase = "asking" /\ asking.candidates = chosen
        /\ asking.needs = [d \in chosen |-> prereqs[d]] /\ asking.fallback = << >>
    <3>1. /\ DOMAIN Fresh = {"phase", "candidates", "needs", "attempt", "plain", "fallback", "plan"}
          /\ Fresh.fallback = << >>
      BY DEF Fresh
    <3>. QED BY <3>1
  <2>. HIDE DEF asking
  <2>4. RequestOK(asking)
    BY <2>2, <2>3 DEF RequestOK
  <2>. QED BY <1>4, <2>1, <2>4, BecomeKeepsGen
<1>. QED BY <1>5, <1>6

\* A turn of planRoadmap's loop leaves only what is acceptable.
LEMMA AnswerKeepsGen ==
  ASSUME GenOK, NEW g \in Requests, AnswerArrives(g)
  PROVE  GenOK'
<1>. DEFINE r == gen[g]
<1>1. PICK a \in Answers :
        LET rest == IF a.json THEN Coerced(r, a.ids) ELSE r.fallback
        IN  Become(g,
             IF DraftAccepted(r, a)
             THEN [r EXCEPT !.phase = "planned", !.plan = a.ids, !.fallback = << >>]
             ELSE IF r.attempt = 1
             THEN [r EXCEPT !.attempt = 2, !.plain = FALSE, !.fallback = rest]
             ELSE IF rest = << >>
             THEN [Fresh EXCEPT !.phase = "refused"]
             ELSE [r EXCEPT !.phase = "planned", !.plan = rest, !.fallback = << >>])
  BY DEF AnswerArrives
<1>. DEFINE rest == IF a.json THEN Coerced(r, a.ids) ELSE r.fallback
<1>2. RequestOK(r) /\ r.phase = "asking" /\ UNCHANGED vars
  BY DEF GenOK, AnswerArrives
<1>4. rest = << >> \/ SelectionAccepted(r, rest)
  <2>1. Len(a.ids) \in Nat
    BY GenerationAssumption
  <2>2. Coerced(r, a.ids) = << >> \/ SelectionAccepted(r, Coerced(r, a.ids))
    <3>. HIDE DEF r
    <3>. QED BY <2>1, CoercedIsAccepted
  <2>. QED BY <1>2, <2>2 DEF RequestOK
<1>. HIDE DEF rest
<1>. DEFINE planned(ids) == [r EXCEPT !.phase = "planned", !.plan = ids, !.fallback = << >>]
            again == [r EXCEPT !.attempt = 2, !.plain = FALSE, !.fallback = rest]
<1>6. ASSUME NEW ids, SelectionAccepted(r, ids) PROVE RequestOK(planned(ids))
  <2>. DEFINE q == planned(ids)
  <2>1. /\ DOMAIN q = DOMAIN r /\ q.phase = "planned" /\ q.plan = ids
        /\ q.candidates = r.candidates /\ q.needs = r.needs
    BY <1>2 DEF RequestOK
  <2>. HIDE DEF q, planned, r
  <2>2. SelectionAccepted(q, ids)
    BY <1>6, <2>1, AcceptedFor
  <2>3. RequestOK(q)
    BY <1>2, <2>1, <2>2 DEF RequestOK
  <2>. QED BY <2>3 DEF q
<1>7. RequestOK(again)
  <2>1. /\ DOMAIN again = DOMAIN r /\ again.phase = "asking" /\ again.fallback = rest
        /\ again.candidates = r.candidates /\ again.needs = r.needs
    BY <1>2 DEF RequestOK
  <2>. HIDE DEF again, r
  <2>2. rest = << >> \/ SelectionAccepted(again, rest)
    BY <1>4, <2>1, AcceptedFor
  <2>. QED BY <1>2, <2>1, <2>2 DEF RequestOK
<1>9. \/ DraftAccepted(r, a) /\ Become(g, planned(a.ids))
      \/ Become(g, again)
      \/ Become(g, [Fresh EXCEPT !.phase = "refused"])
      \/ rest # << >> /\ Become(g, planned(rest))
  <2>. HIDE DEF r
  <2>. QED BY <1>1 DEF rest
<1>. HIDE DEF planned, again
<1>10. CASE DraftAccepted(r, a) /\ Become(g, planned(a.ids))
  BY <1>2, <1>6, <1>10, BecomeKeepsGen DEF DraftAccepted
<1>11. CASE Become(g, again)
  BY <1>2, <1>7, <1>11, BecomeKeepsGen
<1>12. CASE Become(g, [Fresh EXCEPT !.phase = "refused"])
  BY <1>2, <1>12, FreshEnds, BecomeKeepsGen
<1>13. CASE rest # << >> /\ Become(g, planned(rest))
  BY <1>2, <1>4, <1>6, <1>13, BecomeKeepsGen
<1>. QED BY <1>9, <1>10, <1>11, <1>12, <1>13

\* Every step of a request.
LEMMA GenerateKeepsGen ==
  ASSUME Rules, GenOK, NEW g \in Requests, Generate(g)
  PROVE  GenOK'
<1>. DEFINE r == gen[g]
<1>1. RequestOK(r)
  BY DEF GenOK
<1>3. CASE FormatRejected(g)
  <2>. DEFINE q == [r EXCEPT !.plain = TRUE]
  <2>1. r.phase = "asking" /\ Become(g, q) /\ UNCHANGED vars
    BY <1>3 DEF FormatRejected
  <2>2. /\ DOMAIN q = DOMAIN r /\ q.phase = "asking" /\ q.fallback = r.fallback
        /\ q.candidates = r.candidates /\ q.needs = r.needs
    BY <1>1, <2>1 DEF RequestOK
  <2>. HIDE DEF q, r
  <2>3. RequestOK(q)
    BY <1>1, <2>1, <2>2, AcceptedFor DEF RequestOK
  <2>. QED BY <2>1, <2>3, BecomeKeepsGen
<1>4. CASE CallFails(g)
  BY <1>4, FreshEnds, BecomeKeepsGen DEF CallFails
<1>5. CASE BeginSave(g)
  <2>. DEFINE q == [r EXCEPT !.phase = "locked"]
  <2>1. r.phase = "planned" /\ Become(g, q) /\ UNCHANGED vars
    BY <1>5 DEF BeginSave
  <2>2. /\ DOMAIN q = DOMAIN r /\ q.phase = "locked" /\ q.plan = r.plan
        /\ q.candidates = r.candidates /\ q.needs = r.needs
    BY <1>1 DEF RequestOK
  <2>. HIDE DEF q, r
  <2>3. RequestOK(q)
    BY <1>1, <2>1, <2>2, AcceptedFor DEF RequestOK
  <2>. QED BY <2>1, <2>3, BecomeKeepsGen
<1>6. CASE CheckPlan(g)
  <2>1. r.phase = "locked" /\ UNCHANGED vars
    BY <1>6 DEF CheckPlan
  <2>. DEFINE q == [r EXCEPT !.phase = "checked"]
  <2>2. CASE ValidSelection(r.plan, {}) /\ Become(g, q)
    <3>1. DOMAIN q = DOMAIN r /\ q.phase = "checked" /\ q.plan = r.plan
      BY <1>1 DEF RequestOK
    <3>. HIDE DEF q, r
    <3>2. RequestOK(q)
      BY <1>1, <2>2, <3>1 DEF RequestOK
    <3>. QED BY <2>1, <2>2, <3>2, BecomeKeepsGen
  <2>3. CASE Become(g, [Fresh EXCEPT !.phase = "refused"])
    BY <2>1, <2>3, FreshEnds, BecomeKeepsGen
  <2>. QED BY <1>6, <2>2, <2>3 DEF CheckPlan
<1>7. CASE StoreRoadmap(g)
  BY <1>7, FreshEnds, BecomeKeepsGen DEF StoreRoadmap
<1>8. CASE DatabaseFails(g)
  BY <1>8, FreshEnds, BecomeKeepsGen DEF DatabaseFails
<1>. QED BY <1>3, <1>4, <1>5, <1>6, <1>7, <1>8, ReadKeepsGen, AnswerKeepsGen DEF Generate

-----------------------------------------------------------------------------
(* What the import writes keeps its database lawful.                        *)

Columns(d) ==
  /\ d = [x \in DOMAIN d |-> d[x]]
  /\ DOMAIN d = {"taxonomy", "status", "filled", "tags", "prereqs", "url", "marker", "form"}

\* A lawful database by its columns.
LEMMA LawfulColumns ==
  ASSUME NEW w, Lawful(w)
  PROVE  /\ Columns(w)
         /\ w.taxonomy \in TagChoices /\ w.status \in [Courses -> CourseStatus \cup {"absent"}]
         /\ w.filled \in [Courses -> BOOLEAN] /\ w.tags \in [Courses -> TagChoices]
         /\ w.prereqs \in [Courses -> SUBSET Courses]
         /\ w.url \in [Courses -> Sources \cup {Elsewhere}]
         /\ w.marker \in [Sources -> Courses \cup {NoCourse}]
         /\ \A s \in Sources : w.marker[s] \in ExistingIn(w) \cup {NoCourse}
         /\ w.form \in TagChoices
BY DEF Lawful, Tables, Columns

\* A database put together from columns.
LEMMA TablesByColumns ==
  ASSUME NEW n, Columns(n), n.taxonomy \in TagChoices,
         n.status \in [Courses -> CourseStatus \cup {"absent"}],
         n.filled \in [Courses -> BOOLEAN], n.tags \in [Courses -> TagChoices],
         n.prereqs \in [Courses -> SUBSET Courses],
         n.url \in [Courses -> Sources \cup {Elsewhere}],
         n.marker \in [Sources -> Courses \cup {NoCourse}], n.form \in TagChoices
  PROVE  n \in Tables
<1>1. n = [taxonomy |-> n.taxonomy, status |-> n.status, filled |-> n.filled, tags |-> n.tags,
           prereqs |-> n.prereqs, url |-> n.url, marker |-> n.marker, form |-> n.form]
  BY DEF Columns
<1>2. PICK a \in TagChoices, b \in [Courses -> CourseStatus \cup {"absent"}],
           c \in [Courses -> BOOLEAN], d \in [Courses -> TagChoices],
           e \in [Courses -> SUBSET Courses], f \in [Courses -> Sources \cup {Elsewhere}],
           g \in [Sources -> Courses \cup {NoCourse}], h \in TagChoices :
        n = [taxonomy |-> a, status |-> b, filled |-> c, tags |-> d, prereqs |-> e, url |-> f,
             marker |-> g, form |-> h]
  BY <1>1
<1>. QED BY <1>2 DEF Tables

\* From w to n, the taxonomy gets more names.
Adds(w, n, k, names) ==
  /\ \A j \in Kind : n.taxonomy[j] = IF j = k THEN w.taxonomy[j] \cup names ELSE w.taxonomy[j]
  /\ n.status = w.status /\ n.filled = w.filled /\ n.tags = w.tags
  /\ n.prereqs = w.prereqs /\ n.url = w.url /\ n.marker = w.marker /\ n.form = w.form

\* Naming entries keeps a database lawful.
LEMMA NamedIsLawful ==
  ASSUME NEW w, Lawful(w), NEW k \in Kind, NEW names \in SUBSET Entries
  PROVE  LET n == Named(w, k, names)
         IN  Lawful(n) /\ Columns(n) /\ Adds(w, n, k, names)
<1>. DEFINE n == Named(w, k, names)
<1>0. Columns(w)
  BY LawfulColumns
<1>1. /\ Columns(n)
      /\ n.taxonomy = [w.taxonomy EXCEPT ![k] = @ \cup names]
      /\ n.status = w.status /\ n.filled = w.filled /\ n.tags = w.tags
      /\ n.prereqs = w.prereqs /\ n.url = w.url /\ n.marker = w.marker
      /\ n.form = w.form
  BY <1>0 DEF Named, Columns
<1>. HIDE DEF n
<1>2. n.taxonomy \in TagChoices
      /\ \A j \in Kind : n.taxonomy[j] = IF j = k THEN w.taxonomy[j] \cup names ELSE w.taxonomy[j]
  <2>1. PICK t : t = w.taxonomy
    OBVIOUS
  <2>2. t \in TagChoices /\ n.taxonomy = [t EXCEPT ![k] = @ \cup names]
    BY <1>1, <2>1, LawfulColumns
  <2>. QED BY <2>1, <2>2 DEF TagChoices
<1>3. ExistingIn(n) = ExistingIn(w) /\ PublishedIn(n) = PublishedIn(w)
  BY <1>1 DEF ExistingIn, PublishedIn
<1>4. n \in Tables
  BY <1>1, <1>2, LawfulColumns, TablesByColumns
<1>5. Lawful(n)
  BY <1>1, <1>2, <1>3, <1>4 DEF Lawful
<1>. QED BY <1>1, <1>2, <1>5 DEF n, Adds

\* From w to n, a course is completed.
Fills(w, n, c, f, t) ==
  /\ c \in ExistingIn(w) /\ f \in BOOLEAN /\ (w.filled[c] => f) /\ t \in TagChoices
  /\ \A k \in Kind : t[k] \subseteq w.taxonomy[k] /\ (w.tags[c][k] # {} => t[k] # {})
  /\ n.filled = [w.filled EXCEPT ![c] = f]
  /\ n.tags = [w.tags EXCEPT ![c] = t]
  /\ n.taxonomy = w.taxonomy /\ n.status = w.status /\ n.prereqs = w.prereqs
  /\ n.url = w.url /\ n.marker = w.marker /\ n.form = w.form

\* Completing a course keeps a database lawful.
LEMMA FilledIsLawful ==
  ASSUME NEW w, Lawful(w), NEW n, Columns(n), NEW c, NEW f, NEW t, Fills(w, n, c, f, t)
  PROVE  Lawful(n)
<1>. USE DEF Fills
<1>1. ExistingIn(n) = ExistingIn(w) /\ PublishedIn(n) = PublishedIn(w)
  BY DEF ExistingIn, PublishedIn
<1>2. /\ \A d \in Courses : n.filled[d] = IF d = c THEN f ELSE w.filled[d]
      /\ \A d \in Courses : n.tags[d] = IF d = c THEN t ELSE w.tags[d]
      /\ n.filled \in [Courses -> BOOLEAN] /\ n.tags \in [Courses -> TagChoices]
  <2>1. c \in Courses
    BY DEF ExistingIn
  <2>2. /\ w.filled \in [Courses -> BOOLEAN] /\ w.tags \in [Courses -> TagChoices]
    BY LawfulColumns
  <2>3. /\ \A d \in Courses : n.filled[d] = IF d = c THEN f ELSE w.filled[d]
        /\ n.filled \in [Courses -> BOOLEAN]
    BY <2>1, <2>2
  <2>4. /\ \A d \in Courses : n.tags[d] = IF d = c THEN t ELSE w.tags[d]
        /\ n.tags \in [Courses -> TagChoices]
    BY <2>1, <2>2
  <2>. QED BY <2>3, <2>4
<1>3. /\ n.marker \in [Sources -> Courses \cup {NoCourse}]
      /\ \A x \in Sources : n.marker[x] \in ExistingIn(n) \cup {NoCourse}
  BY <1>1, LawfulColumns DEF ExistingIn
<1>4. n \in Tables
  BY <1>2, <1>3, LawfulColumns, TablesByColumns
<1>5. \A d \in Courses \ ExistingIn(n) : d # c
  BY <1>1
<1>6. \A d \in PublishedIn(n) : n.prereqs[d] \subseteq PublishedIn(n) /\ n.filled[d]
                                /\ \A k \in Kind : n.tags[d][k] # {}
  BY <1>1, <1>2 DEF Lawful, PublishedIn
<1>. QED BY <1>1, <1>2, <1>4, <1>5, <1>6 DEF Lawful

\* A source gets a course.
LEMMA LinkedIsLawful ==
  ASSUME NEW w, Lawful(w), NEW n, Columns(n), NEW c \in ExistingIn(w), NEW s \in Sources,
         n.marker = [w.marker EXCEPT ![s] = c],
         n.filled = w.filled, n.tags = w.tags, n.taxonomy = w.taxonomy,
         n.status = w.status, n.prereqs = w.prereqs, n.url = w.url, n.form = w.form
  PROVE  Lawful(n)
<1>1. ExistingIn(n) = ExistingIn(w) /\ PublishedIn(n) = PublishedIn(w)
  BY DEF ExistingIn, PublishedIn
<1>2. /\ n.marker \in [Sources -> Courses \cup {NoCourse}]
      /\ \A x \in Sources : n.marker[x] \in ExistingIn(n) \cup {NoCourse}
  BY <1>1, LawfulColumns DEF ExistingIn
<1>3. n \in Tables
  BY <1>2, LawfulColumns, TablesByColumns
<1>. QED BY <1>1, <1>3 DEF Lawful

\* From w to n, a draft is created, which requires nothing.
Creates(w, n, c, s, f, t) ==
  /\ c \in Courses \ ExistingIn(w) /\ s \in Sources /\ f \in BOOLEAN /\ t \in TagChoices
  /\ \A k \in Kind : t[k] \subseteq w.taxonomy[k]
  /\ n.status = [w.status EXCEPT ![c] = "draft"]
  /\ n.filled = [w.filled EXCEPT ![c] = f]
  /\ n.tags = [w.tags EXCEPT ![c] = t]
  /\ n.url = [w.url EXCEPT ![c] = s]
  /\ n.marker = [w.marker EXCEPT ![s] = c]
  /\ n.taxonomy = w.taxonomy /\ n.prereqs = w.prereqs /\ n.form = w.form

\* Creating a draft keeps a database lawful.
LEMMA CreatedIsLawful ==
  ASSUME NEW w, Lawful(w), NEW n, Columns(n), NEW c, NEW s, NEW f, NEW t,
         Creates(w, n, c, s, f, t)
  PROVE  Lawful(n)
<1>. USE DEF Creates
<1>1. /\ \A d \in Courses : n.filled[d] = IF d = c THEN f ELSE w.filled[d]
      /\ \A d \in Courses : n.tags[d] = IF d = c THEN t ELSE w.tags[d]
      /\ \A d \in Courses : n.status[d] = IF d = c THEN "draft" ELSE w.status[d]
      /\ n.filled \in [Courses -> BOOLEAN] /\ n.tags \in [Courses -> TagChoices]
      /\ n.status \in [Courses -> CourseStatus \cup {"absent"}]
      /\ n.url \in [Courses -> Sources \cup {Elsewhere}]
  BY LawfulColumns DEF CourseStatus
<1>2. ExistingIn(n) = ExistingIn(w) \cup {c} /\ PublishedIn(n) = PublishedIn(w)
  BY <1>1 DEF ExistingIn, PublishedIn
<1>3. /\ n.marker \in [Sources -> Courses \cup {NoCourse}]
      /\ \A x \in Sources : n.marker[x] \in ExistingIn(n) \cup {NoCourse}
  BY <1>2, LawfulColumns DEF ExistingIn
<1>4. n \in Tables
  BY <1>1, <1>3, LawfulColumns, TablesByColumns
<1>5. IsFiniteSet(ExistingIn(n))
  BY <1>2, FS_AddElement DEF Lawful
<1>6. /\ \A d \in Courses \ ExistingIn(n) :
           ~n.filled[d] /\ n.tags[d] = NoTags /\ n.prereqs[d] = {}
      /\ \A d \in Courses :
           /\ n.prereqs[d] \subseteq ExistingIn(n)
           /\ \A k \in Kind : n.tags[d][k] \subseteq n.taxonomy[k]
  BY <1>1, <1>2 DEF Lawful
<1>7. \A d \in PublishedIn(n) : n.prereqs[d] \subseteq PublishedIn(n) /\ n.filled[d]
                                /\ \A k \in Kind : n.tags[d][k] # {}
  BY <1>1, <1>2 DEF Lawful, PublishedIn, ExistingIn
<1>8. \A S \in SUBSET Courses : S # {} => \E x \in S : n.prereqs[x] \cap S = {}
  BY DEF Lawful
<1>9. \A k \in Kind : n.form[k] \subseteq n.taxonomy[k]
  BY DEF Lawful
<1>. QED BY <1>3, <1>4, <1>5, <1>6, <1>7, <1>8, <1>9 DEF Lawful

\* A ready course is published.
LEMMA PublishedIsLawful ==
  ASSUME NEW w, Lawful(w), NEW n, Columns(n), NEW c \in Courses, Ready(w, c),
         n.status = [w.status EXCEPT ![c] = "published"],
         n.filled = w.filled, n.tags = w.tags, n.taxonomy = w.taxonomy,
         n.prereqs = w.prereqs, n.url = w.url, n.marker = w.marker, n.form = w.form
  PROVE  Lawful(n)
<1>1. /\ \A d \in Courses : n.status[d] = IF d = c THEN "published" ELSE w.status[d]
      /\ n.status \in [Courses -> CourseStatus \cup {"absent"}]
  BY LawfulColumns DEF CourseStatus
<1>2. ExistingIn(n) = ExistingIn(w) /\ PublishedIn(n) = PublishedIn(w) \cup {c}
  BY <1>1 DEF ExistingIn, PublishedIn, Ready
<1>3. /\ n.marker \in [Sources -> Courses \cup {NoCourse}]
      /\ \A x \in Sources : n.marker[x] \in ExistingIn(n) \cup {NoCourse}
  BY <1>2, LawfulColumns DEF ExistingIn
<1>4. n \in Tables
  BY <1>1, <1>3, LawfulColumns, TablesByColumns
<1>5. \A d \in PublishedIn(n) : n.prereqs[d] \subseteq PublishedIn(n) /\ n.filled[d]
                                /\ \A k \in Kind : n.tags[d][k] # {}
  BY <1>2 DEF Lawful, Ready
<1>. QED BY <1>2, <1>4, <1>5 DEF Lawful

\* A questionnaire is made of entries that exist.
LEMMA PinnedIsLawful ==
  ASSUME NEW w, Lawful(w), NEW n, Columns(n), n.form \in TagChoices,
         \A k \in Kind : n.form[k] \subseteq w.taxonomy[k],
         n.filled = w.filled, n.tags = w.tags, n.taxonomy = w.taxonomy,
         n.status = w.status, n.prereqs = w.prereqs, n.url = w.url, n.marker = w.marker
  PROVE  Lawful(n)
<1>1. ExistingIn(n) = ExistingIn(w) /\ PublishedIn(n) = PublishedIn(w)
  BY DEF ExistingIn, PublishedIn
<1>2. /\ n.marker \in [Sources -> Courses \cup {NoCourse}]
      /\ \A x \in Sources : n.marker[x] \in ExistingIn(n) \cup {NoCourse}
  BY <1>1, LawfulColumns DEF ExistingIn
<1>3. n \in Tables
  BY <1>2, LawfulColumns, TablesByColumns
<1>. QED BY <1>1, <1>3 DEF Lawful

-----------------------------------------------------------------------------
(* The preview.                                                            *)

\* A file is a sequence of entries of different keys.
LEMMA FilesTyped ==
  ASSUME NEW file \in Files
  PROVE  /\ Len(file) \in Nat /\ DOMAIN file = 1 .. Len(file)
         /\ \A i \in 1 .. Len(file) : file[i] \in SourceCourse
         /\ \A i, j \in 1 .. Len(file) : i # j => file[i].key # file[j].key
<1>1. file \in Seq(SourceCourse) /\ \A i, j \in DOMAIN file : i # j => file[i].key # file[j].key
  BY ImportAssumption
<1>. QED BY <1>1

\* A promise is made knowing the promises of the earlier entries.
LEMMA PromisesForeseen ==
  ASSUME NEW file \in Files
  PROVE  PromisesMade(file, Promises(file))
<1>. DEFINE n == Len(file)
            Turn(S, i) == IF Foreseen(file[i], S) THEN S \cup {file[i].key} ELSE S
            Is(f) == f = [i \in 0 .. n |-> IF i = 0 THEN {} ELSE Turn(f[i - 1], i)]
            Up == CHOOSE f : Is(f)
            V == SUBSET Sources
            step == [i \in 1 .. n |-> [S \in V |-> Turn(S, i)]]
            Keys(i) == {file[j].key : j \in 1 .. i}
<1>0. /\ n \in Nat /\ \A i \in 1 .. n : file[i].key \in Sources
      /\ \A i, j \in 1 .. n : i # j => file[i].key # file[j].key
  BY FilesTyped DEF SourceCourse
<1>1. Promises(file) = Up[n]
  BY DEF Promises
<1>. HIDE DEF n
<1>2. ASSUME NEW i \in 1 .. n, NEW S \in V PROVE Turn(S, i) \in V
  BY <1>0
<1>3. step \in [1 .. n -> [V -> V]] /\ {} \in V
  <2>. HIDE DEF Turn
  <2>. QED BY <1>2
<1>4. \E f \in [0 .. n -> V] : Is(f)
  <2>. HIDE DEF V
  <2>1. PICK f \in [0 .. n -> V] : Folds(f, n, {}, step)
    <3>. HIDE DEF step
    <3>1. SomeFold(n, V, {}, step)
      BY <1>0, <1>3, FoldExists
    <3>. QED BY <3>1 DEF SomeFold
  <2>2. \A i \in 1 .. n : step[i][f[i - 1]] = Turn(f[i - 1], i)
    <3>. SUFFICES ASSUME NEW i \in 1 .. n
                  PROVE  step[i][f[i - 1]] = Turn(f[i - 1], i)
      OBVIOUS
    <3>1. f[i - 1] \in V
      BY <1>0
    <3>. HIDE DEF Turn
    <3>. QED BY <3>1
  <2>3. Is(f)
    <3>. HIDE DEF Turn, step
    <3>1. \A i \in 0 .. n : i = 0 \/ i \in 1 .. n
      BY <1>0
    <3>2. \A i \in 0 .. n : f[i] = IF i = 0 THEN {} ELSE Turn(f[i - 1], i)
      BY <2>1, <2>2, <3>1 DEF Folds
    <3>. QED BY <2>1, <3>2
  <2>. QED BY <2>3
<1>5. Is(Up)
  <2>. HIDE DEF Is
  <2>. QED BY <1>4
<1>. HIDE DEF Up
<1>6. Up[0] = {} /\ \A i \in 1 .. n : Up[i] = Turn(Up[i - 1], i)
  <2>1. \A i \in 0 .. n : Up[i] = IF i = 0 THEN {} ELSE Turn(Up[i - 1], i)
    <3>. HIDE DEF Turn
    <3>. QED BY <1>5
  <2>2. 0 \in 0 .. n /\ \A i \in 1 .. n : i \in 0 .. n /\ i # 0
    BY <1>0
  <2>. HIDE DEF Turn
  <2>. QED BY <2>1, <2>2
<1>7. ASSUME NEW i \in 0 .. n PROVE Up[i] \subseteq Keys(i)
  <2>. DEFINE T == {k \in 0 .. n : Up[k] \subseteq Keys(k)}
  <2>1. 0 \in T
    BY <1>0, <1>6
  <2>2. ASSUME NEW k \in 1 .. n, k - 1 \in T PROVE k \in T
    <3>1. Up[k] \subseteq Up[k - 1] \cup {file[k].key}
      BY <1>6
    <3>2. Keys(k - 1) \subseteq Keys(k) /\ file[k].key \in Keys(k) /\ k \in 0 .. n
      BY <1>0
    <3>. HIDE DEF Keys
    <3>. QED BY <2>2, <3>1, <3>2
  <2>. HIDE DEF T
  <2>3. 0 .. n \subseteq T
    BY <1>0, <2>1, <2>2, Reaches
  <2>. QED BY <2>3 DEF T
<1>8. ASSUME NEW i \in 0 .. n PROVE Up[n] \cap Keys(i) = Up[i]
  <2>. DEFINE T == {k \in 0 .. n : k >= i => Up[k] \cap Keys(i) = Up[i]}
  <2>1. 0 \in T
    BY <1>0, <1>6
  <2>2. ASSUME NEW k \in 1 .. n, k - 1 \in T PROVE k \in T
    <3>1. CASE k < i
      BY <3>1
    <3>2. CASE k = i
      BY <1>7, <3>2
    <3>3. CASE k > i
      <4>1. k - 1 >= i /\ Up[k - 1] \cap Keys(i) = Up[i]
        BY <2>2, <3>3
      <4>2. file[k].key \notin Keys(i)
        BY <1>0, <3>3
      <4>3. Up[k] \in {Up[k - 1], Up[k - 1] \cup {file[k].key}}
        BY <1>6
      <4>4. Up[k] \cap Keys(i) = Up[i]
        <5>. HIDE DEF Keys
        <5>. QED BY <4>1, <4>2, <4>3
      <4>. QED BY <4>4
    <3>. QED BY <3>1, <3>2, <3>3
  <2>. HIDE DEF T
  <2>3. n \in T
    <3>1. n \in 0 .. n
      BY <1>0
    <3>. QED BY <1>0, <2>1, <2>2, <3>1, Reaches
  <2>. QED BY <1>0, <2>3 DEF T
<1>. SUFFICES ASSUME NEW i \in 1 .. n, file[i].key \in Up[n]
              PROVE  Foreseen(file[i], Earlier(file, Up[n], i))
  <2>1. Up[n] \subseteq {file[i].key : i \in 1 .. n}
    <3>1. n \in 0 .. n
      BY <1>0
    <3>. QED BY <1>7, <3>1
  <2>. QED BY <1>1, <2>1 DEF n, PromisesMade
<1>9. file[i].key \in Up[i]
  <2>1. i \in 0 .. n /\ file[i].key \in Keys(i)
    BY <1>0
  <2>. HIDE DEF Keys
  <2>. QED BY <1>8, <2>1
<1>10. file[i].key \notin Up[i - 1]
  <2>1. i - 1 \in 0 .. n /\ file[i].key \notin Keys(i - 1)
    BY <1>0
  <2>. HIDE DEF Keys
  <2>. QED BY <1>7, <2>1
<1>11. Foreseen(file[i], Up[i - 1])
  BY <1>6, <1>9, <1>10
<1>12. Up[i - 1] = Earlier(file, Up[n], i)
  <2>1. i - 1 \in 0 .. n
    BY <1>0
  <2>2. Up[n] \cap Keys(i - 1) = Up[i - 1]
    BY <1>8, <2>1
  <2>. QED BY <2>2 DEF Earlier
<1>. QED BY <1>11, <1>12

-----------------------------------------------------------------------------
(* The steps of the import.                                                *)

\* A step of the import that leaves the committed database alone.
LEMMA RunKept ==
  ASSUME NEW r, RunOK(r), imp' = r, UNCHANGED db
  PROVE  RunOK(imp)'
<1>1. /\ taxonomy' = taxonomy /\ status' = status /\ filled' = filled /\ tags' = tags
      /\ prereqs' = prereqs /\ url' = url /\ marker' = marker /\ form' = form
  BY DEF db, vars
<1>2. Existing' = Existing /\ Published' = Published /\ Imported' = Imported
  BY <1>1 DEF Existing, Published, Imported
<1>3. RunTyped(imp)' /\ Lawful(imp.work)' /\ PassOK(imp)'
  <2>1. RunTyped(imp)'
    BY DEF RunOK, RunTyped
  <2>2. Lawful(imp.work)'
    BY DEF RunOK, Lawful, ExistingIn, PublishedIn
  <2>3. PassOK(imp)'
    BY DEF RunOK, PassOK, Ready, PublishedIn
  <2>. QED BY <2>1, <2>2, <2>3
<1>4. Completes(imp.work, imp.fill, imp.publish)'
  BY <1>1, <1>2 DEF RunOK, Completes
<1>5. PendingOK(imp.pending)' /\ Ahead(imp.work, imp.file, imp.at)'
  BY <1>1, <1>2 DEF RunOK, PendingOK, Ahead
<1>6. PromisesMade(imp.file, imp.promised)'
  <2>1. ASSUME NEW i PROVE Foreseen(r.file[i], Earlier(r.file, r.promised, i))
                           <=> Foreseen(imp.file[i], Earlier(imp.file, imp.promised, i))'
    BY <1>1, <1>2 DEF Foreseen, WithUrl, Earlier
  <2>. QED BY <2>1 DEF RunOK, PromisesMade
<1>7. PromisesKept(imp.work, imp.pending, imp.file, imp.promised, imp.at)'
  <2>1. ASSUME NEW i PROVE Kept(r.work, r.pending, r.file, r.promised, i)
                           <=> Kept(imp.work, imp.pending, imp.file, imp.promised, i)'
    BY <1>1, <1>2 DEF Kept, Earlier
  <2>. QED BY <2>1 DEF RunOK, PromisesKept
<1>. QED BY <1>3, <1>4, <1>5, <1>6, <1>7 DEF RunOK

\* What an entry with this key may do to the work.
Grows(w, w2, key) ==
  /\ \A k \in Kind : w.taxonomy[k] \subseteq w2.taxonomy[k]
  /\ \A s \in Sources \ {key} : w2.marker[s] = w.marker[s]
  /\ \A c \in ExistingIn(w) :
       /\ w2.status[c] = w.status[c]
       /\ w.filled[c] => w2.filled[c]
       /\ \A k \in Kind : w.tags[c][k] # {} => w2.tags[c][k] # {}
  /\ \A c \in ExistingIn(w2) :
       (c \in ExistingIn(w) /\ w2.url[c] = w.url[c]) \/ w2.url[c] = key

\* More courses may wait.
LEMMA KeptWaits ==
  ASSUME NEW w, NEW pending, NEW pending2, NEW file, NEW P, NEW i,
         Kept(w, pending, file, P, i),
         \A j \in DOMAIN pending : \E j2 \in DOMAIN pending2 : pending2[j2] = pending[j]
  PROVE  Kept(w, pending2, file, P, i)
<1>1. PICK c : c = w.marker[file[i].key]
  OBVIOUS
<1>2. /\ c \in Courses /\ w.filled[c] /\ \A k \in Kind : w.tags[c][k] # {}
      /\ prereqs[c] \subseteq Published \cup {w.marker[s] : s \in Earlier(file, P, i)}
      /\ \/ w.status[c] = "published"
         \/ w.status[c] = "draft" /\ \E j \in DOMAIN pending : pending[j] = c
  BY <1>1 DEF Kept
<1>3. \/ w.status[c] = "published"
      \/ w.status[c] = "draft" /\ \E j \in DOMAIN pending2 : pending2[j] = c
  BY <1>2
<1>. QED BY <1>1, <1>2, <1>3 DEF Kept

\* A promise that is kept stays so while later entries are written.
LEMMA KeptStays ==
  ASSUME NEW w, NEW w2, NEW pending, NEW pending2, NEW file, NEW P, NEW i, NEW key,
         Kept(w, pending, file, P, i), Grows(w, w2, key),
         \A j \in DOMAIN pending : \E j2 \in DOMAIN pending2 : pending2[j2] = pending[j],
         file[i].key \in Sources \ {key}, Earlier(file, P, i) \subseteq Sources \ {key}
  PROVE  Kept(w2, pending2, file, P, i)
<1>1. PICK c : c = w.marker[file[i].key]
  OBVIOUS
<1>2. /\ c \in Courses /\ w.filled[c] /\ \A k \in Kind : w.tags[c][k] # {}
      /\ prereqs[c] \subseteq Published \cup {w.marker[s] : s \in Earlier(file, P, i)}
      /\ \/ w.status[c] = "published"
         \/ w.status[c] = "draft" /\ \E j \in DOMAIN pending : pending[j] = c
  BY <1>1 DEF Kept
<1>3. c \in ExistingIn(w)
  BY <1>2 DEF ExistingIn
<1>4. /\ w2.marker[file[i].key] = c
      /\ {w2.marker[s] : s \in Earlier(file, P, i)} = {w.marker[s] : s \in Earlier(file, P, i)}
  BY <1>1 DEF Grows
<1>5. /\ w2.status[c] = w.status[c] /\ w2.filled[c] /\ \A k \in Kind : w2.tags[c][k] # {}
  BY <1>2, <1>3 DEF Grows
<1>6. \/ w2.status[c] = "published"
      \/ w2.status[c] = "draft" /\ \E j \in DOMAIN pending2 : pending2[j] = c
  BY <1>2, <1>5
<1>. QED BY <1>2, <1>4, <1>5, <1>6 DEF Kept

\* An entry is done.
LEMMA EntryDone ==
  ASSUME NEW r, RunOK(r), r.phase = "entries", r.at <= Len(r.file),
         NEW w2, Lawful(w2), NEW added \in Seq(Courses),
         NEW r2,
         r2 = [r EXCEPT !.at = @ + 1, !.work = w2,
                        !.pending = IF r.publish THEN @ \o added ELSE @],
         Completes(w2, r.fill, r.publish), PendingOK(added),
         Grows(r.work, w2, r.file[r.at].key),
         r.file[r.at].key \in r.promised => Kept(w2, added, r.file, r.promised, r.at)
  PROVE  RunOK(r2)
<1>. DEFINE file == r.file
            at == r.at
            key == file[at].key
            pending2 == IF r.publish THEN r.pending \o added ELSE r.pending
<1>1. /\ DOMAIN r2 = DOMAIN r /\ r2.phase = "entries" /\ r2.file = file /\ r2.at = at + 1
      /\ r2.fill = r.fill /\ r2.publish = r.publish /\ r2.work = w2
      /\ r2.pending = pending2 /\ r2.index = r.index /\ r2.progress = r.progress
      /\ r2.promised = r.promised
  BY DEF RunOK, RunTyped
<1>2. /\ file \in Files /\ at \in 1 .. Len(file) /\ Len(file) \in Nat
      /\ DOMAIN file = 1 .. Len(file)
      /\ \A i \in 1 .. Len(file) : file[i].key \in Sources /\ (i # at => file[i].key # key)
  <2>1. file \in Files /\ at \in 1 .. (Len(file) + 1)
    BY DEF RunOK, RunTyped
  <2>. HIDE DEF file, at
  <2>2. Len(file) \in Nat
    BY <2>1, FilesTyped
  <2>3. at \in 1 .. Len(file)
    BY <2>1, <2>2 DEF file, at
  <2>. QED BY <2>1, <2>2, <2>3, FilesTyped DEF SourceCourse
<1>3. /\ pending2 \in Seq(Courses) /\ r.index \in 0 .. Len(pending2)
      /\ ~r.publish => pending2 = << >>
      /\ \A j \in DOMAIN r.pending : j \in DOMAIN pending2 /\ pending2[j] = r.pending[j]
      /\ r.publish => \A j \in DOMAIN added : \E j2 \in DOMAIN pending2 : pending2[j2] = added[j]
      /\ \A j \in DOMAIN pending2 : \/ \E i \in DOMAIN r.pending : pending2[j] = r.pending[i]
                                    \/ \E i \in DOMAIN added : pending2[j] = added[i]
  <2>1. PICK p : p = r.pending
    OBVIOUS
  <2>2. p \in Seq(Courses) /\ r.index \in 0 .. Len(p) /\ (~r.publish => p = << >>)
    BY <2>1 DEF RunOK, RunTyped
  <2>3. CASE ~r.publish
    BY <2>1, <2>2, <2>3
  <2>4. CASE r.publish
    <3>1. PICK q : q = p \o added
      OBVIOUS
    <3>2. /\ q \in Seq(Courses) /\ Len(q) = Len(p) + Len(added)
          /\ \A j \in 1 .. Len(p) : q[j] = p[j]
          /\ \A j \in 1 .. Len(added) : q[Len(p) + j] = added[j]
          /\ Len(p) \in Nat /\ Len(added) \in Nat
          /\ DOMAIN p = 1 .. Len(p) /\ DOMAIN added = 1 .. Len(added) /\ DOMAIN q = 1 .. Len(q)
      BY <2>2, <3>1
    <3>3. \A j \in 1 .. Len(q) : j \in 1 .. Len(p) \/ j - Len(p) \in 1 .. Len(added)
      BY <3>2
    <3>4. \A j \in 1 .. Len(q) : j - Len(p) \in 1 .. Len(added) => q[j] = added[j - Len(p)]
      BY <3>2
    <3>5. pending2 = q
      BY <2>1, <2>4, <3>1
    <3>6. \A j \in 1 .. Len(p) : j \in 1 .. Len(q)
      BY <3>2
    <3>7. \A j \in 1 .. Len(added) : Len(p) + j \in 1 .. Len(q)
      BY <3>2
    <3>8. r.index \in 0 .. Len(q)
      BY <2>2, <3>2
    <3>. HIDE DEF pending2
    <3>. QED BY <2>1, <2>2, <2>4, <3>2, <3>3, <3>4, <3>5, <3>6, <3>7, <3>8, SMTT(30)
  <2>. QED BY <2>3, <2>4
<1>. HIDE DEF pending2
<1>4. RunTyped(r2)
  <2>1. \A i \in DOMAIN file : file[i].category \in w2.taxonomy["categories"]
    <3>1. "categories" \in Kind
      BY DEF Kind
    <3>. QED BY <3>1 DEF RunOK, RunTyped, Grows
  <2>2. at + 1 \in 1 .. (Len(file) + 1)
    BY <1>2
  <2>3. ~r2.publish => r2.promised = {}
    BY <1>1 DEF RunOK, RunTyped
  <2>. QED BY <1>1, <1>2, <1>3, <2>1, <2>2, <2>3 DEF RunOK, RunTyped
<1>5. PendingOK(pending2)
  BY <1>3 DEF RunOK, PendingOK
<1>6. Ahead(w2, file, at + 1)
  <2>. SUFFICES ASSUME NEW i \in (at + 1) .. Len(file)
                PROVE  /\ w2.marker[file[i].key] = marker[file[i].key]
                       /\ \A c \in Courses : w2.url[c] = file[i].key /\ w2.status[c] # "absent"
                                             => c \in Existing
    BY DEF Ahead
  <2>1. i \in at .. Len(file) /\ i \in 1 .. Len(file) /\ i # at
    BY <1>2
  <2>2. file[i].key \in Sources \ {key}
    BY <1>2, <2>1
  <2>3. /\ r.work.marker[file[i].key] = marker[file[i].key]
        /\ \A c \in Courses : r.work.url[c] = file[i].key /\ r.work.status[c] # "absent"
                              => c \in Existing
    BY <2>1 DEF RunOK, Ahead
  <2>. HIDE DEF key
  <2>4. Grows(r.work, w2, key)
    BY DEF key
  <2>. QED BY <2>2, <2>3, <2>4 DEF Grows, ExistingIn
<1>7. PromisesKept(w2, pending2, file, r.promised, at + 1)
  <2>. SUFFICES ASSUME NEW i \in 1 .. at, file[i].key \in r.promised
                PROVE  Kept(w2, pending2, file, r.promised, i)
    BY <1>2 DEF PromisesKept
  <2>0. r.publish
    BY DEF RunOK, RunTyped
  <2>1. CASE i = at
    <3>1. Kept(w2, added, file, r.promised, i)
      BY <2>1
    <3>. HIDE DEF file, at, key
    <3>2. \A j \in DOMAIN added : \E j2 \in DOMAIN pending2 : pending2[j2] = added[j]
      BY <1>3, <2>0
    <3>. QED BY <3>1, <3>2, KeptWaits
  <2>2. CASE i # at
    <3>1. i \in 1 .. (at - 1) /\ i \in 1 .. Len(file)
      BY <1>2, <2>2
    <3>2. Kept(r.work, r.pending, file, r.promised, i)
      BY <3>1 DEF RunOK, PromisesKept
    <3>3. Earlier(file, r.promised, i) \subseteq Sources \ {key}
      <4>1. \A j \in 1 .. (i - 1) : j \in 1 .. Len(file) /\ j # at
        BY <1>2, <3>1
      <4>. HIDE DEF file, at, key
      <4>. QED BY <1>2, <4>1 DEF Earlier
    <3>4. Grows(r.work, w2, key)
      OBVIOUS
    <3>. HIDE DEF file, at, key
    <3>. QED BY <1>2, <1>3, <2>2, <3>1, <3>2, <3>3, <3>4, KeptStays
  <2>. QED BY <2>1, <2>2
<1>. QED BY <1>1, <1>4, <1>5, <1>6, <1>7 DEF RunOK, PassOK

\* What a transaction that has come to an entry knows.
LEMMA AtEntry ==
  ASSUME Rules, RunOK(imp), imp.phase = "entries", imp.at <= Len(imp.file)
  PROVE  /\ imp.at \in 1 .. Len(imp.file) /\ Len(imp.file) \in Nat
         /\ Entry.key \in Sources /\ Entry.category \in Entries
         /\ Entry.technologies \in SUBSET Entries /\ Entry.curated \in BOOLEAN
         /\ Entry.category \in imp.work.taxonomy["categories"]
         /\ imp.work.marker[Entry.key] = marker[Entry.key]
         /\ marker[Entry.key] \in Existing \cup {NoCourse}
         /\ \A c \in Courses : imp.work.url[c] = Entry.key /\ imp.work.status[c] # "absent"
                               => c \in Existing /\ url[c] = Entry.key
         /\ W!Existing = ExistingIn(imp.work)
         /\ Existing \subseteq ExistingIn(imp.work)
         /\ Entry.key \in imp.promised =>
              Foreseen(Entry, Earlier(imp.file, imp.promised, imp.at))
<1>1. PICK file : file = imp.file
  OBVIOUS
<1>2. PICK at : at = imp.at
  OBVIOUS
<1>3. file \in Files /\ at \in 1 .. (Len(file) + 1) /\ at <= Len(file)
  BY <1>1, <1>2 DEF RunOK, RunTyped
<1>4. /\ Len(file) \in Nat /\ at \in 1 .. Len(file) /\ file[at] \in SourceCourse
      /\ DOMAIN file = 1 .. Len(file)
  BY <1>3, FilesTyped
<1>5. /\ file[at].key \in Sources /\ file[at].category \in Entries
      /\ file[at].technologies \in SUBSET Entries /\ file[at].curated \in BOOLEAN
  BY <1>4 DEF SourceCourse
<1>6. file[at].category \in imp.work.taxonomy["categories"]
  BY <1>1, <1>4 DEF RunOK, RunTyped
<1>7. at \in at .. Len(file)
  BY <1>4
<1>8. /\ imp.work.marker[file[at].key] = marker[file[at].key]
      /\ \A c \in Courses : imp.work.url[c] = file[at].key /\ imp.work.status[c] # "absent"
                            => c \in Existing
  BY <1>1, <1>2, <1>7 DEF RunOK, Ahead
<1>9. \A c \in Existing : imp.work.url[c] = url[c]
  BY DEF RunOK, Completes
<1>10. W!Existing = ExistingIn(imp.work)
  BY DEF W!Existing, ExistingIn
<1>11. Existing \subseteq ExistingIn(imp.work)
  BY DEF RunOK, Completes, Existing, ExistingIn
<1>12. file[at].key \in imp.promised => Foreseen(file[at], Earlier(file, imp.promised, at))
  BY <1>1, <1>4 DEF RunOK, PromisesMade
<1>13. marker[file[at].key] \in Existing \cup {NoCourse}
  BY <1>5 DEF Rules
<1>. QED BY <1>1, <1>2, <1>4, <1>5, <1>6, <1>8, <1>9, <1>10, <1>11, <1>12, <1>13 DEF Entry

\* Going on to the next entry.
LEMMA NextEntryKeeps ==
  ASSUME RunOK(imp), imp.phase = "entries", imp.at <= Len(imp.file),
         NEW w2, Lawful(w2), NEW added \in Seq(Courses), NextEntry(w2, added),
         Completes(w2, imp.fill, imp.publish), PendingOK(added),
         Grows(imp.work, w2, Entry.key),
         Entry.key \in imp.promised => Kept(w2, added, imp.file, imp.promised, imp.at)
  PROVE  RunOK(imp)'
<1>1. PICK r : r = imp
  OBVIOUS
<1>2. PICK r2 : r2 = imp'
  OBVIOUS
<1>3. r2 = [r EXCEPT !.at = @ + 1, !.work = w2,
                     !.pending = IF r.publish THEN @ \o added ELSE @]
  BY <1>1, <1>2 DEF NextEntry
<1>4. /\ RunOK(r) /\ r.phase = "entries" /\ r.at <= Len(r.file)
      /\ Completes(w2, r.fill, r.publish) /\ Grows(r.work, w2, r.file[r.at].key)
      /\ r.file[r.at].key \in r.promised => Kept(w2, added, r.file, r.promised, r.at)
  BY <1>1 DEF Entry
<1>5. RunOK(r2)
  BY <1>3, <1>4, EntryDone
<1>. QED BY <1>2, <1>5, RunKept DEF NextEntry

\* The courses that earlier promises were about keep their sources.
LEMMA EarlierStay ==
  ASSUME Rules, NEW w, NEW fill, NEW publish, Completes(w, fill, publish),
         NEW file \in Files, NEW P, NEW i \in 1 .. Len(file), NEW c \in Courses,
         prereqs[c] \subseteq Published \cup {marker[s] : s \in Earlier(file, P, i)}
  PROVE  prereqs[c] \subseteq Published \cup {w.marker[s] : s \in Earlier(file, P, i)}
<1>1. Earlier(file, P, i) \subseteq Sources
  <2>1. \A j \in 1 .. (i - 1) : j \in 1 .. Len(file)
    BY FilesTyped
  <2>. QED BY <2>1, FilesTyped DEF Earlier, SourceCourse
<1>2. prereqs[c] \subseteq Courses /\ NoCourse \notin Courses
  BY ImportAssumption DEF Rules, CatalogRulesHold, TypeOK
<1>3. \A s \in Earlier(file, P, i) : marker[s] \in prereqs[c] => w.marker[s] = marker[s]
  BY <1>1, <1>2 DEF Completes
<1>. QED BY <1>3

\* From w to n, nothing but course c may have got more.
Completed(w, n, c) ==
  /\ n.status = w.status /\ n.prereqs = w.prereqs /\ n.url = w.url /\ n.marker = w.marker
  /\ \A d \in Courses \ {c} : n.filled[d] = w.filled[d] /\ n.tags[d] = w.tags[d]
  /\ w.filled[c] => n.filled[c]
  /\ \A k \in Kind : w.tags[c][k] \in {{}, n.tags[c][k]}
  /\ \A k \in Kind : w.taxonomy[k] \subseteq n.taxonomy[k]

\* What filling course c writes.
LEMMA FillWrites ==
  ASSUME Rules, Lawful(imp.work), NEW c \in ExistingIn(imp.work), NEW f \in FilledAfter(c),
         Entry.category \in imp.work.taxonomy["categories"], Entry.category \in Entries,
         Entry.technologies \in SUBSET Entries
  PROVE  Lawful(Fill(c, f)) /\ Completed(imp.work, Fill(c, f), c)
<1>. DEFINE named == IF imp.work.tags[c]["technologies"] = {} THEN Entry.technologies ELSE {}
<1>1. PICK m : m = Named(imp.work, "technologies", named)
  OBVIOUS
<1>2. PICK t : t = TagsAfter(c)
  OBVIOUS
<1>3. PICK n : n = Fill(c, f)
  OBVIOUS
<1>4. n = [m EXCEPT !.filled[c] = f, !.tags[c] = t]
  BY <1>1, <1>2, <1>3 DEF Fill
<1>5. PICK w : w = imp.work
  OBVIOUS
<1>6. /\ Lawful(m) /\ Columns(m)
      /\ \A j \in Kind : m.taxonomy[j] = IF j = "technologies" THEN w.taxonomy[j] \cup named
                                          ELSE w.taxonomy[j]
      /\ m.status = w.status /\ m.filled = w.filled /\ m.tags = w.tags
      /\ m.prereqs = w.prereqs /\ m.url = w.url /\ m.marker = w.marker
      /\ m.form = w.form
  <2>1. "technologies" \in Kind /\ named \in SUBSET Entries
    BY DEF Kind
  <2>. HIDE DEF named
  <2>2. Lawful(m) /\ Columns(m) /\ Adds(w, m, "technologies", named)
    BY <1>1, <1>5, <2>1, NamedIsLawful
  <2>. QED BY <2>2 DEF Adds
<1>7. /\ Columns(n)
      /\ n.filled = [m.filled EXCEPT ![c] = f] /\ n.tags = [m.tags EXCEPT ![c] = t]
      /\ n.taxonomy = m.taxonomy /\ n.status = m.status /\ n.prereqs = m.prereqs
      /\ n.url = m.url /\ n.marker = m.marker /\ n.form = m.form
  BY <1>4, <1>6 DEF Columns
<1>8. f \in BOOLEAN /\ (w.filled[c] => f)
  BY <1>5 DEF FilledAfter
<1>9. /\ t \in TagChoices /\ c \in Courses
      /\ \A k \in Kind : /\ t[k] \subseteq m.taxonomy[k]
                         /\ w.tags[c][k] \in {{}, t[k]}
  <2>1. PICK tags0 : tags0 = w.tags[c]
    OBVIOUS
  <2>2. PICK e : e = Entry
    OBVIOUS
  <2>3. c \in Courses /\ tags0 \in TagChoices /\ \A k \in Kind : tags0[k] \subseteq w.taxonomy[k]
    <3>1. c \in Courses
      BY DEF ExistingIn
    <3>2. tags0 \in TagChoices
      BY <1>5, <2>1, <3>1, LawfulColumns
    <3>3. \A k \in Kind : tags0[k] \subseteq w.taxonomy[k]
      BY <1>5, <2>1, <3>1 DEF Lawful
    <3>. QED BY <3>1, <3>2, <3>3
  <2>4. t = [k \in Kind |-> IF tags0[k] # {} THEN tags0[k]
                           ELSE IF k = "categories" THEN {e.category} ELSE e.technologies]
    BY <1>2, <1>5, <2>1, <2>2 DEF TagsAfter
  <2>5. /\ e.category \in Entries /\ e.technologies \in SUBSET Entries
        /\ e.category \in w.taxonomy["categories"]
    BY <1>5, <2>2
  <2>6. \A k \in Kind : k # "categories" => k = "technologies"
    BY DEF Kind
  <2>7. t \in TagChoices
    BY <2>3, <2>4, <2>5 DEF TagChoices
  <2>8. \A k \in Kind : t[k] \subseteq m.taxonomy[k]
    <3>. SUFFICES ASSUME NEW k \in Kind PROVE t[k] \subseteq m.taxonomy[k]
      OBVIOUS
    <3>1. CASE tags0[k] # {}
      BY <1>6, <2>3, <2>4, <3>1
    <3>2. CASE tags0[k] = {} /\ k = "categories"
      BY <1>6, <2>4, <2>5, <3>2
    <3>3. CASE tags0[k] = {} /\ k = "technologies"
      <4>1. named = e.technologies /\ t[k] = e.technologies
        BY <1>5, <2>1, <2>2, <2>4, <3>3
      <4>. HIDE DEF named
      <4>. QED BY <1>6, <3>3, <4>1
    <3>. QED BY <2>6, <3>1, <3>2, <3>3
  <2>. QED BY <2>1, <2>3, <2>4, <2>7, <2>8
<1>10. c \in ExistingIn(m) /\ m.filled[c] = w.filled[c] /\ m.tags[c] = w.tags[c]
  BY <1>5, <1>6 DEF ExistingIn
<1>11. Lawful(n)
  <2>1. \A k \in Kind : t[k] \subseteq m.taxonomy[k] /\ (m.tags[c][k] # {} => t[k] # {})
    BY <1>9, <1>10
  <2>2. Fills(m, n, c, f, t)
    BY <1>7, <1>8, <1>9, <1>10, <2>1 DEF Fills
  <2>. QED BY <1>6, <1>7, <2>2, FilledIsLawful
<1>12. /\ n.filled[c] = f /\ n.tags[c] = t
       /\ \A d \in Courses \ {c} : n.filled[d] = m.filled[d] /\ n.tags[d] = m.tags[d]
  BY <1>6, <1>7, <1>9, LawfulColumns
<1>13. \A k \in Kind : w.taxonomy[k] \subseteq n.taxonomy[k]
  <2>. HIDE DEF named
  <2>. QED BY <1>6, <1>7
<1>14. Completed(w, n, c)
  <2>1. n.status = w.status /\ n.prereqs = w.prereqs /\ n.url = w.url /\ n.marker = w.marker
    BY <1>6, <1>7
  <2>2. \A d \in Courses \ {c} : n.filled[d] = w.filled[d] /\ n.tags[d] = w.tags[d]
    BY <1>6, <1>12
  <2>3. w.filled[c] => n.filled[c]
    BY <1>8, <1>12
  <2>. QED BY <1>9, <1>12, <1>13, <2>1, <2>2, <2>3 DEF Completed
<1>. QED BY <1>3, <1>5, <1>11, <1>14

\* An entry whose course is known.
LEMMA MarkedKeeps ==
  ASSUME Rules, RunOK(imp), ImportMarked
  PROVE  RunOK(imp)'
<1>. DEFINE w == imp.work
            c == w.marker[Entry.key]
            promise == Entry.key \in imp.promised
<1>0. /\ imp.phase = "entries" /\ imp.at <= Len(imp.file) /\ c # NoCourse
      /\ Lawful(w) /\ Completes(w, imp.fill, imp.publish)
  BY DEF ImportMarked, RunOK
<1>1. /\ Entry.key \in Sources /\ Entry.category \in Entries
      /\ Entry.technologies \in SUBSET Entries
      /\ Entry.category \in w.taxonomy["categories"]
      /\ c = marker[Entry.key] /\ c \in Existing /\ c \in ExistingIn(w) /\ c \in Imported
      /\ c \in Courses /\ imp.at \in 1 .. Len(imp.file)
      /\ promise => Foreseen(Entry, Earlier(imp.file, imp.promised, imp.at))
  BY <1>0, AtEntry DEF Imported, ExistingIn
<1>2. promise => /\ status[c] = "draft" /\ filled[c] /\ \A k \in Kind : tags[c][k] # {}
                 /\ prereqs[c] \subseteq Published
                      \cup {marker[s] : s \in Earlier(imp.file, imp.promised, imp.at)}
  BY <1>0, <1>1 DEF Foreseen
<1>3. promise => prereqs[c] \subseteq Published
                   \cup {w.marker[s] : s \in Earlier(imp.file, imp.promised, imp.at)}
  <2>1. imp.file \in Files
    BY DEF RunOK, RunTyped
  <2>. QED BY <1>0, <1>1, <1>2, <2>1, EarlierStay
<1>4. /\ w.prereqs = prereqs
      /\ \A d \in Existing : filled[d] => w.filled[d]
      /\ \A d \in Existing : \A k \in Kind : tags[d][k] # {} => w.tags[d][k] # {}
  BY <1>0 DEF Completes
<1>5. w.status[c] \in {status[c], "published"} /\ status[c] # "absent"
  BY <1>0, <1>1 DEF Completes, Existing
<1>6. ASSUME NEW n, Lawful(n), NextEntry(n, <<c>>), Completed(w, n, c),
             imp.fill \/ (n.filled[c] = w.filled[c] /\ n.tags[c] = w.tags[c])
      PROVE  RunOK(imp)'
  <2>. HIDE DEF w, c
  <2>0. /\ n.status = w.status /\ n.prereqs = w.prereqs /\ n.url = w.url /\ n.marker = w.marker
        /\ \A d \in Courses \ {c} : n.filled[d] = w.filled[d] /\ n.tags[d] = w.tags[d]
        /\ w.filled[c] => n.filled[c]
        /\ \A k \in Kind : w.tags[c][k] \in {{}, n.tags[c][k]}
        /\ \A k \in Kind : w.taxonomy[k] \subseteq n.taxonomy[k]
        /\ imp.fill \/ (n.filled[c] = w.filled[c] /\ n.tags[c] = w.tags[c])
    BY <1>6 DEF Completed
  <2>1. Completes(n, imp.fill, imp.publish)
    <3>1. n.prereqs = prereqs /\ \A s \in Sources : marker[s] \in {NoCourse, n.marker[s]}
      BY <1>0, <2>0 DEF Completes
    <3>2. ASSUME NEW d \in Existing
          PROVE  /\ n.status[d] # status[d] =>
                      /\ imp.publish /\ d \in Imported
                      /\ status[d] = "draft" /\ n.status[d] = "published"
                 /\ n.url[d] = url[d]
                 /\ filled[d] => n.filled[d]
                 /\ \A k \in Kind : tags[d][k] \in {{}, n.tags[d][k]}
                 /\ n.filled[d] # filled[d] \/ n.tags[d] # tags[d]
                      => imp.fill /\ d \in Imported
      <4>1. /\ w.status[d] # status[d] =>
                      /\ imp.publish /\ d \in Imported
                      /\ status[d] = "draft" /\ w.status[d] = "published"
            /\ w.url[d] = url[d]
            /\ filled[d] => w.filled[d]
            /\ \A k \in Kind : tags[d][k] \in {{}, w.tags[d][k]}
            /\ w.filled[d] # filled[d] \/ w.tags[d] # tags[d]
                      => imp.fill /\ d \in Imported
        BY <1>0, <3>2 DEF Completes
      <4>2. CASE d = c
        BY <1>1, <2>0, <4>1, <4>2
      <4>3. CASE d # c
        <5>1. d \in Courses \ {c}
          BY <4>3 DEF Existing
        <5>2. n.filled[d] = w.filled[d] /\ n.tags[d] = w.tags[d]
          BY <2>0, <5>1
        <5>. QED BY <2>0, <4>1, <5>2
      <4>. QED BY <4>2, <4>3
    <3>. QED BY <3>1, <3>2 DEF Completes
  <2>2. <<c>> \in Seq(Courses) /\ PendingOK(<<c>>) /\ <<c>>[1] = c /\ 1 \in DOMAIN <<c>>
    BY <1>1 DEF PendingOK
  <2>3. Grows(w, n, Entry.key)
    <3>1. ExistingIn(n) = ExistingIn(w) /\ ExistingIn(w) \subseteq Courses
      BY <2>0 DEF ExistingIn
    <3>2. \A d \in ExistingIn(w) : /\ w.filled[d] => n.filled[d]
                                   /\ \A k \in Kind : w.tags[d][k] # {} => n.tags[d][k] # {}
      BY <2>0, <3>1
    <3>. QED BY <2>0, <3>1, <3>2 DEF Grows
  <2>4. promise => Kept(n, <<c>>, imp.file, imp.promised, imp.at)
    <3>. SUFFICES ASSUME promise PROVE Kept(n, <<c>>, imp.file, imp.promised, imp.at)
      OBVIOUS
    <3>0. n.marker = w.marker
      BY <2>0
    <3>1. n.marker[imp.file[imp.at].key] = c
      BY <3>0 DEF c, w, Entry
    <3>2. n.filled[c] /\ \A k \in Kind : n.tags[c][k] # {}
      BY <1>1, <1>2, <1>4, <2>0
    <3>3. n.status[c] = "published" \/ n.status[c] = "draft"
      BY <1>2, <1>5, <2>0
    <3>4. prereqs[c] \subseteq Published
                   \cup {n.marker[s] : s \in Earlier(imp.file, imp.promised, imp.at)}
      <4>1. n.marker = w.marker
        BY <2>0
      <4>. QED BY <1>3, <4>1
    <3>. HIDE DEF promise
    <3>. QED BY <1>1, <2>2, <3>1, <3>2, <3>3, <3>4 DEF Kept
  <2>. QED BY <1>0, <1>6, <2>1, <2>2, <2>3, <2>4, NextEntryKeeps DEF w
<1>7. CASE imp.fill
  <2>1. PICK f \in FilledAfter(c) : NextEntry(Fill(c, f), <<c>>)
    BY <1>7 DEF ImportMarked
  <2>2. Lawful(imp.work)
    BY <1>0
  <2>. HIDE DEF w, c
  <2>3. Lawful(Fill(c, f)) /\ Completed(w, Fill(c, f), c)
    BY <1>1, <2>2, FillWrites DEF w
  <2>. QED BY <1>6, <1>7, <2>1, <2>3
<1>8. CASE ~imp.fill
  <2>1. NextEntry(w, <<c>>)
    BY <1>8 DEF ImportMarked
  <2>. HIDE DEF w, c
  <2>2. Completed(w, w, c)
    BY DEF Completed
  <2>. QED BY <1>0, <1>6, <2>1, <2>2
<1>. QED BY <1>7, <1>8

\* An entry that adopts a course of an administrator, or meets one it may not.
LEMMA LinkedKeeps ==
  ASSUME Rules, RunOK(imp), ImportLinked
  PROVE  imp' = Idle \/ RunOK(imp)'
<1>1. PICK w : w = imp.work
  OBVIOUS
<1>2. PICK key : key = Entry.key
  OBVIOUS
<1>3. /\ imp.phase = "entries" /\ imp.at <= Len(imp.file)
      /\ Lawful(w) /\ Completes(w, imp.fill, imp.publish) /\ w.marker[key] = NoCourse
  BY <1>1, <1>2 DEF ImportLinked, RunOK
<1>4. PICK c \in SameUrl : Abort \/ NextEntry([w EXCEPT !.marker[key] = c], << >>)
  BY <1>1, <1>2 DEF ImportLinked
<1>5. CASE Abort
  BY <1>5 DEF Abort
<1>6. CASE NextEntry([w EXCEPT !.marker[key] = c], << >>)
  <2>1. PICK n : n = [w EXCEPT !.marker[key] = c]
    OBVIOUS
  <2>2. Columns(w) /\ w.marker \in [Sources -> Courses \cup {NoCourse}]
    BY <1>3, LawfulColumns
  <2>3. /\ key \in Sources /\ c \in ExistingIn(w) /\ c \in Existing /\ url[c] = key
        /\ marker[key] = NoCourse
        /\ key \in imp.promised =>
             Foreseen(Entry, Earlier(imp.file, imp.promised, imp.at))
    <3>1. c \in ExistingIn(w) /\ w.url[c] = key
      BY <1>1, <1>2, <1>3, AtEntry DEF SameUrl
    <3>. QED BY <1>1, <1>2, <1>3, <3>1, AtEntry DEF ExistingIn
  <2>4. /\ Columns(n) /\ n.marker = [w.marker EXCEPT ![key] = c]
        /\ n.filled = w.filled /\ n.tags = w.tags /\ n.taxonomy = w.taxonomy
        /\ n.status = w.status /\ n.prereqs = w.prereqs /\ n.url = w.url /\ n.form = w.form
    BY <2>1, <2>2 DEF Columns
  <2>5. Lawful(n)
    BY <1>3, <2>3, <2>4, LinkedIsLawful
  <2>6. \A s \in Sources \ {key} : n.marker[s] = w.marker[s]
    BY <2>2, <2>4
  <2>7. Completes(n, imp.fill, imp.publish)
    <3>1. \A s \in Sources : marker[s] \in {NoCourse, n.marker[s]}
      BY <1>3, <2>3, <2>6 DEF Completes
    <3>. QED BY <1>3, <2>4, <3>1 DEF Completes
  <2>8. Grows(w, n, key)
    <3>1. ExistingIn(n) = ExistingIn(w)
      BY <2>4 DEF ExistingIn
    <3>. QED BY <2>4, <2>6, <3>1 DEF Grows
  <2>9. key \notin imp.promised
    BY <1>2, <2>3 DEF Foreseen, WithUrl
  <2>10. << >> \in Seq(Courses) /\ PendingOK(<< >>)
    BY DEF PendingOK
  <2>. QED BY <1>1, <1>2, <1>3, <1>6, <2>1, <2>5, <2>7, <2>8, <2>9, <2>10, NextEntryKeeps
<1>. QED BY <1>4, <1>5, <1>6

\* An entry that becomes a new draft.
LEMMA CreatedKeeps ==
  ASSUME Rules, RunOK(imp), ImportCreated
  PROVE  RunOK(imp)'
<1>1. PICK w : w = imp.work
  OBVIOUS
<1>2. PICK e : e = Entry
  OBVIOUS
<1>3. PICK m : m = Named(w, "technologies", e.technologies)
  OBVIOUS
<1>4. PICK t : t = [k \in Kind |-> IF k = "categories" THEN {e.category} ELSE e.technologies]
  OBVIOUS
<1>5. PICK c \in Courses \ W!Existing :
        NextEntry([m EXCEPT !.status[c] = "draft", !.filled[c] = e.curated, !.tags[c] = t,
                            !.url[c] = e.key, !.marker[e.key] = c], <<c>>)
  BY <1>1, <1>2, <1>3, <1>4 DEF ImportCreated
<1>6. PICK n : n = [m EXCEPT !.status[c] = "draft", !.filled[c] = e.curated, !.tags[c] = t,
                             !.url[c] = e.key, !.marker[e.key] = c]
  OBVIOUS
<1>7. /\ imp.phase = "entries" /\ imp.at <= Len(imp.file)
      /\ Lawful(w) /\ Completes(w, imp.fill, imp.publish) /\ w.marker[e.key] = NoCourse
  BY <1>1, <1>2 DEF ImportCreated, RunOK
<1>8. /\ e.key \in Sources /\ e.category \in Entries /\ e.technologies \in SUBSET Entries
      /\ e.curated \in BOOLEAN /\ e.category \in w.taxonomy["categories"]
      /\ marker[e.key] = NoCourse /\ c \in Courses \ ExistingIn(w) /\ c \notin Existing
      /\ e.key \in imp.promised => Foreseen(e, Earlier(imp.file, imp.promised, imp.at))
      /\ Existing \subseteq ExistingIn(w)
  BY <1>1, <1>2, <1>5, <1>7, AtEntry
<1>9. /\ Lawful(m) /\ Columns(m)
      /\ \A j \in Kind : m.taxonomy[j] = IF j = "technologies"
                                          THEN w.taxonomy[j] \cup e.technologies
                                          ELSE w.taxonomy[j]
      /\ m.status = w.status /\ m.filled = w.filled /\ m.tags = w.tags
      /\ m.prereqs = w.prereqs /\ m.url = w.url /\ m.marker = w.marker
      /\ m.form = w.form
  <2>1. "technologies" \in Kind
    BY DEF Kind
  <2>2. PICK names : names = e.technologies
    OBVIOUS
  <2>3. names \in SUBSET Entries /\ m = Named(w, "technologies", names)
    BY <1>3, <1>8, <2>2
  <2>4. Lawful(w)
    BY <1>7
  <2>5. Lawful(m) /\ Columns(m) /\ Adds(w, m, "technologies", names)
    BY <2>1, <2>3, <2>4, NamedIsLawful
  <2>. QED BY <2>2, <2>5 DEF Adds
<1>10. /\ t \in TagChoices /\ \A k \in Kind : t[k] \subseteq m.taxonomy[k]
  <2>1. \A k \in Kind : k # "categories" => k = "technologies"
    BY DEF Kind
  <2>2. t \in TagChoices
    BY <1>4, <1>8 DEF TagChoices
  <2>3. ASSUME NEW k \in Kind PROVE t[k] \subseteq m.taxonomy[k]
    BY <1>4, <1>8, <1>9, <2>1
  <2>. QED BY <2>2, <2>3
<1>11. /\ Columns(n)
       /\ n.status = [m.status EXCEPT ![c] = "draft"]
       /\ n.filled = [m.filled EXCEPT ![c] = e.curated]
       /\ n.tags = [m.tags EXCEPT ![c] = t] /\ n.url = [m.url EXCEPT ![c] = e.key]
       /\ n.marker = [m.marker EXCEPT ![e.key] = c]
       /\ n.taxonomy = m.taxonomy /\ n.prereqs = m.prereqs /\ n.form = m.form
  BY <1>6, <1>9 DEF Columns
<1>12. c \in Courses \ ExistingIn(m)
  BY <1>8, <1>9 DEF ExistingIn
<1>13. Lawful(n)
  <2>1. PICK key : key = e.key
    OBVIOUS
  <2>2. PICK f : f = e.curated
    OBVIOUS
  <2>3. /\ Lawful(m) /\ Columns(n) /\ c \in Courses \ ExistingIn(m)
        /\ key \in Sources /\ f \in BOOLEAN /\ t \in TagChoices
        /\ \A k \in Kind : t[k] \subseteq m.taxonomy[k]
        /\ n.status = [m.status EXCEPT ![c] = "draft"]
        /\ n.filled = [m.filled EXCEPT ![c] = f]
        /\ n.tags = [m.tags EXCEPT ![c] = t] /\ n.url = [m.url EXCEPT ![c] = key]
        /\ n.marker = [m.marker EXCEPT ![key] = c]
        /\ n.taxonomy = m.taxonomy /\ n.prereqs = m.prereqs /\ n.form = m.form
    BY <1>8, <1>9, <1>10, <1>11, <1>12, <2>1, <2>2
  <2>4. Creates(m, n, c, key, f, t)
    BY <2>3 DEF Creates
  <2>. QED BY <2>3, <2>4, CreatedIsLawful
<1>14. /\ n.status[c] = "draft" /\ n.filled[c] = e.curated /\ n.tags[c] = t /\ n.url[c] = e.key
       /\ n.marker[e.key] = c /\ \A s \in Sources \ {e.key} : n.marker[s] = w.marker[s]
       /\ \A d \in Courses \ {c} : /\ n.status[d] = w.status[d] /\ n.filled[d] = w.filled[d]
                                  /\ n.tags[d] = w.tags[d] /\ n.url[d] = w.url[d]
  <2>1. /\ w.status \in [Courses -> CourseStatus \cup {"absent"}]
        /\ w.filled \in [Courses -> BOOLEAN] /\ w.tags \in [Courses -> TagChoices]
        /\ w.url \in [Courses -> Sources \cup {Elsewhere}]
        /\ w.marker \in [Sources -> Courses \cup {NoCourse}]
    BY <1>7, LawfulColumns
  <2>. QED BY <1>8, <1>9, <1>11, <2>1
<1>15. Completes(n, imp.fill, imp.publish)
  <2>1. n.prereqs = prereqs
    BY <1>7, <1>9, <1>11 DEF Completes
  <2>2. \A s \in Sources : marker[s] \in {NoCourse, n.marker[s]}
    BY <1>7, <1>8, <1>14 DEF Completes
  <2>3. \A d \in Existing : /\ n.status[d] = w.status[d] /\ n.filled[d] = w.filled[d]
                            /\ n.tags[d] = w.tags[d] /\ n.url[d] = w.url[d]
    BY <1>8, <1>14 DEF Existing
  <2>. QED BY <1>7, <2>1, <2>2, <2>3 DEF Completes
<1>16. Grows(w, n, e.key)
  <2>1. \A k \in Kind : w.taxonomy[k] \subseteq n.taxonomy[k]
    BY <1>9, <1>11
  <2>2. \A d \in ExistingIn(w) : d \in Courses \ {c}
    BY <1>8 DEF ExistingIn
  <2>3. \A d \in ExistingIn(n) : d = c \/ (d \in ExistingIn(w) /\ n.url[d] = w.url[d])
    BY <1>14 DEF ExistingIn
  <2>. QED BY <1>14, <2>1, <2>2, <2>3 DEF Grows
<1>17. <<c>> \in Seq(Courses) /\ PendingOK(<<c>>) /\ <<c>>[1] = c /\ 1 \in DOMAIN <<c>>
  BY <1>8 DEF PendingOK
<1>18. ASSUME e.key \in imp.promised
       PROVE  Kept(n, <<c>>, imp.file, imp.promised, imp.at)
  <2>1. e.curated /\ e.technologies # {}
    BY <1>8, <1>18 DEF Foreseen
  <2>2. n.marker[imp.file[imp.at].key] = c
    BY <1>2, <1>14 DEF Entry
  <2>3. n.filled[c] /\ \A k \in Kind : n.tags[c][k] # {}
    BY <1>4, <1>14, <2>1
  <2>4. prereqs[c] = {}
    BY <1>8 DEF Rules, CatalogRulesHold, TypeOK
  <2>. QED BY <1>8, <1>14, <1>17, <2>2, <2>3, <2>4 DEF Kept
<1>. QED BY <1>1, <1>2, <1>5, <1>6, <1>7, <1>13, <1>15, <1>16, <1>17, <1>18, NextEntryKeeps

\* A transaction that begins.
LEMMA BeginKeeps ==
  ASSUME Rules, Lawful(Committed), BeginImport
  PROVE  RunOK(imp)'
<1>1. PICK file \in Files : \E fill, publish \in BOOLEAN :
        imp' = [phase |-> "entries", file |-> file, at |-> 1,
                fill |-> fill, publish |-> publish,
                work |-> Named(Committed, "categories", {file[i].category : i \in DOMAIN file}),
                pending |-> << >>, index |-> 0, progress |-> FALSE,
                promised |-> IF publish THEN Promises(file) ELSE {}]
  BY DEF BeginImport
<1>0. PICK cats : cats = {file[i].category : i \in DOMAIN file}
  OBVIOUS
<1>2. PICK w : w = Named(Committed, "categories", cats)
  OBVIOUS
<1>3. PICK fill \in BOOLEAN, publish \in BOOLEAN :
        imp' = [phase |-> "entries", file |-> file, at |-> 1, fill |-> fill, publish |-> publish,
                work |-> w, pending |-> << >>, index |-> 0, progress |-> FALSE,
                promised |-> IF publish THEN Promises(file) ELSE {}]
  BY <1>1, <1>2, <1>0
<1>4. PICK r : r = imp'
  OBVIOUS
<1>5. PICK promised : promised = IF publish THEN Promises(file) ELSE {}
  OBVIOUS
<1>6. /\ DOMAIN r = {"phase", "file", "at", "fill", "publish", "work", "pending", "index",
                     "progress", "promised"}
      /\ r.phase = "entries" /\ r.file = file /\ r.at = 1 /\ r.fill = fill
      /\ r.publish = publish /\ r.work = w /\ r.pending = << >> /\ r.index = 0
      /\ r.promised = promised
  BY <1>3, <1>4, <1>5
<1>7. /\ Len(file) \in Nat /\ DOMAIN file = 1 .. Len(file)
      /\ \A i \in 1 .. Len(file) : file[i].category \in Entries
  BY FilesTyped DEF SourceCourse
<1>8. /\ Lawful(w)
      /\ w.taxonomy["categories"] = taxonomy["categories"] \cup cats
      /\ w.status = status /\ w.filled = filled /\ w.tags = tags
      /\ w.prereqs = prereqs /\ w.url = url /\ w.marker = marker
  <2>1. PICK d : d = Committed
    OBVIOUS
  <2>2. /\ Lawful(d) /\ d.taxonomy = taxonomy
        /\ d.status = status /\ d.filled = filled /\ d.tags = tags
        /\ d.prereqs = prereqs /\ d.url = url /\ d.marker = marker
    BY <2>1 DEF Committed
  <2>3. "categories" \in Kind /\ cats \in SUBSET Entries
    BY <1>7, <1>0 DEF Kind
  <2>4. w = Named(d, "categories", cats)
    BY <1>2, <2>1
  <2>5. Lawful(d)
    BY <2>2
  <2>6. Lawful(w) /\ Adds(d, w, "categories", cats)
    BY <2>3, <2>4, <2>5, NamedIsLawful
  <2>7. w.taxonomy["categories"] = d.taxonomy["categories"] \cup cats
    BY <2>3, <2>6 DEF Adds
  <2>8. d.taxonomy["categories"] = taxonomy["categories"]
    BY <2>2
  <2>. QED BY <2>2, <2>6, <2>7, <2>8 DEF Adds
<1>9. RunTyped(r)
  <2>1. << >> \in Seq(Courses) /\ 0 \in 0 .. Len(<< >>) /\ 1 \in 1 .. (Len(file) + 1)
    BY <1>7
  <2>2. ~r.publish => r.promised = {}
    BY <1>5, <1>6
  <2>3. \A i \in DOMAIN r.file : r.file[i].category \in r.work.taxonomy["categories"]
    BY <1>6, <1>8, <1>0
  <2>. QED BY <1>6, <2>1, <2>2, <2>3 DEF RunTyped
<1>10. Completes(w, fill, publish)
  BY <1>8 DEF Completes
<1>11. PendingOK(<< >>) /\ Ahead(w, file, 1)
  BY <1>8 DEF PendingOK, Ahead, Existing
<1>12. PromisesMade(file, promised)
  BY <1>5, PromisesForeseen DEF PromisesMade
<1>13. PromisesKept(w, << >>, file, promised, 1)
  BY DEF PromisesKept
<1>14. RunOK(r)
  BY <1>6, <1>8, <1>9, <1>10, <1>11, <1>12, <1>13 DEF RunOK, PassOK
<1>. QED BY <1>4, <1>14, RunKept DEF BeginImport

\* The entries are done.
LEMMA EntriesDoneKeeps ==
  ASSUME RunOK(imp), EntriesDone
  PROVE  RunOK(imp)'
<1>1. PICK r : r = imp
  OBVIOUS
<1>2. PICK q : q = imp'
  OBVIOUS
<1>3. /\ RunOK(r) /\ r.phase = "entries" /\ r.at > Len(r.file)
      /\ q = [r EXCEPT !.phase = "publishing", !.index = Len(r.pending), !.progress = FALSE]
  BY <1>1, <1>2 DEF EntriesDone
<1>4. /\ DOMAIN q = DOMAIN r /\ q.phase = "publishing" /\ q.index = Len(r.pending)
      /\ q.progress = FALSE /\ q.file = r.file /\ q.at = r.at /\ q.fill = r.fill
      /\ q.publish = r.publish /\ q.work = r.work /\ q.pending = r.pending
      /\ q.promised = r.promised
  BY <1>3 DEF RunOK, RunTyped
<1>5. Len(r.pending) \in Nat /\ r.at = Len(r.file) + 1
  <2>1. PICK n : n = Len(r.file)
    OBVIOUS
  <2>2. n \in Nat /\ r.at \in 1 .. (n + 1) /\ r.at > n
    BY <1>3, <2>1, FilesTyped DEF RunOK, RunTyped
  <2>3. r.at = n + 1
    BY <2>2
  <2>. QED BY <1>3, <2>1, <2>3 DEF RunOK, RunTyped
<1>6. RunTyped(q)
  BY <1>3, <1>4, <1>5 DEF RunOK, RunTyped
<1>7. PassOK(q)
  BY <1>4, <1>5 DEF PassOK
<1>8. RunOK(q)
  BY <1>3, <1>4, <1>6, <1>7 DEF RunOK
<1>. QED BY <1>2, <1>8, RunKept DEF EntriesDone

\* Another pass, or the questionnaire.
LEMMA PassDoneKeeps ==
  ASSUME RunOK(imp), PassDone
  PROVE  RunOK(imp)'
<1>1. PICK r : r = imp
  OBVIOUS
<1>2. PICK q : q = imp'
  OBVIOUS
<1>3. /\ RunOK(r) /\ r.phase = "publishing" /\ r.index = 0
      /\ \/ r.pending # << >> /\ r.progress
            /\ q = [r EXCEPT !.index = Len(r.pending), !.progress = FALSE]
         \/ (r.pending = << >> \/ ~r.progress) /\ q = [r EXCEPT !.phase = "questionnaire"]
  BY <1>1, <1>2 DEF PassDone
<1>4. CASE r.pending # << >> /\ r.progress
           /\ q = [r EXCEPT !.index = Len(r.pending), !.progress = FALSE]
  <2>1. /\ DOMAIN q = DOMAIN r /\ q.phase = "publishing" /\ q.index = Len(r.pending)
        /\ q.progress = FALSE /\ q.file = r.file /\ q.at = r.at /\ q.fill = r.fill
        /\ q.publish = r.publish /\ q.work = r.work /\ q.pending = r.pending
        /\ q.promised = r.promised
    BY <1>3, <1>4 DEF RunOK, RunTyped
  <2>2. RunTyped(q)
    BY <1>3, <2>1 DEF RunOK, RunTyped
  <2>3. PassOK(q)
    <3>1. Len(r.pending) \in Nat
      BY <1>3 DEF RunOK, RunTyped
    <3>. QED BY <2>1, <3>1 DEF PassOK
  <2>4. RunOK(q)
    BY <1>3, <2>1, <2>2, <2>3 DEF RunOK
  <2>. QED BY <1>2, <2>4, RunKept DEF PassDone
<1>5. CASE (r.pending = << >> \/ ~r.progress) /\ q = [r EXCEPT !.phase = "questionnaire"]
  <2>1. /\ DOMAIN q = DOMAIN r /\ q.phase = "questionnaire" /\ q.index = r.index
        /\ q.progress = r.progress /\ q.file = r.file /\ q.at = r.at /\ q.fill = r.fill
        /\ q.publish = r.publish /\ q.work = r.work /\ q.pending = r.pending
        /\ q.promised = r.promised
    BY <1>3, <1>5 DEF RunOK, RunTyped
  <2>2. RunTyped(q)
    BY <1>3, <2>1 DEF RunOK, RunTyped
  <2>3. PassOK(q)
    <3>1. DOMAIN r.pending = 1 .. Len(r.pending)
      BY <1>3 DEF RunOK, RunTyped
    <3>2. \A i \in DOMAIN r.pending : ~Ready(r.work, r.pending[i])
      <4>1. CASE r.pending = << >>
        BY <4>1
      <4>2. CASE ~r.progress
        BY <1>3, <3>1, <4>2 DEF RunOK, PassOK
      <4>. QED BY <1>5, <4>1, <4>2
    <3>. QED BY <2>1, <3>2 DEF PassOK
  <2>4. RunOK(q)
    BY <1>3, <2>1, <2>2, <2>3 DEF RunOK
  <2>. QED BY <1>2, <2>4, RunKept DEF PassDone
<1>. QED BY <1>3, <1>4, <1>5

\* A sequence without one of its elements.
LEMMA WithoutOne ==
  ASSUME NEW S, NEW seq \in Seq(S), NEW i \in 1 .. Len(seq)
  PROVE  /\ Without(seq, i) \in Seq(S)
         /\ Len(Without(seq, i)) = Len(seq) - 1
         /\ \A j \in DOMAIN seq : j # i =>
              \E k \in DOMAIN Without(seq, i) : Without(seq, i)[k] = seq[j]
         /\ \A k \in DOMAIN Without(seq, i) : \E j \in DOMAIN seq : Without(seq, i)[k] = seq[j]
<1>1. PICK a : a = SubSeq(seq, 1, i - 1)
  OBVIOUS
<1>2. PICK b : b = SubSeq(seq, i + 1, Len(seq))
  OBVIOUS
<1>3. PICK c : c = a \o b
  OBVIOUS
<1>4. PICK n : n = Len(seq)
  OBVIOUS
<1>5. n \in Nat /\ i \in 1 .. n /\ DOMAIN seq = 1 .. n
  BY <1>4
<1>6. a \in Seq(S) /\ Len(a) = i - 1 /\ \A j \in 1 .. (i - 1) : a[j] = seq[j]
  BY <1>1, <1>4, <1>5, SubSeqProperties
<1>7. b \in Seq(S) /\ Len(b) = n - i /\ \A j \in 1 .. (n - i) : b[j] = seq[i + j]
  BY <1>2, <1>4, <1>5, SubSeqProperties
<1>8. /\ c \in Seq(S) /\ Len(c) = n - 1
      /\ \A k \in 1 .. (i - 1) : c[k] = a[k]
      /\ \A k \in 1 .. (n - i) : c[i - 1 + k] = b[k]
  <2>1. /\ c \in Seq(S) /\ Len(c) = Len(a) + Len(b)
        /\ \A k \in 1 .. Len(a) : c[k] = a[k]
        /\ \A k \in 1 .. Len(b) : c[Len(a) + k] = b[k]
    <3>1. a \in Seq(S) /\ b \in Seq(S)
      BY <1>6, <1>7
    <3>. QED BY <1>3, <3>1
  <2>2. Len(c) = n - 1
    BY <1>5, <1>6, <1>7, <2>1
  <2>3. \A k \in 1 .. (i - 1) : c[k] = a[k]
    BY <1>6, <2>1
  <2>4. \A k \in 1 .. (n - i) : c[i - 1 + k] = b[k]
    <3>1. PICK la : la = Len(a)
      OBVIOUS
    <3>2. PICK lb : lb = Len(b)
      OBVIOUS
    <3>3. \A k \in 1 .. lb : c[la + k] = b[k]
      BY <2>1, <3>1, <3>2
    <3>4. la = i - 1 /\ lb = n - i
      BY <1>6, <1>7, <3>1, <3>2
    <3>. QED BY <3>3, <3>4
  <2>. QED BY <2>1, <2>2, <2>3, <2>4
<1>9. DOMAIN c = 1 .. (n - 1)
  BY <1>5, <1>8
<1>10. \A k \in 1 .. (n - i) : c[i - 1 + k] = seq[i + k]
  BY <1>7, <1>8
<1>11. \A j \in 1 .. n : j # i => \E k \in 1 .. (n - 1) : c[k] = seq[j]
  <2>. SUFFICES ASSUME NEW j \in 1 .. n, j # i PROVE \E k \in 1 .. (n - 1) : c[k] = seq[j]
    OBVIOUS
  <2>1. CASE j < i
    <3>1. j \in 1 .. (i - 1) /\ j \in 1 .. (n - 1)
      BY <1>5, <2>1
    <3>. QED BY <1>6, <1>8, <3>1
  <2>2. CASE j > i
    <3>1. j - i \in 1 .. (n - i) /\ i - 1 + (j - i) = j - 1 /\ i + (j - i) = j /\ j - 1 \in 1 .. (n - 1)
      BY <1>5, <2>2
    <3>2. c[j - 1] = seq[j]
      BY <1>10, <3>1
    <3>. QED BY <3>1, <3>2
  <2>. QED BY <1>5, <2>1, <2>2
<1>12. \A k \in 1 .. (n - 1) : \E j \in 1 .. n : c[k] = seq[j]
  <2>. SUFFICES ASSUME NEW k \in 1 .. (n - 1) PROVE \E j \in 1 .. n : c[k] = seq[j]
    OBVIOUS
  <2>1. CASE k < i
    <3>1. k \in 1 .. (i - 1) /\ k \in 1 .. n
      BY <1>5, <2>1
    <3>. QED BY <1>6, <1>8, <3>1
  <2>2. CASE k >= i
    <3>1. k - (i - 1) \in 1 .. (n - i) /\ i - 1 + (k - (i - 1)) = k /\ i + (k - (i - 1)) = k + 1
          /\ k + 1 \in 1 .. n
      BY <1>5, <2>2
    <3>2. c[k] = seq[k + 1]
      BY <1>10, <3>1
    <3>. QED BY <3>1, <3>2
  <2>3. k < i \/ k >= i
    BY <1>5
  <2>. QED BY <2>1, <2>2, <2>3
<1>13. Without(seq, i) = c
  BY <1>1, <1>2, <1>3 DEF Without
<1>14. /\ Len(c) = Len(seq) - 1
       /\ \A j \in DOMAIN seq : j # i => \E k \in DOMAIN c : c[k] = seq[j]
       /\ \A k \in DOMAIN c : \E j \in DOMAIN seq : c[k] = seq[j]
  BY <1>4, <1>5, <1>8, <1>9, <1>11, <1>12
<1>. QED BY <1>8, <1>13, <1>14

\* One turn over the pending courses.
LEMMA PublishKeeps ==
  ASSUME RunOK(imp), PublishOne
  PROVE  RunOK(imp)'
<1>1. PICK r : r = imp
  OBVIOUS
<1>2. PICK q : q = imp'
  OBVIOUS
<1>3. PICK c : c = r.pending[r.index]
  OBVIOUS
<1>4. PICK w : w = r.work
  OBVIOUS
<1>5. /\ RunOK(r) /\ r.phase = "publishing" /\ r.index > 0
      /\ Lawful(w) /\ Completes(w, r.fill, r.publish)
  BY <1>1, <1>4 DEF PublishOne, RunOK
<1>6. /\ r.pending \in Seq(Courses) /\ r.index \in 1 .. Len(r.pending) /\ Len(r.pending) \in Nat
      /\ DOMAIN r.pending = 1 .. Len(r.pending) /\ c \in Courses /\ r.publish
  <2>1. r.pending \in Seq(Courses) /\ r.index \in 0 .. Len(r.pending)
    BY <1>5 DEF RunOK, RunTyped
  <2>2. PICK p : p = r.pending
    OBVIOUS
  <2>3. PICK i : i = r.index
    OBVIOUS
  <2>4. p \in Seq(Courses) /\ i \in 0 .. Len(p) /\ i > 0
    BY <1>5, <2>1, <2>2, <2>3
  <2>5. i \in 1 .. Len(p) /\ Len(p) \in Nat /\ DOMAIN p = 1 .. Len(p) /\ p # << >> /\ p[i] \in Courses
    BY <2>4
  <2>6. r.publish
    BY <1>5, <2>2, <2>5 DEF RunOK, RunTyped
  <2>. QED BY <1>3, <2>2, <2>3, <2>4, <2>5, <2>6
<1>7. MayPublish(c) <=> Ready(w, c)
  <2>1. W!Published = PublishedIn(w)
    BY <1>1, <1>4 DEF W!Published, PublishedIn
  <2>3. MayPublish(c) <=> /\ w.status[c] = "draft" /\ w.filled[c]
                          /\ \A k \in Kind : w.tags[c][k] # {}
                          /\ w.prereqs[c] \subseteq W!Published
    BY <1>1, <1>4 DEF MayPublish, W!Publishable, W!Kind, Kind
  <2>. QED BY <2>1, <2>3 DEF Ready
<1>8. CASE ~Ready(w, c)
  <2>1. q = [r EXCEPT !.index = @ - 1]
    BY <1>1, <1>2, <1>3, <1>7, <1>8 DEF PublishOne
  <2>2. /\ DOMAIN q = DOMAIN r /\ q.phase = "publishing" /\ q.index = r.index - 1
        /\ q.progress = r.progress /\ q.file = r.file /\ q.at = r.at /\ q.fill = r.fill
        /\ q.publish = r.publish /\ q.work = r.work /\ q.pending = r.pending
        /\ q.promised = r.promised
    BY <1>5, <2>1 DEF RunOK, RunTyped
  <2>3. RunTyped(q)
    <3>1. q.index \in 0 .. Len(q.pending)
      BY <1>6, <2>2
    <3>. QED BY <1>5, <2>2, <3>1 DEF RunOK, RunTyped
  <2>4. PassOK(q)
    <3>. SUFFICES ASSUME ~r.progress, NEW i \in r.index .. Len(r.pending)
                  PROVE  ~Ready(w, r.pending[i])
      <4>1. r.index - 1 + 1 = r.index
        BY <1>6
      <4>. QED BY <1>4, <2>2, <4>1 DEF PassOK
    <3>1. CASE i = r.index
      BY <1>3, <1>8, <3>1
    <3>2. CASE i # r.index
      <4>1. i \in (r.index + 1) .. Len(r.pending)
        BY <1>6, <3>2
      <4>. QED BY <1>4, <1>5, <4>1 DEF RunOK, PassOK
    <3>. QED BY <3>1, <3>2
  <2>5. RunOK(q)
    BY <1>5, <2>2, <2>3, <2>4 DEF RunOK
  <2>. QED BY <1>2, <2>5, RunKept DEF PublishOne
<1>9. CASE Ready(w, c)
  <2>1. PICK p : p = Without(r.pending, r.index)
    OBVIOUS
  <2>2. PICK n : n = [w EXCEPT !.status[c] = "published"]
    OBVIOUS
  <2>3. q = [r EXCEPT !.index = @ - 1, !.progress = TRUE, !.pending = p, !.work = n]
    BY <1>1, <1>2, <1>3, <1>4, <1>7, <1>9, <2>1, <2>2 DEF PublishOne
  <2>4. /\ DOMAIN q = DOMAIN r /\ q.phase = "publishing" /\ q.index = r.index - 1
        /\ q.progress = TRUE /\ q.file = r.file /\ q.at = r.at /\ q.fill = r.fill
        /\ q.publish = r.publish /\ q.work = n /\ q.pending = p
        /\ q.promised = r.promised
    BY <1>5, <2>3 DEF RunOK, RunTyped
  <2>5. /\ p \in Seq(Courses) /\ Len(p) = Len(r.pending) - 1
        /\ \A j \in DOMAIN r.pending : j # r.index => \E k \in DOMAIN p : p[k] = r.pending[j]
        /\ \A k \in DOMAIN p : \E j \in DOMAIN r.pending : p[k] = r.pending[j]
    <3>1. PICK s : s = r.pending
      OBVIOUS
    <3>2. PICK i : i = r.index
      OBVIOUS
    <3>3. s \in Seq(Courses) /\ i \in 1 .. Len(s) /\ p = Without(s, i)
      BY <1>6, <2>1, <3>1, <3>2
    <3>. QED BY <3>1, <3>2, <3>3, WithoutOne
  <2>6. /\ Columns(n)
        /\ n.status = [w.status EXCEPT ![c] = "published"]
        /\ n.filled = w.filled /\ n.tags = w.tags /\ n.taxonomy = w.taxonomy
        /\ n.prereqs = w.prereqs /\ n.url = w.url /\ n.marker = w.marker /\ n.form = w.form
    BY <1>5, <2>2, LawfulColumns DEF Columns
  <2>7. Lawful(n)
    BY <1>5, <1>6, <1>9, <2>6, PublishedIsLawful
  <2>8. n.status[c] = "published" /\ \A d \in Courses \ {c} : n.status[d] = w.status[d]
    BY <1>5, <1>6, <2>6, LawfulColumns
  <2>9. Completes(n, r.fill, r.publish)
    <3>1. ASSUME NEW d \in Existing, n.status[d] # status[d]
          PROVE  r.publish /\ d \in Imported /\ status[d] = "draft" /\ n.status[d] = "published"
      <4>1. CASE d = c
        <5>1. c \in Imported
          BY <1>3, <1>5, <1>6, <3>1, <4>1 DEF RunOK, PendingOK
        <5>2. w.status[c] = "draft"
          BY <1>9 DEF Ready
        <5>3. status[c] = "draft"
          BY <1>5, <3>1, <4>1, <5>2 DEF Completes
        <5>. QED BY <1>6, <2>8, <4>1, <5>1, <5>3
      <4>2. CASE d # c
        <5>1. n.status[d] = w.status[d]
          BY <2>8, <4>2 DEF Existing
        <5>. QED BY <1>5, <3>1, <5>1 DEF Completes
      <4>. QED BY <4>1, <4>2
    <3>. QED BY <1>5, <2>6, <3>1 DEF Completes
  <2>10. RunTyped(q)
    <3>1. q.index \in 0 .. Len(q.pending)
      BY <1>6, <2>4, <2>5
    <3>2. \A i \in DOMAIN q.file : q.file[i].category \in q.work.taxonomy["categories"]
      BY <1>4, <1>5, <2>4, <2>6 DEF RunOK, RunTyped
    <3>. QED BY <1>5, <1>6, <2>4, <2>5, <3>1, <3>2 DEF RunOK, RunTyped
  <2>11. PendingOK(p)
    BY <1>5, <2>5 DEF RunOK, PendingOK
  <2>12. Ahead(n, r.file, r.at)
    <3>1. \A i \in r.at .. Len(r.file) : FALSE
      <4>1. r.file \in Files /\ r.at = Len(r.file) + 1
        BY <1>5 DEF RunOK, RunTyped
      <4>2. Len(r.file) \in Nat
        BY <4>1, FilesTyped
      <4>. QED BY <4>1, <4>2
    <3>. QED BY <3>1 DEF Ahead
  <2>13. PromisesKept(n, p, r.file, r.promised, r.at)
    <3>1. ASSUME NEW i, Kept(w, r.pending, r.file, r.promised, i)
          PROVE  Kept(n, p, r.file, r.promised, i)
      <4>1. PICK d : d = w.marker[r.file[i].key]
        OBVIOUS
      <4>2. /\ d \in Courses /\ w.filled[d] /\ \A k \in Kind : w.tags[d][k] # {}
            /\ prereqs[d] \subseteq Published
                 \cup {w.marker[s] : s \in Earlier(r.file, r.promised, i)}
            /\ \/ w.status[d] = "published"
               \/ w.status[d] = "draft" /\ \E j \in DOMAIN r.pending : r.pending[j] = d
        BY <3>1, <4>1 DEF Kept
      <4>3. \/ n.status[d] = "published"
            \/ n.status[d] = "draft" /\ \E j \in DOMAIN p : p[j] = d
        <5>1. CASE d = c
          BY <2>8, <5>1
        <5>2. CASE d # c
          <6>1. n.status[d] = w.status[d]
            BY <2>8, <4>2, <5>2
          <6>2. \A j \in DOMAIN r.pending : r.pending[j] = d => j # r.index
            BY <1>3, <5>2
          <6>3. (\E j \in DOMAIN r.pending : r.pending[j] = d) => \E j \in DOMAIN p : p[j] = d
            BY <2>5, <6>2
          <6>4. \/ n.status[d] = "published"
                \/ n.status[d] = "draft" /\ \E j \in DOMAIN r.pending : r.pending[j] = d
            BY <4>2, <6>1
          <6>. QED BY <6>3, <6>4
        <5>. QED BY <5>1, <5>2
      <4>4. /\ d = n.marker[r.file[i].key] /\ n.filled[d] /\ \A k \in Kind : n.tags[d][k] # {}
            /\ prereqs[d] \subseteq Published
                 \cup {n.marker[s] : s \in Earlier(r.file, r.promised, i)}
        <5>1. n.filled = w.filled /\ n.tags = w.tags /\ n.marker = w.marker
          BY <2>6
        <5>2. d = n.marker[r.file[i].key]
          BY <4>1, <5>1
        <5>3. n.filled[d] /\ \A k \in Kind : n.tags[d][k] # {}
          BY <4>2, <5>1
        <5>4. {n.marker[s] : s \in Earlier(r.file, r.promised, i)}
                = {w.marker[s] : s \in Earlier(r.file, r.promised, i)}
          BY <5>1
        <5>. QED BY <4>2, <5>2, <5>3, <5>4
      <4>. QED BY <4>2, <4>3, <4>4 DEF Kept
    <3>. QED BY <1>4, <1>5, <3>1 DEF RunOK, PromisesKept
  <2>14. RunOK(q)
    BY <1>5, <2>4, <2>7, <2>9, <2>10, <2>11, <2>12, <2>13 DEF RunOK, PassOK
  <2>. QED BY <1>2, <2>14, RunKept DEF PublishOne
<1>. QED BY <1>8, <1>9

\* What the transaction commits is lawful.
LEMMA FinishIsLawful ==
  ASSUME RunOK(imp), FinishImport
  PROVE  UNCHANGED db \/ Lawful(Committed)'
<1>0. CASE Abort
  BY <1>0 DEF Abort
<1>. SUFFICES ASSUME ~Abort PROVE Lawful(Committed)'
  BY <1>0
<1>1. PICK w : w = imp.work
  OBVIOUS
<1>2. PICK used : used = {imp.file[i].category : i \in DOMAIN imp.file}
  OBVIOUS
<1>3. PICK n : n = WithQuestionnaire(w, used)
  OBVIOUS
<1>4. /\ taxonomy' = n.taxonomy /\ status' = n.status /\ filled' = n.filled
      /\ tags' = n.tags /\ prereqs' = n.prereqs
      /\ url' = n.url /\ marker' = n.marker /\ form' = n.form
  BY <1>1, <1>2, <1>3 DEF FinishImport
<1>5. /\ Lawful(w) /\ used \subseteq w.taxonomy["categories"]
  BY <1>1, <1>2 DEF RunOK, RunTyped
<1>6. Lawful(n) /\ Columns(n)
  <2>1. CASE w.form # NoTags
    BY <1>3, <1>5, <2>1, LawfulColumns DEF WithQuestionnaire
  <2>2. CASE w.form = NoTags
    <3>1. PICK m : m = Named(w, "technologies", InitialTechnologies)
      OBVIOUS
    <3>2. PICK f : f = [k \in Kind |-> IF k = "categories" THEN used ELSE InitialTechnologies]
      OBVIOUS
    <3>3. n = [m EXCEPT !.form = f]
      BY <1>3, <2>2, <3>1, <3>2 DEF WithQuestionnaire
    <3>4. "technologies" \in Kind /\ "categories" \in Kind /\ InitialTechnologies \in SUBSET Entries
          /\ \A k \in Kind : k # "categories" => k = "technologies"
      BY ImportAssumption DEF Kind
    <3>5. Lawful(m) /\ Columns(m) /\ Adds(w, m, "technologies", InitialTechnologies)
      BY <1>5, <3>1, <3>4, NamedIsLawful
    <3>6. /\ Columns(n) /\ n.form = f
          /\ n.filled = m.filled /\ n.tags = m.tags /\ n.taxonomy = m.taxonomy
          /\ n.status = m.status /\ n.prereqs = m.prereqs /\ n.url = m.url /\ n.marker = m.marker
      BY <3>3, <3>5 DEF Columns
    <3>7. \A k \in Kind : w.taxonomy[k] \subseteq m.taxonomy[k]
      BY <3>5 DEF Adds
    <3>8. InitialTechnologies \subseteq m.taxonomy["technologies"]
      BY <3>4, <3>5 DEF Adds
    <3>9. used \subseteq Entries
      BY <1>5, <3>4, LawfulColumns DEF TagChoices
    <3>10. f \in TagChoices /\ \A k \in Kind : f[k] \subseteq m.taxonomy[k]
      <4>1. f \in TagChoices
        BY <3>2, <3>4, <3>9 DEF TagChoices
      <4>2. f["categories"] = used /\ f["technologies"] = InitialTechnologies
        BY <3>2, <3>4
      <4>3. used \subseteq m.taxonomy["categories"]
        BY <1>5, <3>4, <3>7
      <4>. QED BY <3>4, <3>8, <4>1, <4>2, <4>3
    <3>11. Lawful(n)
      BY <3>5, <3>6, <3>10, PinnedIsLawful
    <3>. QED BY <3>6, <3>11
  <2>. QED BY <2>1, <2>2
<1>7. Committed' = n
  BY <1>4, <1>6 DEF Committed, Columns
<1>8. Lawful(Committed')
  BY <1>6, <1>7
<1>. QED BY <1>8 DEF Lawful, ExistingIn, PublishedIn

-----------------------------------------------------------------------------
(* The invariant of the clients.                                            *)

\* The names of the lock's holders differ.
LEMMA LockNames ==
  /\ NoHolder \notin Requests /\ Importer # NoHolder /\ Importer \notin Requests
BY LockAssumption, GenerationAssumption, ImportAssumption, ClientsAssumption

\* The three phases of an open transaction are none of Idle's.
LEMMA OpenIsNotIdle == \A r : RunOK(r) => r # Idle
BY DEF RunOK, RunTyped, Idle

\* Nobody stores a plan while the import or nobody holds the lock.
LEMMA NobodyChecked ==
  ASSUME LockHeld, lock = Importer \/ lock = NoHolder
  PROVE  \A g \in Requests : gen[g].phase \notin {"locked", "checked"}
BY LockNames DEF LockHeld

\* Nothing is committed by a step that leaves the tables alone.
LEMMA CommittedKept == UNCHANGED db => Committed' = Committed
BY DEF db, vars, Committed

\* An unchanged database stays lawful.
LEMMA LawKept == Committed' = Committed /\ Lawful(Committed) => Lawful(Committed)'
<1>. SUFFICES ASSUME Committed' = Committed, Lawful(Committed) PROVE Lawful(Committed)'
  OBVIOUS
<1>1. Lawful(Committed')
  OBVIOUS
<1>. QED BY <1>1 DEF Lawful, ExistingIn, PublishedIn

\* A request and the lock.
LEMMA GenerateKeepsLock ==
  ASSUME LockHeld, GenOK, NEW g \in Requests, Generate(g), UNCHANGED imp
  PROVE  LockHeld'
<1>. DEFINE in(h) == gen[h].phase \in {"locked", "checked"}
<1>1. \A h \in Requests : h # g => gen'[h] = gen[h]
  BY DEF GenOK, Generate, Become, ReadCatalog, FormatRejected, CallFails, AnswerArrives,
         BeginSave, CheckPlan, StoreRoadmap, DatabaseFails
<1>2. /\ \A p : [Fresh EXCEPT !.phase = p].phase = p
      /\ \A p : [gen[g] EXCEPT !.phase = p].phase = p
  <2>1. "phase" \in DOMAIN Fresh /\ "phase" \in DOMAIN gen[g]
    BY DEF Fresh, GenOK, RequestOK
  <2>. QED BY <2>1
<1>3. \A r : Become(g, r) => gen'[g] = r
  BY DEF Become, GenOK
<1>4. ASSUME ReadCatalog(g) \/ FormatRejected(g) \/ CallFails(g) \/ AnswerArrives(g)
      PROVE  ~in(g) /\ ~in(g)' /\ lock' = lock
  <2>1. CASE ReadCatalog(g)
    <3>1. PICK p \in Profiles : \E ranked \in Rankings({c \in Published : Matches(c, p)}) :
        LET chosen == SelectCandidates(ranked)
        IN  Become(g, IF chosen = {}
                      THEN [Fresh EXCEPT !.phase = "refused"]
                      ELSE [Fresh EXCEPT !.phase = "asking", !.attempt = 1,
                                         !.candidates = chosen,
                                         !.needs = [c \in chosen |-> prereqs[c]]])
      BY <2>1 DEF ReadCatalog
    <3>2. \E chosen :
        Become(g, IF chosen = {}
                  THEN [Fresh EXCEPT !.phase = "refused"]
                  ELSE [Fresh EXCEPT !.phase = "asking", !.attempt = 1,
                                     !.candidates = chosen,
                                     !.needs = [c \in chosen |-> prereqs[c]]])
      BY <3>1
    <3>3. PICK chosen : gen'[g] = IF chosen = {}
                  THEN [Fresh EXCEPT !.phase = "refused"]
                  ELSE [Fresh EXCEPT !.phase = "asking", !.attempt = 1,
                                     !.candidates = chosen,
                                     !.needs = [c \in chosen |-> prereqs[c]]]
      BY <1>3, <3>2
    <3>4. gen'[g].phase \in {"refused", "asking"}
      BY <3>3 DEF Fresh
    <3>. QED BY <2>1, <3>4 DEF ReadCatalog
  <2>2. CASE FormatRejected(g)
    <3>1. gen'[g].phase = gen[g].phase
      BY <1>3, <2>2 DEF FormatRejected, GenOK, RequestOK
    <3>. QED BY <2>2, <3>1 DEF FormatRejected
  <2>3. CASE CallFails(g)
    BY <1>2, <1>3, <2>3 DEF CallFails
  <2>4. CASE AnswerArrives(g)
    <3>1. PICK r : r = gen[g]
      OBVIOUS
    <3>2. \E plan, rest : \/ gen'[g] = [r EXCEPT !.phase = "planned", !.plan = plan, !.fallback = << >>]
                          \/ gen'[g] = [r EXCEPT !.attempt = 2, !.plain = FALSE, !.fallback = rest]
                          \/ gen'[g] = [Fresh EXCEPT !.phase = "refused"]
      BY <1>3, <2>4, <3>1 DEF AnswerArrives
    <3>3. /\ DOMAIN r = {"phase", "candidates", "needs", "attempt", "plain", "fallback", "plan"}
          /\ r.phase = "asking"
      BY <2>4, <3>1 DEF GenOK, RequestOK, AnswerArrives
    <3>4. gen'[g].phase \in {"planned", "asking", "refused"}
      BY <1>2, <3>2, <3>3
    <3>. QED BY <2>4, <3>4 DEF AnswerArrives
  <2>. QED BY <1>4, <2>1, <2>2, <2>3, <2>4
<1>5. ASSUME BeginSave(g)
      PROVE  lock = NoHolder /\ lock' = g /\ in(g)'
  BY <1>2, <1>3, <1>5 DEF BeginSave, TakeLock, LockFree
<1>6. ASSUME CheckPlan(g) \/ StoreRoadmap(g)
      PROVE  in(g) /\ (\/ in(g)' /\ lock' = lock
                       \/ ~in(g)' /\ lock = g /\ lock' = NoHolder)
  BY <1>2, <1>3, <1>6 DEF CheckPlan, StoreRoadmap, ReleaseLock
<1>12. ASSUME DatabaseFails(g)
       PROVE  \/ ~in(g) /\ ~in(g)' /\ lock' = lock
              \/ in(g) /\ ~in(g)' /\ lock = g /\ lock' = NoHolder
  BY <1>2, <1>3, <1>12 DEF DatabaseFails, ReleaseLock
<1>7. \/ ~in(g) /\ ~in(g)' /\ lock' = lock
      \/ lock = NoHolder /\ lock' = g /\ in(g)'
      \/ in(g) /\ in(g)' /\ lock' = lock
      \/ in(g) /\ ~in(g)' /\ lock = g /\ lock' = NoHolder
  BY <1>4, <1>5, <1>6, <1>12 DEF Generate
<1>8. \A h \in Requests : h # g => (in(h)' <=> in(h))
  BY <1>1
<1>. HIDE DEF in
<1>9. LockHeld <=> /\ lock \in {NoHolder, Importer} \cup Requests
                   /\ \A h \in Requests : lock = h <=> in(h)
                   /\ lock = Importer <=> imp # Idle
  BY DEF LockHeld, in
<1>10. LockHeld' <=> /\ lock' \in {NoHolder, Importer} \cup Requests
                     /\ \A h \in Requests : lock' = h <=> in(h)'
                     /\ lock' = Importer <=> imp' # Idle
  BY DEF LockHeld, in, Idle
<1>11. imp' # Idle <=> imp # Idle
  OBVIOUS
<1>. QED BY <1>7, <1>8, <1>9, <1>10, <1>11, LockNames

\* A step of the import keeps its transaction in order, or ends it.
LEMMA StepKeepsRun ==
  ASSUME Rules, RunOK(imp), ImportStep
  PROVE  imp' = Idle \/ RunOK(imp)'
<1>1. ImportAmbiguous => imp' = Idle
  BY DEF ImportAmbiguous, Abort
<1>2. FinishImport => imp' = Idle
  BY DEF FinishImport, Abort
<1>. QED BY <1>1, <1>2, MarkedKeeps, LinkedKeeps, CreatedKeeps, EntriesDoneKeeps, PublishKeeps,
            PassDoneKeeps DEF ImportStep

\* A step of the import commits nothing, or all of it at once.
LEMMA StepKeepsLaw ==
  ASSUME Lawful(Committed), RunOK(imp), ImportStep
  PROVE  Lawful(Committed)'
<1>1. UNCHANGED db => Lawful(Committed)'
  BY CommittedKept, LawKept
<1>2. ~FinishImport => UNCHANGED db
  BY DEF ImportStep, ImportMarked, ImportLinked, ImportAmbiguous, ImportCreated, EntriesDone,
         PublishOne, PassDone, NextEntry, Abort
<1>. QED BY <1>1, <1>2, FinishIsLawful

\* Only an open transaction takes a step.
LEMMA StepIsOpen == ImportStep => imp # Idle
<1>1. imp = Idle => imp.phase = "idle"
  BY DEF Idle
<1>2. ImportStep => imp.phase \in {"entries", "publishing", "questionnaire"}
  BY DEF ImportStep, ImportMarked, ImportLinked, ImportAmbiguous, ImportCreated, EntriesDone,
         PublishOne, PassDone, FinishImport
<1>. QED BY <1>1, <1>2

\* The import.
LEMMA ImportKeeps ==
  ASSUME ClientsInv, Import, UNCHANGED gen
  PROVE  ClientsInv'
<1>0. Lawful(Committed) /\ LockHeld /\ GenOK /\ ImportOK /\ Rules
  BY LawfulCommitted DEF ClientsInv
<1>1. lock = Importer \/ lock = NoHolder
  <2>1. imp # Idle => lock = Importer
    BY <1>0 DEF LockHeld
  <2>2. ImportStep => imp # Idle
    BY StepIsOpen
  <2>. QED BY <2>1, <2>2 DEF Import, BeginImport, TakeLock, LockFree, ImportFails
<1>2. \A g \in Requests : gen[g].phase \notin {"locked", "checked"}
  BY <1>0, <1>1, NobodyChecked
<1>3. GenOK'
  BY <1>0, <1>2, GenKept
<1>4. LockHeld' <=> /\ lock' \in {NoHolder, Importer} \cup Requests
                    /\ \A g \in Requests : lock' # g
                    /\ lock' = Importer <=> imp' # Idle
  <2>1. \A g \in Requests : gen'[g].phase \notin {"locked", "checked"}
    BY <1>2
  <2>. QED BY <2>1 DEF LockHeld, Idle
<1>5. CASE BeginImport
  <2>1. RunOK(imp)'
    BY <1>0, <1>5, BeginKeeps
  <2>2. imp' # Idle
    <3>1. imp'.phase # "idle"
      BY <2>1 DEF RunOK, RunTyped
    <3>. QED BY <3>1 DEF Idle
  <2>3. lock' = Importer /\ UNCHANGED db
    BY <1>5 DEF BeginImport, TakeLock
  <2>4. LockHeld'
    BY <1>4, <2>2, <2>3, LockNames
  <2>5. Lawful(Committed)'
    BY <1>0, <2>3, CommittedKept, LawKept
  <2>. QED BY <1>3, <2>1, <2>4, <2>5 DEF ClientsInv, ImportOK
<1>6. CASE ImportStep
  <2>1. imp # Idle /\ RunOK(imp) /\ lock = Importer
    <3>1. imp # Idle
      BY <1>6, StepIsOpen
    <3>. QED BY <1>0, <3>1 DEF ImportOK, LockHeld
  <2>2. imp' = Idle \/ RunOK(imp)'
    BY <1>0, <1>6, <2>1, StepKeepsRun
  <2>3. Lawful(Committed)'
    BY <1>0, <1>6, <2>1, StepKeepsLaw
  <2>4. imp' # Idle => lock' = lock
    BY <1>6 DEF ImportStep, ImportMarked, ImportLinked, ImportAmbiguous, ImportCreated,
         EntriesDone, PublishOne, PassDone, FinishImport, NextEntry, Abort
  <2>5. imp' = Idle => lock' = NoHolder
    <3>1. ASSUME imp' = Idle, RunOK(imp)' PROVE FALSE
      <4>1. imp'.phase # "idle"
        BY <3>1 DEF RunOK, RunTyped
      <4>. QED BY <3>1, <4>1 DEF Idle
    <3>2. ASSUME ImportMarked \/ ImportCreated \/ EntriesDone \/ PublishOne \/ PassDone
          PROVE  RunOK(imp)'
      BY <1>0, <2>1, <3>2, MarkedKeeps, CreatedKeeps, EntriesDoneKeeps, PublishKeeps,
         PassDoneKeeps
    <3>3. ASSUME ImportLinked, ~Abort PROVE imp' # Idle
      <4>1. PICK w, s : NextEntry(w, s)
        BY <3>3 DEF ImportLinked
      <4>2. imp'.phase = imp.phase
        BY <2>1, <4>1 DEF NextEntry, RunOK, RunTyped
      <4>3. imp'.phase # "idle"
        BY <2>1, <4>2 DEF RunOK, RunTyped
      <4>. QED BY <4>3 DEF Idle
    <3>4. Abort \/ FinishImport => lock' = NoHolder
      BY DEF FinishImport, Abort, ReleaseLock
    <3>. QED BY <1>6, <3>1, <3>2, <3>3, <3>4 DEF ImportStep, ImportAmbiguous
  <2>6. LockHeld'
    BY <1>4, <2>1, <2>4, <2>5, LockNames
  <2>. QED BY <1>3, <2>2, <2>3, <2>6 DEF ClientsInv, ImportOK, Idle
<1>7. CASE ImportFails
  <2>1. imp' = Idle /\ lock' = NoHolder /\ UNCHANGED db
    BY <1>7 DEF ImportFails, Abort, ReleaseLock
  <2>2. LockHeld'
    BY <1>4, <2>1, LockNames
  <2>3. Lawful(Committed)'
    BY <1>0, <2>1, CommittedKept, LawKept
  <2>. QED BY <1>3, <2>1, <2>2, <2>3 DEF ClientsInv, ImportOK, Idle
<1>. QED BY <1>5, <1>6, <1>7 DEF Import

\* A request.
LEMMA GenerateKeeps ==
  ASSUME ClientsInv, NEW g \in Requests, Generate(g), UNCHANGED importVars
  PROVE  ClientsInv'
<1>0. Lawful(Committed) /\ LockHeld /\ GenOK /\ ImportOK /\ Rules
  BY LawfulCommitted DEF ClientsInv
<1>1. UNCHANGED vars
  BY DEF Generate, ReadCatalog, FormatRejected, CallFails, AnswerArrives, BeginSave, CheckPlan,
         StoreRoadmap, DatabaseFails
<1>2. UNCHANGED db /\ imp' = imp
  BY <1>1 DEF db, importVars
<1>3. Lawful(Committed)'
  BY <1>0, <1>2, CommittedKept, LawKept
<1>4. ImportOK'
  BY <1>0, <1>2, RunKept DEF ImportOK, Idle
<1>. QED BY <1>0, <1>2, <1>3, <1>4, GenerateKeepsGen, GenerateKeepsLock DEF ClientsInv

\* An administrator.
LEMMA AdminKeeps == ClientsInv /\ AdminWrite => ClientsInv'
<1>. SUFFICES ASSUME ClientsInv, AdminWrite PROVE ClientsInv'
  OBVIOUS
<1>0. Lawful(Committed) /\ LockHeld /\ GenOK /\ ImportOK
  BY DEF ClientsInv
<1>1. lock = NoHolder /\ UNCHANGED <<lock, gen, imp>>
  BY DEF AdminWrite, LockFree
<1>2. imp = Idle
  BY <1>0, <1>1, LockNames DEF LockHeld
<1>3. GenOK'
  <2>1. \A g \in Requests : gen[g].phase \notin {"locked", "checked"}
    BY <1>0, <1>1, NobodyChecked
  <2>. QED BY <1>0, <1>1, <2>1, GenKept
<1>4. LockHeld'
  BY <1>0, <1>1 DEF LockHeld, Idle
<1>. QED BY <1>0, <1>1, <1>2, <1>3, <1>4, AdminKeepsLaw DEF ClientsInv, ImportOK, Idle

\* A step that changes nothing.
LEMMA ClientsStutter == ClientsInv /\ UNCHANGED clientVars => ClientsInv'
<1>. SUFFICES ASSUME ClientsInv, UNCHANGED clientVars PROVE ClientsInv'
  OBVIOUS
<1>0. Lawful(Committed) /\ LockHeld /\ GenOK /\ ImportOK
  BY DEF ClientsInv
<1>1. UNCHANGED db /\ imp' = imp /\ gen' = gen /\ lock' = lock /\ UNCHANGED vars
  BY DEF clientVars, importVars, db
<1>2. Lawful(Committed)'
  BY <1>0, <1>1, CommittedKept, LawKept
<1>3. LockHeld' /\ ImportOK'
  BY <1>0, <1>1, RunKept DEF LockHeld, ImportOK, Idle
<1>4. GenOK'
  <2>1. status' = status /\ prereqs' = prereqs
    BY <1>1 DEF vars
  <2>2. ASSUME NEW g \in Requests PROVE RequestOK(gen[g])'
    <3>1. ValidSelection(gen[g].plan, {})' <=> ValidSelection(gen[g].plan, {})
      BY <1>1, <2>1 DEF ValidSelection, Published
    <3>2. \A ids : SelectionAccepted(gen[g], ids)' <=> SelectionAccepted(gen[g], ids)
      BY <1>1 DEF SelectionAccepted
    <3>3. RequestOK(gen[g])
      BY <1>0 DEF GenOK
    <3>. QED BY <1>1, <3>1, <3>2, <3>3 DEF RequestOK
  <2>. QED BY <1>0, <1>1, <2>2 DEF GenOK
<1>. QED BY <1>2, <1>3, <1>4 DEF ClientsInv

\* The state in which the clients start.
LEMMA ClientsStart == ClientsInit => ClientsInv
<1>. SUFFICES ASSUME ClientsInit PROVE ClientsInv
  OBVIOUS
<1>1. PICK d \in Catalogs :
       /\ taxonomy = d.taxonomy /\ status = d.status /\ filled = d.filled
       /\ tags = d.tags /\ prereqs = d.prereqs
       /\ url = d.url /\ marker = d.marker /\ form = d.form
  BY DEF ClientsInit
<1>2. Lawful(d)
  BY ClientsAssumption
<1>3. Committed = d
  <2>1. Columns(d)
    BY <1>2, LawfulColumns
  <2>. QED BY <1>1, <2>1 DEF Committed, Columns
<1>4. Lawful(Committed)
  BY <1>2, <1>3
<1>5. lock = NoHolder /\ imp = Idle /\ gen = [g \in Requests |-> Fresh]
  BY DEF ClientsInit, GenInit, ImportInit
<1>6. LockHeld
  <2>1. Fresh.phase = "start"
    BY DEF Fresh
  <2>. QED BY <1>5, <2>1, LockNames DEF LockHeld
<1>7. GenOK
  <2>1. RequestOK(Fresh)
    BY DEF RequestOK, Fresh
  <2>. QED BY <1>5, <2>1 DEF GenOK
<1>. QED BY <1>4, <1>5, <1>6, <1>7 DEF ClientsInv, ImportOK

\* Between the steps of administrators, requests and imports, the committed database
\* is lawful, the lock has its one holder, and what each open generation and import
\* has gathered fits the catalog it was gathered from.
THEOREM ClientsInvariant == ClientsSpec => []ClientsInv
<1>1. ClientsInv /\ [ClientsNext]_clientVars => ClientsInv'
  BY AdminKeeps, GenerateKeeps, ImportKeeps, ClientsStutter DEF ClientsNext
<1>. QED BY <1>1, ClientsStart, PTL DEF ClientsSpec

-----------------------------------------------------------------------------
(* What the invariant says to a reader.                                     *)

\* The database the migrations leave.
EmptyDatabase ==
  [taxonomy |-> NoTags, status |-> [c \in Courses |-> "absent"],
   filled |-> [c \in Courses |-> FALSE], tags |-> [c \in Courses |-> NoTags],
   prereqs |-> [c \in Courses |-> {}], url |-> [c \in Courses |-> Elsewhere],
   marker |-> [s \in Sources |-> NoCourse], form |-> NoTags]

\* The assumption on Catalogs is met: the migrations leave a lawful database ...
THEOREM EmptyIsLawful == Lawful(EmptyDatabase)
<1>1. PICK d : d = EmptyDatabase
  OBVIOUS
<1>2. /\ Columns(d)
      /\ d.taxonomy = NoTags /\ d.status = [c \in Courses |-> "absent"]
      /\ d.filled = [c \in Courses |-> FALSE] /\ d.tags = [c \in Courses |-> NoTags]
      /\ d.prereqs = [c \in Courses |-> {}] /\ d.url = [c \in Courses |-> Elsewhere]
      /\ d.marker = [s \in Sources |-> NoCourse] /\ d.form = NoTags
  BY <1>1 DEF EmptyDatabase, Columns
<1>3. NoTags \in TagChoices /\ \A k \in Kind : NoTags[k] = {}
  BY DEF NoTags, TagChoices
<1>4. ExistingIn(d) = {} /\ PublishedIn(d) = {}
  BY <1>2 DEF ExistingIn, PublishedIn
<1>5. d \in Tables
  BY <1>2, <1>3, TablesByColumns
<1>6. IsFiniteSet(ExistingIn(d))
  BY <1>4, FS_EmptySet
<1>. QED BY <1>1, <1>2, <1>3, <1>4, <1>5, <1>6 DEF Lawful

\* ... and every client leaves one (CatalogService, importInitialContent).
THEOREM LawIsKept == ClientsSpec => []Lawful(Committed)
<1>1. ClientsInv => Lawful(Committed)
  BY DEF ClientsInv
<1>. QED BY <1>1, ClientsInvariant, PTL

\* Whatever administrators, requests and imports interleave, the committed catalog
\* keeps its rules (CatalogService and importInitialContent).
THEOREM RulesHold == ClientsSpec => []CatalogRulesHold
<1>1. ClientsInv => CatalogRulesHold
  BY LawfulCommitted DEF ClientsInv, Rules
<1>. QED BY <1>1, ClientsInvariant, PTL

\* A plan is a selection the catalog accepts while its candidates are as they were
\* read, and from its check to its storing whatever the others do (planRoadmap and
\* validateRoadmapSelection).
THEOREM PlansAreSelections == ClientsSpec => []PlanIsSelection
<1>1. ClientsInv => PlanIsSelection
  <2>. SUFFICES ASSUME ClientsInv, NEW g \in Requests
                PROVE  /\ gen[g].phase \in {"planned", "locked"} /\ StillCurrent(gen[g])
                            => ValidSelection(gen[g].plan, {})
                       /\ gen[g].phase = "checked" => ValidSelection(gen[g].plan, {})
    BY DEF PlanIsSelection
  <2>1. PICK r : r = gen[g]
    OBVIOUS
  <2>2. RequestOK(r)
    BY <2>1 DEF ClientsInv, GenOK
  <2>3. ASSUME r.phase \in {"planned", "locked"}, StillCurrent(r)
        PROVE  ValidSelection(r.plan, {})
    <3>1. SelectionAccepted(r, r.plan)
      BY <2>2, <2>3 DEF RequestOK
    <3>2. PICK ids : ids = r.plan
      OBVIOUS
    <3>3. /\ ids # << >>
          /\ \A i \in DOMAIN ids :
               /\ ids[i] \in r.candidates
               /\ \A j \in 1 .. (i - 1) : ids[j] # ids[i]
               /\ r.needs[ids[i]] \subseteq {ids[j] : j \in 1 .. (i - 1)}
      BY <3>1, <3>2 DEF SelectionAccepted
    <3>4. \A i \in DOMAIN ids : ids[i] \in Published /\ prereqs[ids[i]] = r.needs[ids[i]]
      BY <2>3, <3>3 DEF StillCurrent
    <3>5. ValidSelection(ids, {})
      BY <3>3, <3>4 DEF ValidSelection
    <3>. QED BY <3>2, <3>5
  <2>. QED BY <2>1, <2>2, <2>3 DEF RequestOK
<1>. QED BY <1>1, ClientsInvariant, PTL

\* Whatever the ranking and the limits cut, some answer made of the offered courses
\* is acceptable: the candidates contain their prerequisites (selectCandidates).
THEOREM RequestsCanBeAnswered == ClientsSpec => []CandidatesAnswerable
<1>1. ClientsInv => CandidatesAnswerable
  <2>. SUFFICES ASSUME ClientsInv, NEW g \in Requests, gen[g].phase = "asking"
                PROVE  \E c \in gen[g].candidates : SelectionAccepted(gen[g], <<c>>)
    BY DEF CandidatesAnswerable
  <2>1. PICK r : r = gen[g]
    OBVIOUS
  <2>2. PICK c \in r.candidates : r.needs[c] = {}
    BY <2>1 DEF ClientsInv, GenOK, RequestOK
  <2>3. /\ <<c>> # << >> /\ Len(<<c>>) = 1 /\ DOMAIN <<c>> = {1} /\ <<c>>[1] = c
        /\ 1 <= MaxRoadmapCourses /\ \A j \in 1 .. (1 - 1) : FALSE
    BY GenerationAssumption
  <2>4. SelectionAccepted(r, <<c>>)
    BY <2>2, <2>3 DEF SelectionAccepted
  <2>. QED BY <2>1, <2>2, <2>4
<1>. QED BY <1>1, ClientsInvariant, PTL

\* The import completes what is there and overrules nothing (importInitialContent).
THEOREM ImportsOnlyComplete == ClientsSpec => []ImportOnlyCompletes
<1>1. ClientsInv => ImportOnlyCompletes
  <2>. SUFFICES ASSUME ClientsInv, imp.phase = "questionnaire" PROVE ImportOnlyCompletes
    BY DEF ImportOnlyCompletes
  <2>1. PICK new : new = imp.work
    OBVIOUS
  <2>2. imp # Idle
    BY DEF Idle
  <2>3. Completes(new, imp.fill, imp.publish)
    BY <2>1, <2>2 DEF ClientsInv, ImportOK, RunOK
  <2>4. /\ Committed.status = status /\ Committed.filled = filled /\ Committed.tags = tags
        /\ Committed.prereqs = prereqs /\ Committed.url = url /\ Committed.marker = marker
        /\ Committed["filled"] = filled /\ Committed["tags"] = tags
        /\ Committed["prereqs"] = prereqs /\ Committed["url"] = url
    BY DEF Committed
  <2>5. /\ new["filled"] = new.filled /\ new["tags"] = new.tags
        /\ new["prereqs"] = new.prereqs /\ new["url"] = new.url
    OBVIOUS
  <2>. DEFINE Changed == {c \in Existing : new.status[c] # status[c]}
              Touched == {c \in Existing : \E f \in {"filled", "tags", "prereqs", "url"} :
                                             new[f][c] # Committed[f][c]}
  <2>6. /\ \A c \in Existing :
             /\ new.prereqs[c] = prereqs[c] /\ new.url[c] = url[c]
             /\ filled[c] => new.filled[c]
             /\ \A k \in Kind : tags[c][k] \in {{}, new.tags[c][k]}
        /\ \A s \in Sources : marker[s] \in {NoCourse, new.marker[s]}
    BY <2>3 DEF Completes
  <2>7. Touched \subseteq (IF imp.fill THEN Imported ELSE {})
    <3>. SUFFICES ASSUME NEW c \in Touched PROVE imp.fill /\ c \in Imported
      OBVIOUS
    <3>1. c \in Existing /\ (new.filled[c] # filled[c] \/ new.tags[c] # tags[c])
      BY <2>4, <2>5, <2>6
    <3>. QED BY <2>3, <3>1 DEF Completes
  <2>8. /\ Changed \subseteq (IF imp.publish THEN Imported ELSE {})
        /\ \A c \in Changed : status[c] = "draft" /\ new.status[c] = "published"
    BY <2>3 DEF Completes
  <2>. QED BY <2>1, <2>4, <2>6, <2>7, <2>8 DEF ImportOnlyCompletes, Imported
<1>. QED BY <1>1, ClientsInvariant, PTL

\* What the preview marks "would-publish", the import publishes: the first promise
\* that is not kept would be of a course that is ready, waits, and yet was passed
\* over by a pass that published nothing (initial-content.ts).
THEOREM PreviewsKeepTheirWord == ClientsSpec => []PlanNeverOverpromises
<1>1. ClientsInv => PlanNeverOverpromises
  <2>. SUFFICES ASSUME ClientsInv, imp.phase = "questionnaire",
                       NEW s0 \in imp.promised, imp.work.status[imp.work.marker[s0]] # "published"
                PROVE  FALSE
    BY DEF PlanNeverOverpromises
  <2>1. PICK r : r = imp
    OBVIOUS
  <2>2. PICK w : w = r.work
    OBVIOUS
  <2>3. PICK file : file = r.file
    OBVIOUS
  <2>4. imp # Idle
    BY DEF Idle
  <2>5. /\ RunOK(r) /\ Completes(w, r.fill, r.publish) /\ r.at = Len(file) + 1
        /\ PromisesMade(file, r.promised)
        /\ PromisesKept(w, r.pending, file, r.promised, r.at)
        /\ \A i \in DOMAIN r.pending : ~Ready(w, r.pending[i])
    BY <2>1, <2>2, <2>3, <2>4 DEF ClientsInv, ImportOK, RunOK, RunTyped, PassOK
  <2>6. Len(file) \in Nat
    BY <2>3, <2>5, FilesTyped DEF RunOK, RunTyped
  <2>. DEFINE Broken == {i \in 1 .. Len(file) : /\ file[i].key \in r.promised
                                                /\ w.status[w.marker[file[i].key]] # "published"}
  <2>7. Broken # {}
    <3>1. PICK i \in 1 .. Len(file) : s0 = file[i].key
      BY <2>1, <2>5 DEF PromisesMade
    <3>2. i \in Broken
      BY <2>1, <2>2, <3>1
    <3>. QED BY <3>2
  <2>8. PICK m \in Broken : \A k \in Broken : m <= k
    <3>1. Broken \in SUBSET Nat
      BY <2>6
    <3>. HIDE DEF Broken
    <3>. QED BY <2>7, <3>1, LeastNumber
  <2>9. \A i \in 1 .. Len(file) : file[i].key \in r.promised => Kept(w, r.pending, file, r.promised, i)
    <3>1. \A i \in 1 .. Len(file) : i \in 1 .. (r.at - 1)
      BY <2>5, <2>6
    <3>. QED BY <2>5, <3>1 DEF PromisesKept
  <2>10. PICK c : c = w.marker[file[m].key]
    OBVIOUS
  <2>11. /\ c \in Courses /\ w.filled[c] /\ \A k \in Kind : w.tags[c][k] # {}
         /\ prereqs[c] \subseteq Published \cup {w.marker[s] : s \in Earlier(file, r.promised, m)}
         /\ w.status[c] = "draft" /\ \E j \in DOMAIN r.pending : r.pending[j] = c
    BY <2>8, <2>9, <2>10 DEF Kept
  <2>12. Published \subseteq PublishedIn(w)
    BY <2>5 DEF Completes, Published, Existing, PublishedIn
  <2>13. {w.marker[s] : s \in Earlier(file, r.promised, m)} \subseteq PublishedIn(w)
    <3>. SUFFICES ASSUME NEW j \in 1 .. (m - 1), file[j].key \in r.promised
                  PROVE  w.marker[file[j].key] \in PublishedIn(w)
      BY DEF Earlier
    <3>1. j \in 1 .. Len(file) /\ ~(m <= j)
      BY <2>6
    <3>2. w.status[w.marker[file[j].key]] = "published"
      BY <2>8, <3>1
    <3>3. w.marker[file[j].key] \in Courses
      BY <2>9, <3>1 DEF Kept
    <3>. QED BY <3>2, <3>3 DEF PublishedIn
  <2>14. Ready(w, c)
    <3>1. w.prereqs = prereqs
      BY <2>5 DEF Completes
    <3>. QED BY <2>11, <2>12, <2>13, <3>1 DEF Ready
  <2>. QED BY <2>5, <2>11, <2>14
<1>. QED BY <1>1, ClientsInvariant, PTL
=============================================================================
