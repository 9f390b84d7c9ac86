---------------------------- MODULE RoadmapsProofs ----------------------------
(***************************************************************************)
(* Saved roadmaps for any courses, roadmaps, handlers and lists, however      *)
(* requests of the same roadmap interleave, overtake each other and fail.     *)
(***************************************************************************)
EXTENDS Roadmaps, FiniteSetTheorems, TLAPS

Locking == {"create", "replace", "insert", "rewrite"}

\* What a handler has in memory, when it holds the lock, and that what it
\* checked is still so.
WorkOK(h) ==
  /\ mem[h].rows \subseteq Row
  /\ mem[h].ids = <<>> \/ mem[h].ids \in Selections
  /\ phase[h] \in Locking => mem[h].ids \in Selections
  /\ lock = h <=> phase[h] \in Locking
  /\ phase[h] # "idle" => mem[h].roadmap \in RoadmapIds

CheckedOK(h) ==
  phase[h] \in {"insert", "rewrite"} =>
    Cat!ValidSelection(mem[h].ids, Completed(mem[h].rows))

CatalogOK ==
  /\ status \in [Courses -> Cat!CourseStatus]
  /\ prereqs \in [Courses -> SUBSET Courses]

TablesOK ==
  /\ roadmap \in [RoadmapIds -> {"unused", "saved", "removed"}]
  /\ rows \in [RoadmapIds -> SUBSET Row]
  /\ \A r \in RoadmapIds : rows[r] # {} => roadmap[r] = "saved"
  /\ lists \in Seq([roadmap : RoadmapIds, ids : Selections]) /\ Len(lists) <= MaxLists

RoadmapsInv ==
  /\ CatalogOK
  /\ TablesOK
  /\ DOMAIN phase = Handlers /\ DOMAIN mem = Handlers
  /\ \A h \in Handlers : WorkOK(h) /\ CheckedOK(h)

\* x is the row of roadmap r that one of the lists L was given.
RowOf(x, r, L) ==
  /\ x \in Row
  /\ x.list \in DOMAIN L /\ L[x.list].roadmap = r
  /\ x.order + 1 \in DOMAIN L[x.list].ids
  /\ x.course = L[x.list].ids[x.order + 1]

Distinct(R) == \A x, y \in R : x.course = y.course \/ x.order = y.order => x = y

\* R has the list l entire.
HasList(R, l, L) ==
  \A i \in DOMAIN L[l].ids : \E x \in R :
    x.list = l /\ x.course = L[l].ids[i] /\ x.order = i - 1

\* R is what a saved roadmap r can be stored as.
Stored(R, r, L) ==
  /\ \A x \in R : RowOf(x, r, L)
  /\ Distinct(R)
  /\ \E l \in DOMAIN L : L[l].roadmap = r /\ HasList(R, l, L)

\* What a handler in phase ph has loaded of its roadmap was once stored, and
\* need not be any more.
LoadedOK(ph, m, L) ==
  /\ ph \in {"replace", "rewrite", "rename"} => Stored(m.rows, m.roadmap, L)
  /\ ph \in {"create", "insert"} => m.rows = {}
  /\ ph = "progress" => \E x : m.rows = {x} /\ RowOf(x, m.roadmap, L)

ListsInv ==
  /\ \A r \in RoadmapIds : roadmap[r] = "saved" => Stored(rows[r], r, lists)
  /\ \A h \in Handlers : LoadedOK(phase[h], mem[h], lists)

-----------------------------------------------------------------------------
(* Lists.                                                                  *)

LEMMA SelectionFacts ==
  ASSUME NEW ids, ids = <<>> \/ ids \in Selections
  PROVE  \E n \in Nat : /\ DOMAIN ids = 1 .. n
                        /\ \A i \in 1 .. n : ids[i] \in Courses
                        /\ \A i, j \in 1 .. n : ids[i] = ids[j] => i = j
<1>1. CASE ids = <<>>
  <2>1. DOMAIN ids = 1 .. 0
    BY <1>1
  <2>. QED BY <2>1
<1>2. CASE ids \in Selections
  <2>1. Cardinality(Courses) \in Nat
    BY RoadmapsAssumption, FS_CardinalityType
  <2>2. PICK n \in 1 .. Cardinality(Courses) :
          ids \in {s \in [1 .. n -> Courses] : \A i, j \in 1 .. n : s[i] = s[j] => i = j}
    BY <1>2 DEF Selections
  <2>. QED BY <2>1, <2>2
<1>. QED BY <1>1, <1>2

LEMMA RowMade ==
  ASSUME NEW a \in 1 .. MaxLists, NEW b \in Courses, NEW o \in Nat, NEW p \in Progress
  PROVE  [list |-> a, course |-> b, order |-> o, progress |-> p] \in Row
BY DEF Row

\* A list that is written has the type of its rows.
LEMMA MembershipsAreRows ==
  ASSUME TablesOK, Len(lists) < MaxLists, NEW ids, ids = <<>> \/ ids \in Selections,
         NEW loaded \in SUBSET Row
  PROVE  Memberships(ids, loaded) \subseteq Row
<1>1. PICK n \in Nat : DOMAIN ids = 1 .. n /\ \A i \in 1 .. n : ids[i] \in Courses
  BY SelectionFacts
<1>2. Len(lists) + 1 \in 1 .. MaxLists /\ 0 \in Progress
  BY RoadmapsAssumption DEF TablesOK
<1>3. ASSUME NEW i \in 1 .. n
      PROVE  /\ i - 1 \in Nat
             /\ (IF \E x \in loaded : x.course = ids[i]
                 THEN (CHOOSE x \in loaded : x.course = ids[i]).progress ELSE 0) \in Progress
  <2>1. CASE \E x \in loaded : x.course = ids[i]
    <3>1. (CHOOSE x \in loaded : x.course = ids[i]) \in loaded
      BY <2>1
    <3>. QED BY <3>1, <2>1 DEF Row
  <2>. QED BY <2>1, <1>2
<1>4. ASSUME NEW x \in Memberships(ids, loaded) PROVE x \in Row
  <2>1. PICK i \in 1 .. n :
          x = [list |-> Len(lists) + 1, course |-> ids[i], order |-> i - 1,
               progress |-> IF \E z \in loaded : z.course = ids[i]
                            THEN (CHOOSE z \in loaded : z.course = ids[i]).progress ELSE 0]
    BY <1>1 DEF Memberships
  <2>. DEFINE p == IF \E z \in loaded : z.course = ids[i]
                   THEN (CHOOSE z \in loaded : z.course = ids[i]).progress ELSE 0
  <2>2. ids[i] \in Courses /\ i - 1 \in Nat /\ p \in Progress
    BY <1>1, <1>3
  <2>3. x = [list |-> Len(lists) + 1, course |-> ids[i], order |-> i - 1, progress |-> p]
    BY <2>1
  <2>. HIDE DEF p
  <2>4. [list |-> Len(lists) + 1, course |-> ids[i], order |-> i - 1, progress |-> p] \in Row
    BY <1>2, <2>2, RowMade
  <2>. QED BY <2>3, <2>4
<1>. QED BY <1>4

-----------------------------------------------------------------------------
(* The invariant of every interleaving.                                    *)

LEMMA InvGivesProperties ==
  RoadmapsInv => TypeOK /\ CheckedSelectionStaysValid
BY DEF RoadmapsInv, CatalogOK, TablesOK, WorkOK, CheckedOK, Locking, TypeOK,
       CheckedSelectionStaysValid

LEMMA OthersKeepWork ==
  ASSUME RoadmapsInv, NEW h \in Handlers, NEW g \in Handlers, g # h,
         phase'[g] = phase[g], mem'[g] = mem[g], UNCHANGED catalogVars,
         lock' = lock \/ (lock \in {h, NoHandler} /\ lock' \in {h, NoHandler})
  PROVE  WorkOK(g)' /\ CheckedOK(g)'
<1>1. WorkOK(g) /\ CheckedOK(g) /\ g # NoHandler
  BY RoadmapsAssumption DEF RoadmapsInv
<1>2. WorkOK(g)'
  BY <1>1 DEF WorkOK
<1>3. CheckedOK(g)'
  BY <1>1 DEF CheckedOK, catalogVars, Cat!ValidSelection, Cat!Published
<1>. QED BY <1>2, <1>3

\* A handler that starts.
LEMMA EnterKeepsInv ==
  ASSUME RoadmapsInv, NEW h \in Handlers, NEW r \in RoadmapIds,
         NEW ph \in {"create", "replace", "progress", "rename"},
         NEW ids \in Selections \cup {<<>>}, NEW loaded \in SUBSET Row,
         ph \in {"create", "replace"} => ids \in Selections,
         phase[h] = "idle", Enter(h, ph, r, ids, loaded),
         ph \in {"create", "replace"} => lock = NoHandler,
         lock' = IF ph \in {"create", "replace"} THEN h ELSE lock,
         UNCHANGED <<catalogVars, roadmapVars>>
  PROVE  RoadmapsInv'
<1>1. CatalogOK' /\ TablesOK'
  BY DEF RoadmapsInv, CatalogOK, TablesOK, catalogVars, roadmapVars
<1>2. DOMAIN phase' = Handlers /\ DOMAIN mem' = Handlers
  BY DEF RoadmapsInv, Enter
<1>3. /\ phase'[h] = ph
      /\ mem'[h] = [roadmap |-> r, ids |-> ids, rows |-> loaded]
  BY DEF RoadmapsInv, Enter
<1>4. WorkOK(h) /\ h # NoHandler
  BY RoadmapsAssumption DEF RoadmapsInv
<1>5. WorkOK(h)' /\ CheckedOK(h)'
  BY <1>3, <1>4 DEF WorkOK, CheckedOK, Locking
<1>6. ASSUME NEW g \in Handlers, g # h PROVE WorkOK(g)' /\ CheckedOK(g)'
  <2>1. phase'[g] = phase[g] /\ mem'[g] = mem[g]
    BY <1>6 DEF RoadmapsInv, Enter
  <2>2. lock' = lock \/ (lock \in {h, NoHandler} /\ lock' \in {h, NoHandler})
    OBVIOUS
  <2>3. UNCHANGED catalogVars
    OBVIOUS
  <2>. QED BY <1>6, <2>1, <2>2, <2>3, OthersKeepWork
<1>. QED BY <1>1, <1>2, <1>5, <1>6 DEF RoadmapsInv

\* A handler that ends, having written tables that are in order.
LEMMA LeaveKeepsInv ==
  ASSUME RoadmapsInv, NEW h \in Handlers, Leave(h), UNCHANGED catalogVars, TablesOK'
  PROVE  RoadmapsInv'
<1>1. CatalogOK'
  BY DEF RoadmapsInv, CatalogOK, catalogVars
<1>2. DOMAIN phase' = Handlers /\ DOMAIN mem' = Handlers
  BY DEF RoadmapsInv, Leave
<1>3. phase'[h] = "idle" /\ mem'[h] = Idle /\ lock' # h
  BY RoadmapsAssumption DEF RoadmapsInv, Leave
<1>4. WorkOK(h)' /\ CheckedOK(h)'
  BY <1>3 DEF WorkOK, CheckedOK, Locking, Idle
<1>5. ASSUME NEW g \in Handlers, g # h PROVE WorkOK(g)' /\ CheckedOK(g)'
  <2>1. phase'[g] = phase[g] /\ mem'[g] = mem[g]
    BY <1>5 DEF RoadmapsInv, Leave
  <2>2. lock' = lock \/ (lock \in {h, NoHandler} /\ lock' \in {h, NoHandler})
    BY DEF Leave
  <2>. QED BY <1>5, <2>1, <2>2, OthersKeepWork
<1>. QED BY <1>1, <1>2, <1>4, <1>5, TablesOK' DEF RoadmapsInv

\* The catalog changes only while no handler has a checked selection.
LEMMA CatalogWriteKeepsInv ==
  ASSUME RoadmapsInv, CatalogWrite
  PROVE  RoadmapsInv'
<1>1. UNCHANGED <<roadmapVars, handlerVars>> /\ lock = NoHandler
  BY DEF CatalogWrite
<1>2. CatalogOK'
  <2>1. ASSUME NEW c \in Courses, NEW s \in Cat!CourseStatus, Cat!ChangeStatus(c, s)
        PROVE  CatalogOK'
    BY <2>1 DEF Cat!ChangeStatus, RoadmapsInv, CatalogOK
  <2>2. ASSUME NEW c \in Courses, NEW P \in SUBSET Courses,
               Cat!UpdateCourse(c, TRUE, [k \in Cat!Kind |-> {"any"}], P)
        PROVE  CatalogOK'
    BY <2>2 DEF Cat!UpdateCourse, RoadmapsInv, CatalogOK
  <2>. QED BY <2>1, <2>2 DEF CatalogWrite
<1>3. TablesOK'
  BY <1>1 DEF RoadmapsInv, TablesOK, roadmapVars
<1>4. ASSUME NEW h \in Handlers PROVE WorkOK(h)' /\ CheckedOK(h)'
  <2>1. WorkOK(h) /\ lock # h
    BY <1>1, RoadmapsAssumption DEF RoadmapsInv
  <2>2. WorkOK(h)'
    BY <1>1, <2>1 DEF WorkOK, handlerVars
  <2>3. phase'[h] \notin {"insert", "rewrite"}
    BY <1>1, <2>1 DEF WorkOK, handlerVars, Locking
  <2>. QED BY <2>2, <2>3 DEF CheckedOK
<1>5. DOMAIN phase' = Handlers /\ DOMAIN mem' = Handlers
  BY <1>1 DEF RoadmapsInv, handlerVars
<1>. QED BY <1>2, <1>3, <1>4, <1>5 DEF RoadmapsInv

LEMMA InitEstablishesInv == Init => RoadmapsInv
<1>. SUFFICES ASSUME Init PROVE RoadmapsInv
  OBVIOUS
<1>1. CatalogOK
  BY DEF Init, CatalogOK, Cat!CourseStatus
<1>2. TablesOK
  BY RoadmapsAssumption DEF Init, TablesOK
<1>3. ASSUME NEW h \in Handlers PROVE WorkOK(h) /\ CheckedOK(h)
  <2>1. phase[h] = "idle" /\ mem[h] = Idle /\ lock # h
    BY RoadmapsAssumption DEF Init
  <2>. QED BY <2>1 DEF WorkOK, CheckedOK, Idle, Locking
<1>4. DOMAIN phase = Handlers /\ DOMAIN mem = Handlers
  BY DEF Init
<1>. QED BY <1>1, <1>2, <1>3, <1>4 DEF RoadmapsInv

-----------------------------------------------------------------------------
(* The steps.                                                              *)

\* Each write leaves tables that are in order.
LEMMA CommitListKeepsTables ==
  ASSUME RoadmapsInv, NEW h \in Handlers, CommitList(h)
  PROVE  TablesOK'
<1>. DEFINE r == mem[h].roadmap
            M == Memberships(mem[h].ids, mem[h].rows)
            l == [roadmap |-> mem[h].roadmap, ids |-> mem[h].ids]
<1>1. WorkOK(h) /\ TablesOK /\ Len(lists) < MaxLists /\ r \in RoadmapIds
  BY DEF RoadmapsInv, CommitList, WorkOK
<1>2. M \subseteq Row
  BY <1>1, MembershipsAreRows DEF WorkOK
<1>8. l \in [roadmap : RoadmapIds, ids : Selections]
  BY DEF RoadmapsInv, CommitList, WorkOK, Locking
<1>. HIDE DEF M, r, l
<1>3. /\ roadmap' = [roadmap EXCEPT ![r] = "saved"]
      /\ rows' = [rows EXCEPT ![r] = M]
      /\ lists' = Append(lists, l)
  BY DEF CommitList, M, r, l
<1>4. roadmap' \in [RoadmapIds -> {"unused", "saved", "removed"}]
  BY <1>1, <1>3 DEF TablesOK
<1>5. rows' \in [RoadmapIds -> SUBSET Row]
  BY <1>1, <1>2, <1>3 DEF TablesOK
<1>6. \A q \in RoadmapIds : rows'[q] # {} => roadmap'[q] = "saved"
  BY <1>1, <1>3 DEF TablesOK
<1>7. lists' \in Seq([roadmap : RoadmapIds, ids : Selections]) /\ Len(lists') <= MaxLists
  BY <1>1, <1>3, <1>8, RoadmapsAssumption DEF TablesOK
<1>. QED BY <1>4, <1>5, <1>6, <1>7 DEF TablesOK

LEMMA SaveProgressKeepsTables ==
  ASSUME RoadmapsInv, NEW h \in Handlers, SaveProgress(h)
  PROVE  TablesOK'
<1>. DEFINE r == mem[h].roadmap
<1>1. TablesOK /\ r \in RoadmapIds /\ mem[h].rows \subseteq Row
  BY DEF RoadmapsInv, SaveProgress, WorkOK
<1>2. UNCHANGED <<roadmap, lists>>
  BY DEF SaveProgress
<1>. HIDE DEF r
<1>3. PICK x \in mem[h].rows :
        \/ /\ \E y \in rows[r] : SameRow(x, y)
           /\ rows' = [rows EXCEPT ![r] = {y \in @ : ~SameRow(x, y)} \cup {x}]
        \/ /\ Insertable(r, x)
           /\ rows' = [rows EXCEPT ![r] = @ \cup {x}]
  BY DEF SaveProgress, r
<1>4. roadmap[r] = "saved"
  BY <1>1, <1>3 DEF TablesOK, Insertable
<1>5. PICK S \in SUBSET Row : rows' = [rows EXCEPT ![r] = S]
  <2>1. rows[r] \subseteq Row /\ x \in Row
    BY <1>1 DEF TablesOK
  <2>2. CASE rows' = [rows EXCEPT ![r] = {y \in rows[r] : ~SameRow(x, y)} \cup {x}]
    BY <2>1, <2>2
  <2>3. CASE rows' = [rows EXCEPT ![r] = rows[r] \cup {x}]
    BY <2>1, <2>3
  <2>. QED BY <1>3, <2>2, <2>3
<1>6. rows' \in [RoadmapIds -> SUBSET Row]
  BY <1>1, <1>5 DEF TablesOK
<1>7. \A q \in RoadmapIds : rows'[q] # {} => roadmap'[q] = "saved"
  BY <1>1, <1>2, <1>4, <1>5 DEF TablesOK
<1>. QED BY <1>1, <1>2, <1>6, <1>7 DEF TablesOK

LEMMA SaveRenameKeepsTables ==
  ASSUME RoadmapsInv, NEW h \in Handlers, SaveRename(h)
  PROVE  TablesOK'
<1>. DEFINE r == mem[h].roadmap
            S == mem[h].rows
<1>1. TablesOK /\ r \in RoadmapIds /\ S \subseteq Row
  BY DEF RoadmapsInv, SaveRename, WorkOK
<1>2. /\ roadmap' = [roadmap EXCEPT ![r] = "saved"]
      /\ rows' = [rows EXCEPT ![r] = S]
      /\ lists' = lists
  BY DEF SaveRename
<1>. HIDE DEF r, S
<1>3. rows' \in [RoadmapIds -> SUBSET Row]
  BY <1>1, <1>2 DEF TablesOK
<1>4. roadmap' \in [RoadmapIds -> {"unused", "saved", "removed"}]
  BY <1>1, <1>2 DEF TablesOK
<1>5. \A q \in RoadmapIds : rows'[q] # {} => roadmap'[q] = "saved"
  BY <1>1, <1>2 DEF TablesOK
<1>. QED BY <1>1, <1>2, <1>3, <1>4, <1>5 DEF TablesOK

LEMMA RemoveKeepsInv ==
  ASSUME RoadmapsInv, NEW r \in RoadmapIds, Remove(r)
  PROVE  RoadmapsInv'
<1>1. /\ roadmap' = [roadmap EXCEPT ![r] = "removed"]
      /\ rows' = [rows EXCEPT ![r] = {}]
      /\ UNCHANGED <<catalogVars, lists, handlerVars>>
  BY DEF Remove
<1>2. rows' \in [RoadmapIds -> SUBSET Row]
  BY <1>1 DEF RoadmapsInv, TablesOK
<1>3. roadmap' \in [RoadmapIds -> {"unused", "saved", "removed"}]
  BY <1>1 DEF RoadmapsInv, TablesOK
<1>4. \A q \in RoadmapIds : rows'[q] # {} => roadmap'[q] = "saved"
  BY <1>1 DEF RoadmapsInv, TablesOK
<1>5. TablesOK'
  BY <1>1, <1>2, <1>3, <1>4 DEF RoadmapsInv, TablesOK
<1>6. CatalogOK' /\ DOMAIN phase' = Handlers /\ DOMAIN mem' = Handlers
  BY <1>1 DEF RoadmapsInv, CatalogOK, catalogVars, handlerVars
<1>7. ASSUME NEW g \in Handlers PROVE WorkOK(g)' /\ CheckedOK(g)'
  <2>1. WorkOK(g)'
    BY <1>1 DEF RoadmapsInv, WorkOK, handlerVars
  <2>2. CheckedOK(g) /\ UNCHANGED <<status, prereqs, phase, mem>>
    BY <1>1 DEF RoadmapsInv, handlerVars, catalogVars
  <2>3. CheckedOK(g)'
    BY <2>2 DEF CheckedOK, Cat!ValidSelection, Cat!Published
  <2>. QED BY <2>1, <2>3
<1>. QED BY <1>5, <1>6, <1>7 DEF RoadmapsInv

LEMMA ValidateKeepsInv ==
  ASSUME RoadmapsInv, NEW h \in Handlers, Validate(h)
  PROVE  RoadmapsInv'
<1>1. /\ UNCHANGED <<catalogVars, roadmapVars, lock, mem>>
      /\ phase[h] \in {"create", "replace"}
      /\ phase' = [phase EXCEPT ![h] = IF @ = "create" THEN "insert" ELSE "rewrite"]
  BY DEF Validate
<1>2. CatalogOK' /\ TablesOK'
  BY <1>1 DEF RoadmapsInv, CatalogOK, TablesOK, catalogVars, roadmapVars
<1>3. DOMAIN phase' = Handlers /\ DOMAIN mem' = Handlers
  BY <1>1 DEF RoadmapsInv
<1>4. phase'[h] \in {"insert", "rewrite"}
  BY <1>1 DEF RoadmapsInv
<1>5. WorkOK(h)'
  BY <1>1, <1>4 DEF RoadmapsInv, WorkOK, Locking
<1>6. CheckedOK(h)'
  BY <1>1 DEF Validate, CheckedOK, catalogVars, Cat!ValidSelection, Cat!Published
<1>7. ASSUME NEW g \in Handlers, g # h PROVE WorkOK(g)' /\ CheckedOK(g)'
  <2>1. phase'[g] = phase[g] /\ mem'[g] = mem[g] /\ lock' = lock
    BY <1>1, <1>7 DEF RoadmapsInv
  <2>. QED BY <1>1, <1>7, <2>1, OthersKeepWork
<1>. QED BY <1>2, <1>3, <1>5, <1>6, <1>7 DEF RoadmapsInv

LEMMA StepKeepsInv ==
  ASSUME RoadmapsInv, [Next]_vars
  PROVE  RoadmapsInv'
<1>1. CASE CatalogWrite
  BY <1>1, CatalogWriteKeepsInv
<1>2. ASSUME NEW h \in Handlers, NEW r \in RoadmapIds, NEW ids \in Selections,
             StartCreate(h, r, ids)
      PROVE  RoadmapsInv'
  <2>1. {} \in SUBSET Row
    OBVIOUS
  <2>2. /\ Enter(h, "create", r, ids, {}) /\ phase[h] = "idle"
        /\ lock = NoHandler /\ lock' = h
        /\ UNCHANGED <<catalogVars, roadmapVars>>
    BY <1>2 DEF StartCreate
  <2>. QED BY <2>1, <2>2, EnterKeepsInv
<1>3. ASSUME NEW h \in Handlers, NEW r \in RoadmapIds, NEW ids \in Selections,
             StartReplace(h, r, ids)
      PROVE  RoadmapsInv'
  <2>1. rows[r] \in SUBSET Row
    BY DEF RoadmapsInv, TablesOK
  <2>2. /\ Enter(h, "replace", r, ids, rows[r]) /\ phase[h] = "idle"
        /\ lock = NoHandler /\ lock' = h
        /\ UNCHANGED <<catalogVars, roadmapVars>>
    BY <1>3 DEF StartReplace
  <2>. QED BY <2>1, <2>2, EnterKeepsInv
<1>4. ASSUME NEW h \in Handlers, NEW r \in RoadmapIds, NEW c \in Courses,
             NEW p \in Progress, StartProgress(h, r, c, p)
      PROVE  RoadmapsInv'
  <2>1. PICK x \in rows[r] :
          Enter(h, "progress", r, <<>>, {[x EXCEPT !.progress = p]})
    BY <1>4 DEF StartProgress
  <2>2. {[x EXCEPT !.progress = p]} \in SUBSET Row
    BY DEF RoadmapsInv, TablesOK, Row
  <2>. QED BY <1>4, <2>1, <2>2, EnterKeepsInv DEF StartProgress
<1>5. ASSUME NEW h \in Handlers, NEW r \in RoadmapIds, StartRename(h, r)
      PROVE  RoadmapsInv'
  <2>1. rows[r] \in SUBSET Row
    BY DEF RoadmapsInv, TablesOK
  <2>. QED BY <1>5, <2>1, EnterKeepsInv DEF StartRename
<1>6. ASSUME NEW h \in Handlers, CommitList(h) PROVE RoadmapsInv'
  BY <1>6, CommitListKeepsTables, LeaveKeepsInv DEF CommitList
<1>7. ASSUME NEW h \in Handlers, SaveProgress(h) PROVE RoadmapsInv'
  BY <1>7, SaveProgressKeepsTables, LeaveKeepsInv DEF SaveProgress
<1>8. ASSUME NEW h \in Handlers, SaveRename(h) PROVE RoadmapsInv'
  BY <1>8, SaveRenameKeepsTables, LeaveKeepsInv DEF SaveRename
<1>9. ASSUME NEW h \in Handlers, Fail(h) PROVE RoadmapsInv'
  <2>1. TablesOK' /\ UNCHANGED catalogVars
    BY <1>9 DEF Fail, RoadmapsInv, TablesOK, roadmapVars
  <2>. QED BY <1>9, <2>1, LeaveKeepsInv DEF Fail
<1>10. CASE UNCHANGED vars
  <2>1. CatalogOK' /\ TablesOK' /\ DOMAIN phase' = Handlers /\ DOMAIN mem' = Handlers
    BY <1>10 DEF RoadmapsInv, CatalogOK, TablesOK, vars, catalogVars, roadmapVars, handlerVars
  <2>2. ASSUME NEW g \in Handlers PROVE WorkOK(g)' /\ CheckedOK(g)'
    <3>1. WorkOK(g)'
      BY <1>10 DEF RoadmapsInv, WorkOK, vars, handlerVars
    <3>2. CheckedOK(g)'
      BY <1>10 DEF RoadmapsInv, CheckedOK, vars, handlerVars, catalogVars,
                   Cat!ValidSelection, Cat!Published
    <3>. QED BY <3>1, <3>2
  <2>. QED BY <2>1, <2>2 DEF RoadmapsInv
<1>. QED BY <1>1, <1>2, <1>3, <1>4, <1>5, <1>6, <1>7, <1>8, <1>9, <1>10,
            RemoveKeepsInv, ValidateKeepsInv DEF Next

THEOREM InvHolds == Spec => []RoadmapsInv
<1>1. Init => RoadmapsInv
  BY InitEstablishesInv
<1>2. RoadmapsInv /\ [Next]_vars => RoadmapsInv'
  BY StepKeepsInv
<1>. QED BY <1>1, <1>2, PTL DEF Spec

-----------------------------------------------------------------------------
(* What is stored and what is loaded.                                      *)

\* A list keeps no course twice, so its rows are told apart by their courses.
LEMMA RowsOfOneList ==
  ASSUME TablesOK, NEW r, NEW x, NEW y, RowOf(x, r, lists), RowOf(y, r, lists),
         SameRow(x, y)
  PROVE  x.order = y.order
<1>1. lists[x.list].ids \in Selections /\ x.list = y.list
  <2>1. x.list \in DOMAIN lists
    BY Zenon DEF RowOf
  <2>2. lists[x.list] \in [roadmap : RoadmapIds, ids : Selections]
    <3>. DEFINE S == [roadmap : RoadmapIds, ids : Selections]
                l == x.list
    <3>1. lists \in Seq(S) /\ l \in DOMAIN lists
      BY <2>1 DEF TablesOK
    <3>. HIDE DEF S, l
    <3>2. lists[l] \in S
      BY <3>1
    <3>. QED BY <3>2 DEF S, l
  <2>3. x.list = y.list
    BY DEF SameRow
  <2>. QED BY <2>2, <2>3
<1>2. PICK n \in Nat :
        /\ DOMAIN lists[x.list].ids = 1 .. n
        /\ \A i, j \in 1 .. n : lists[x.list].ids[i] = lists[x.list].ids[j] => i = j
  BY <1>1, SelectionFacts
<1>3. x.order + 1 = y.order + 1
  BY <1>1, <1>2 DEF RowOf, SameRow
<1>4. x.order \in Nat /\ y.order \in Nat
  BY DEF RowOf, Row
<1>. QED BY <1>3, <1>4

\* More lists take nothing from what was stored.
LEMMA MoreLists ==
  ASSUME TablesOK, NEW e
  PROVE  /\ \A x, r : RowOf(x, r, lists) => RowOf(x, r, Append(lists, e))
         /\ \A R, r : Stored(R, r, lists) => Stored(R, r, Append(lists, e))
         /\ \A ph, m : LoadedOK(ph, m, lists) => LoadedOK(ph, m, Append(lists, e))
<1>. DEFINE more == Append(lists, e)
<1>1. \A l \in DOMAIN lists : l \in DOMAIN more /\ more[l] = lists[l]
  BY DEF TablesOK
<1>. HIDE DEF more
<1>2. ASSUME NEW x, NEW r, RowOf(x, r, lists) PROVE RowOf(x, r, more)
  BY <1>1, <1>2 DEF RowOf
<1>3. ASSUME NEW R, NEW r, Stored(R, r, lists) PROVE Stored(R, r, more)
  <2>1. PICK l \in DOMAIN lists : lists[l].roadmap = r /\ HasList(R, l, lists)
    BY <1>3 DEF Stored
  <2>2. l \in DOMAIN more /\ more[l].roadmap = r /\ HasList(R, l, more)
    BY <1>1, <2>1 DEF HasList
  <2>. QED BY <1>2, <1>3, <2>2 DEF Stored
<1>4. ASSUME NEW ph, NEW m, LoadedOK(ph, m, lists) PROVE LoadedOK(ph, m, more)
  BY <1>2, <1>3, <1>4 DEF LoadedOK
<1>5. /\ \A x, r : RowOf(x, r, lists) => RowOf(x, r, more)
      /\ \A R, r : Stored(R, r, lists) => Stored(R, r, more)
      /\ \A ph, m : LoadedOK(ph, m, lists) => LoadedOK(ph, m, more)
  BY <1>2, <1>3, <1>4
<1>. QED BY <1>5 DEF more

\* The rows of a new list are that list.
LEMMA NewListStored ==
  ASSUME TablesOK, Len(lists) < MaxLists, NEW r \in RoadmapIds, NEW ids \in Selections,
         NEW loaded \in SUBSET Row
  PROVE  Stored(Memberships(ids, loaded), r,
                Append(lists, [roadmap |-> r, ids |-> ids]))
<1>. DEFINE M == Memberships(ids, loaded)
            e == [roadmap |-> r, ids |-> ids]
            more == Append(lists, e)
            l == Len(lists) + 1
            Kept(i) == IF \E z \in loaded : z.course = ids[i]
                       THEN (CHOOSE z \in loaded : z.course = ids[i]).progress ELSE 0
            Made(i) == [list |-> l, course |-> ids[i], order |-> i - 1, progress |-> Kept(i)]
<1>1. PICK n \in Nat : /\ DOMAIN ids = 1 .. n
                       /\ \A i, j \in 1 .. n : ids[i] = ids[j] => i = j
  BY SelectionFacts
<1>2. l \in DOMAIN more /\ more[l] = e
  BY DEF TablesOK
<1>3. e.roadmap = r /\ e.ids = ids
  OBVIOUS
<1>4. M = {Made(i) : i \in 1 .. n}
  BY <1>1 DEF Memberships
<1>5. \A i : /\ Made(i).list = l /\ Made(i).course = ids[i]
             /\ Made(i).order = i - 1
  OBVIOUS
<1>6. M \subseteq Row
  BY MembershipsAreRows
<1>. HIDE DEF M, more, e, l, Made
<1>7. ASSUME NEW x \in M PROVE RowOf(x, r, more)
  <2>1. PICK i \in 1 .. n : x = Made(i)
    BY <1>4
  <2>2. x.list = l /\ x.course = ids[i] /\ x.order = i - 1
    BY <1>5, <2>1
  <2>3. x.order + 1 = i
    BY <2>2
  <2>. QED BY <1>1, <1>2, <1>3, <1>6, <2>2, <2>3 DEF RowOf
<1>8. ASSUME NEW x \in M, NEW y \in M, x.course = y.course \/ x.order = y.order
      PROVE  x = y
  <2>1. PICK i \in 1 .. n : x = Made(i)
    BY <1>4
  <2>2. PICK j \in 1 .. n : y = Made(j)
    BY <1>4
  <2>3. ids[i] = ids[j] \/ i - 1 = j - 1
    BY <1>5, <1>8, <2>1, <2>2
  <2>4. i = j
    BY <1>1, <2>3
  <2>. QED BY <2>1, <2>2, <2>4
<1>9. HasList(M, l, more)
  <2>1. ASSUME NEW i \in 1 .. n
        PROVE  \E x \in M : x.list = l /\ x.course = ids[i] /\ x.order = i - 1
    BY <1>4, <1>5
  <2>. QED BY <1>1, <1>2, <1>3, <2>1 DEF HasList
<1>10. Stored(M, r, more)
  BY <1>2, <1>3, <1>7, <1>8, <1>9 DEF Stored, Distinct
<1>. QED BY <1>10 DEF M, more, e

\* A course of the loaded rows keeps the progress it was loaded with.
LEMMA KeptProgress ==
  ASSUME NEW ids, NEW loaded, Distinct(loaded),
         NEW x \in loaded, NEW y \in Memberships(ids, loaded), x.course = y.course
  PROVE  x.progress = y.progress
<1>1. PICK i \in DOMAIN ids :
        y = [list |-> Len(lists) + 1, course |-> ids[i], order |-> i - 1,
             progress |-> IF \E z \in loaded : z.course = ids[i]
                          THEN (CHOOSE z \in loaded : z.course = ids[i]).progress ELSE 0]
  BY DEF Memberships
<1>2. x.course = ids[i]
  BY <1>1
<1>3. /\ (CHOOSE z \in loaded : z.course = ids[i]) \in loaded
      /\ (CHOOSE z \in loaded : z.course = ids[i]).course = ids[i]
  BY <1>2
<1>4. (CHOOSE z \in loaded : z.course = ids[i]) = x
  BY <1>2, <1>3 DEF Distinct
<1>5. \E z \in loaded : z.course = ids[i]
  BY <1>2
<1>6. y.progress = (CHOOSE z \in loaded : z.course = ids[i]).progress
  BY <1>1, <1>5
<1>. QED BY <1>4, <1>6

\* The progress of a row that is there.
LEMMA RowUpdated ==
  ASSUME TablesOK, NEW r, NEW R, Stored(R, r, lists), NEW x, RowOf(x, r, lists),
         NEW y \in R, SameRow(x, y)
  PROVE  /\ x.order = y.order /\ x.course = y.course /\ x.list = y.list
         /\ {z \in R : ~SameRow(x, z)} = R \ {y}
         /\ Stored({z \in R : ~SameRow(x, z)} \cup {x}, r, lists)
<1>. DEFINE S == (R \ {y}) \cup {x}
<1>1. x.order = y.order /\ x.course = y.course /\ x.list = y.list
  BY RowsOfOneList DEF Stored, SameRow
<1>2. Distinct(R)
  BY DEF Stored
<1>3. {z \in R : ~SameRow(x, z)} = R \ {y}
  BY <1>1, <1>2 DEF SameRow, Distinct
<1>4. \A z \in S : RowOf(z, r, lists)
  BY DEF Stored
<1>5. Distinct(S)
  BY <1>1, <1>2 DEF Distinct
<1>6. PICK l \in DOMAIN lists : lists[l].roadmap = r /\ HasList(R, l, lists)
  BY DEF Stored
<1>7. HasList(S, l, lists)
  BY <1>1, <1>6 DEF HasList
<1>8. Stored(S, r, lists)
  BY <1>4, <1>5, <1>6, <1>7 DEF Stored
<1>. QED BY <1>1, <1>3, <1>8

\* A row that is not there any more.
LEMMA RowInserted ==
  ASSUME NEW r, NEW R, Stored(R, r, lists), NEW x, RowOf(x, r, lists),
         \A y \in R : y.course # x.course /\ y.order # x.order
  PROVE  Stored(R \cup {x}, r, lists)
<1>1. Distinct(R \cup {x})
  BY DEF Stored, Distinct
<1>2. PICK l \in DOMAIN lists : lists[l].roadmap = r /\ HasList(R, l, lists)
  BY DEF Stored
<1>3. HasList(R \cup {x}, l, lists)
  BY <1>2 DEF HasList
<1>. QED BY <1>1, <1>2, <1>3 DEF Stored

-----------------------------------------------------------------------------
(* The steps, once more.                                                   *)

\* Only a removal, and a request of r that ends, write r.
LEMMA WhoWrites ==
  ASSUME RoadmapsInv, Next, NEW r \in RoadmapIds
  PROVE  \/ rows'[r] = rows[r] /\ roadmap'[r] = roadmap[r]
         \/ Remove(r)
         \/ \E h \in Handlers : /\ Ends(h, r)
                                /\ CommitList(h) \/ SaveProgress(h) \/ SaveRename(h)
<1>. DEFINE Same == rows'[r] = rows[r] /\ roadmap'[r] = roadmap[r]
            Written == \E h \in Handlers :
                         Ends(h, r) /\ (CommitList(h) \/ SaveProgress(h) \/ SaveRename(h))
<1>1. ASSUME NEW h \in Handlers, CommitList(h) \/ SaveProgress(h) \/ SaveRename(h)
      PROVE  Same \/ Written
  <2>1. /\ phase[h] # "idle" /\ Leave(h)
        /\ \A q \in RoadmapIds \ {mem[h].roadmap} :
             rows'[q] = rows[q] /\ roadmap'[q] = roadmap[q]
    BY <1>1 DEF CommitList, SaveProgress, SaveRename, RoadmapsInv, TablesOK
  <2>2. phase'[h] = "idle"
    BY <2>1 DEF Leave, RoadmapsInv
  <2>3. CASE mem[h].roadmap = r
    BY <1>1, <2>1, <2>2, <2>3 DEF Ends
  <2>4. CASE mem[h].roadmap # r
    BY <2>1, <2>4
  <2>. QED BY <2>3, <2>4
<1>2. ASSUME NEW q \in RoadmapIds, Remove(q) PROVE Same \/ Remove(r)
  BY <1>2 DEF Remove, RoadmapsInv, TablesOK
<1>3. CASE CatalogWrite
  BY <1>3 DEF CatalogWrite, roadmapVars
<1>4. ASSUME NEW h \in Handlers, Validate(h) \/ Fail(h) PROVE Same
  BY <1>4 DEF Validate, Fail, roadmapVars
<1>5. ASSUME NEW h \in Handlers, NEW q, NEW ids,
             StartCreate(h, q, ids) \/ StartReplace(h, q, ids)
      PROVE  Same
  BY <1>5 DEF StartCreate, StartReplace, roadmapVars
<1>6. ASSUME NEW h \in Handlers, NEW q, NEW c, NEW p,
             StartProgress(h, q, c, p) \/ StartRename(h, q)
      PROVE  Same
  BY <1>6 DEF StartProgress, StartRename, roadmapVars
<1>. QED BY <1>1, <1>2, <1>3, <1>4, <1>5, <1>6 DEF Next

\* What each write stores.
LEMMA CommitListStores ==
  ASSUME RoadmapsInv, NEW h \in Handlers, CommitList(h)
  PROVE  LET r == mem[h].roadmap
             e == [roadmap |-> r, ids |-> mem[h].ids]
         IN  /\ r \in RoadmapIds
             /\ lists' = Append(lists, e)
             /\ rows'[r] = Memberships(mem[h].ids, mem[h].rows)
             /\ Stored(rows'[r], r, Append(lists, e))
             /\ \A q \in RoadmapIds \ {r} : rows'[q] = rows[q] /\ roadmap'[q] = roadmap[q]
<1>. DEFINE r == mem[h].roadmap
            e == [roadmap |-> r, ids |-> mem[h].ids]
<1>1. /\ TablesOK /\ Len(lists) < MaxLists
      /\ r \in RoadmapIds /\ mem[h].ids \in Selections /\ mem[h].rows \in SUBSET Row
  BY DEF RoadmapsInv, CommitList, WorkOK, Locking
<1>2. lists' = Append(lists, e)
  BY DEF CommitList
<1>3. /\ rows'[r] = Memberships(mem[h].ids, mem[h].rows)
      /\ \A q \in RoadmapIds \ {r} : rows'[q] = rows[q] /\ roadmap'[q] = roadmap[q]
  BY <1>1 DEF CommitList, TablesOK
<1>4. Stored(rows'[r], r, Append(lists, e))
  BY <1>1, <1>3, NewListStored
<1>. QED BY <1>1, <1>2, <1>3, <1>4

LEMMA SaveProgressStores ==
  ASSUME RoadmapsInv, ListsInv, NEW h \in Handlers, SaveProgress(h)
  PROVE  LET r == mem[h].roadmap
         IN  /\ r \in RoadmapIds
             /\ Stored(rows'[r], r, lists)
             /\ \A x \in rows[r] : \E y \in rows'[r] : SameRow(x, y) /\ x.order = y.order
             /\ rows'[r] \subseteq rows[r] \cup mem[h].rows
             /\ UNCHANGED <<roadmap, lists>>
             /\ \A q \in RoadmapIds \ {r} : rows'[q] = rows[q]
<1>. DEFINE r == mem[h].roadmap
            R == rows[r]
<1>1. TablesOK /\ r \in RoadmapIds /\ phase[h] = "progress" /\ LoadedOK(phase[h], mem[h], lists)
  BY DEF RoadmapsInv, ListsInv, SaveProgress, WorkOK
<1>2. PICK x : mem[h].rows = {x} /\ RowOf(x, r, lists)
  BY <1>1 DEF LoadedOK
<1>3. UNCHANGED <<roadmap, lists>>
  BY DEF SaveProgress
<1>4. \/ /\ \E y \in R : SameRow(x, y)
         /\ rows' = [rows EXCEPT ![r] = {z \in @ : ~SameRow(x, z)} \cup {x}]
      \/ /\ Insertable(r, x)
         /\ rows' = [rows EXCEPT ![r] = @ \cup {x}]
  BY <1>2 DEF SaveProgress
<1>5. Stored(R, r, lists)
  BY <1>1, <1>4 DEF ListsInv, Insertable, TablesOK
<1>6. \A z : SameRow(z, z)
  BY DEF SameRow
<1>7. CASE /\ \E y \in R : SameRow(x, y)
           /\ rows' = [rows EXCEPT ![r] = {z \in @ : ~SameRow(x, z)} \cup {x}]
  <2>1. PICK y \in R : SameRow(x, y)
    BY <1>7
  <2>2. rows'[r] = {z \in R : ~SameRow(x, z)} \cup {x}
    BY <1>1, <1>7 DEF TablesOK
  <2>3. /\ x.order = y.order /\ x.course = y.course /\ x.list = y.list
        /\ {z \in R : ~SameRow(x, z)} = R \ {y}
        /\ Stored({z \in R : ~SameRow(x, z)} \cup {x}, r, lists)
    BY <1>1, <1>2, <1>5, <2>1, RowUpdated
  <2>4. \A q \in RoadmapIds \ {r} : rows'[q] = rows[q]
    BY <1>1, <1>7 DEF TablesOK
  <2>5. \A w \in R : \E z \in rows'[r] : SameRow(w, z) /\ w.order = z.order
    BY <1>6, <2>2, <2>3 DEF SameRow
  <2>6. rows'[r] \subseteq R \cup mem[h].rows
    BY <1>2, <2>2
  <2>. QED BY <1>1, <1>3, <2>2, <2>3, <2>4, <2>5, <2>6
<1>8. CASE Insertable(r, x) /\ rows' = [rows EXCEPT ![r] = @ \cup {x}]
  <2>1. rows'[r] = R \cup {x}
    BY <1>1, <1>8 DEF TablesOK
  <2>2. Stored(R \cup {x}, r, lists)
    BY <1>2, <1>5, <1>8, RowInserted DEF Insertable
  <2>3. \A q \in RoadmapIds \ {r} : rows'[q] = rows[q]
    BY <1>1, <1>8 DEF TablesOK
  <2>. QED BY <1>1, <1>2, <1>3, <1>6, <2>1, <2>2, <2>3
<1>. QED BY <1>4, <1>7, <1>8

LEMMA SaveRenameStores ==
  ASSUME RoadmapsInv, ListsInv, NEW h \in Handlers, SaveRename(h)
  PROVE  LET r == mem[h].roadmap
         IN  /\ r \in RoadmapIds
             /\ rows'[r] = mem[h].rows
             /\ Stored(mem[h].rows, r, lists)
             /\ lists' = lists
             /\ \A q \in RoadmapIds \ {r} : rows'[q] = rows[q] /\ roadmap'[q] = roadmap[q]
<1>1. /\ TablesOK /\ mem[h].roadmap \in RoadmapIds /\ phase[h] = "rename"
      /\ LoadedOK(phase[h], mem[h], lists)
  BY DEF RoadmapsInv, ListsInv, SaveRename, WorkOK
<1>2. Stored(mem[h].rows, mem[h].roadmap, lists)
  BY <1>1 DEF LoadedOK
<1>. QED BY <1>1, <1>2 DEF SaveRename, TablesOK

\* A handler that starts has loaded what is stored.
LEMMA EnterKeepsLists ==
  ASSUME RoadmapsInv, ListsInv, NEW h \in Handlers, NEW r, NEW ph, NEW ids, NEW loaded,
         Enter(h, ph, r, ids, loaded),
         LoadedOK(ph, [roadmap |-> r, ids |-> ids, rows |-> loaded], lists),
         UNCHANGED roadmapVars
  PROVE  ListsInv'
<1>1. UNCHANGED <<roadmap, rows, lists>>
  BY DEF roadmapVars
<1>2. phase'[h] = ph /\ mem'[h] = [roadmap |-> r, ids |-> ids, rows |-> loaded]
  BY DEF RoadmapsInv, Enter
<1>3. \A g \in Handlers \ {h} : phase'[g] = phase[g] /\ mem'[g] = mem[g]
  BY DEF RoadmapsInv, Enter
<1>4. ASSUME NEW g \in Handlers PROVE LoadedOK(phase'[g], mem'[g], lists)
  BY <1>2, <1>3 DEF ListsInv
<1>. QED BY <1>1, <1>4 DEF ListsInv

\* A handler that ends leaves its roadmap stored.
LEMMA LeaveKeepsLists ==
  ASSUME RoadmapsInv, ListsInv, NEW h \in Handlers, Leave(h), NEW r \in RoadmapIds,
         \A q \in RoadmapIds \ {r} : rows'[q] = rows[q] /\ roadmap'[q] = roadmap[q],
         roadmap'[r] = "saved" => Stored(rows'[r], r, lists'),
         lists' = lists \/ \E e : lists' = Append(lists, e)
  PROVE  ListsInv'
<1>1. TablesOK
  BY DEF RoadmapsInv
<1>2. \A R, q : Stored(R, q, lists) => Stored(R, q, lists')
  BY <1>1, MoreLists
<1>3. \A ph, m : LoadedOK(ph, m, lists) => LoadedOK(ph, m, lists')
  BY <1>1, MoreLists
<1>4. phase'[h] = "idle" /\ \A g \in Handlers \ {h} : phase'[g] = phase[g] /\ mem'[g] = mem[g]
  BY DEF RoadmapsInv, Leave
<1>5. ASSUME NEW g \in Handlers PROVE LoadedOK(phase'[g], mem'[g], lists')
  <2>1. CASE g = h
    BY <1>4, <2>1 DEF LoadedOK
  <2>2. CASE g # h
    <3>1. LoadedOK(phase[g], mem[g], lists)
      BY DEF ListsInv
    <3>. QED BY <1>3, <1>4, <2>2, <3>1
  <2>. QED BY <2>1, <2>2
<1>6. ASSUME NEW q \in RoadmapIds, roadmap'[q] = "saved" PROVE Stored(rows'[q], q, lists')
  <2>1. CASE q = r
    BY <1>6, <2>1
  <2>2. CASE q # r
    <3>1. roadmap[q] = "saved" /\ rows'[q] = rows[q]
      BY <1>6, <2>2
    <3>2. Stored(rows[q], q, lists)
      BY <3>1 DEF ListsInv
    <3>. QED BY <1>2, <3>1, <3>2
  <2>. QED BY <2>1, <2>2
<1>. QED BY <1>5, <1>6 DEF ListsInv

LEMMA ListsStep ==
  ASSUME RoadmapsInv, ListsInv, [Next]_vars
  PROVE  ListsInv'
<1>1. CASE CatalogWrite \/ UNCHANGED vars
  <2>1. UNCHANGED <<roadmap, rows, lists, phase, mem>>
    BY <1>1 DEF CatalogWrite, vars, roadmapVars, handlerVars
  <2>. QED BY <2>1 DEF ListsInv
<1>2. ASSUME NEW h \in Handlers, NEW r \in RoadmapIds, NEW ids \in Selections,
             StartCreate(h, r, ids)
      PROVE  ListsInv'
  <2>1. LoadedOK("create", [roadmap |-> r, ids |-> ids, rows |-> {}], lists)
    BY DEF LoadedOK
  <2>. QED BY <1>2, <2>1, EnterKeepsLists DEF StartCreate
<1>3. ASSUME NEW h \in Handlers, NEW r \in RoadmapIds, NEW ids \in Selections,
             StartReplace(h, r, ids)
      PROVE  ListsInv'
  <2>1. Stored(rows[r], r, lists)
    BY <1>3 DEF StartReplace, ListsInv
  <2>2. LoadedOK("replace", [roadmap |-> r, ids |-> ids, rows |-> rows[r]], lists)
    BY <2>1 DEF LoadedOK
  <2>. QED BY <1>3, <2>2, EnterKeepsLists DEF StartReplace
<1>4. ASSUME NEW h \in Handlers, NEW r \in RoadmapIds, NEW c \in Courses,
             NEW p \in Progress, StartProgress(h, r, c, p)
      PROVE  ListsInv'
  <2>1. PICK x \in rows[r] :
          Enter(h, "progress", r, <<>>, {[x EXCEPT !.progress = p]})
    BY <1>4 DEF StartProgress
  <2>. DEFINE y == [x EXCEPT !.progress = p]
  <2>2. RowOf(x, r, lists) /\ x \in Row
    BY <1>4 DEF StartProgress, ListsInv, Stored, RowOf
  <2>3. y \in Row /\ y.list = x.list /\ y.order = x.order /\ y.course = x.course
    BY <2>2 DEF Row
  <2>. HIDE DEF y
  <2>4. RowOf(y, r, lists)
    BY <2>2, <2>3 DEF RowOf
  <2>5. LoadedOK("progress", [roadmap |-> r, ids |-> <<>>, rows |-> {y}], lists)
    BY <2>4 DEF LoadedOK
  <2>6. Enter(h, "progress", r, <<>>, {y}) /\ UNCHANGED roadmapVars
    BY <1>4, <2>1 DEF StartProgress, y
  <2>. QED BY <2>5, <2>6, EnterKeepsLists
<1>5. ASSUME NEW h \in Handlers, NEW r \in RoadmapIds, StartRename(h, r)
      PROVE  ListsInv'
  <2>1. Stored(rows[r], r, lists)
    BY <1>5 DEF StartRename, ListsInv
  <2>2. LoadedOK("rename", [roadmap |-> r, ids |-> <<>>, rows |-> rows[r]], lists)
    BY <2>1 DEF LoadedOK
  <2>. QED BY <1>5, <2>2, EnterKeepsLists DEF StartRename
<1>6. ASSUME NEW h \in Handlers, CommitList(h) PROVE ListsInv'
  BY <1>6, CommitListStores, LeaveKeepsLists DEF CommitList
<1>7. ASSUME NEW h \in Handlers, SaveProgress(h) PROVE ListsInv'
  BY <1>7, SaveProgressStores, LeaveKeepsLists DEF SaveProgress
<1>8. ASSUME NEW h \in Handlers, SaveRename(h) PROVE ListsInv'
  BY <1>8, SaveRenameStores, LeaveKeepsLists DEF SaveRename
<1>9. ASSUME NEW h \in Handlers, Fail(h) PROVE ListsInv'
  <2>1. Leave(h) /\ UNCHANGED <<roadmap, rows, lists>> /\ mem[h].roadmap \in RoadmapIds
    BY <1>9 DEF Fail, roadmapVars, RoadmapsInv, WorkOK
  <2>2. roadmap'[mem[h].roadmap] = "saved" =>
          Stored(rows'[mem[h].roadmap], mem[h].roadmap, lists')
    BY <2>1 DEF ListsInv
  <2>. QED BY <2>1, <2>2, LeaveKeepsLists
<1>10. ASSUME NEW h \in Handlers, Validate(h) PROVE ListsInv'
  <2>1. /\ UNCHANGED <<roadmap, rows, lists, mem>>
        /\ phase[h] \in {"create", "replace"}
        /\ phase' = [phase EXCEPT ![h] = IF @ = "create" THEN "insert" ELSE "rewrite"]
        /\ DOMAIN phase = Handlers
    BY <1>10 DEF Validate, roadmapVars, RoadmapsInv
  <2>2. ASSUME NEW g \in Handlers PROVE LoadedOK(phase'[g], mem'[g], lists)
    <3>1. LoadedOK(phase[g], mem[g], lists)
      BY DEF ListsInv
    <3>2. CASE g # h
      BY <2>1, <3>1, <3>2
    <3>3. CASE g = h
      BY <2>1, <3>1, <3>3 DEF LoadedOK
    <3>. QED BY <3>2, <3>3
  <2>. QED BY <2>1, <2>2 DEF ListsInv
<1>11. ASSUME NEW r \in RoadmapIds, Remove(r) PROVE ListsInv'
  BY <1>11 DEF Remove, ListsInv, RoadmapsInv, TablesOK, handlerVars
<1>. QED BY <1>1, <1>2, <1>3, <1>4, <1>5, <1>6, <1>7, <1>8, <1>9, <1>10, <1>11 DEF Next

THEOREM ListsHold == Spec => []ListsInv
<1>1. Init => ListsInv
  BY DEF Init, ListsInv, LoadedOK
<1>2. RoadmapsInv /\ ListsInv /\ [Next]_vars => ListsInv'
  BY ListsStep
<1>. QED BY <1>1, <1>2, InvHolds, PTL DEF Spec

-----------------------------------------------------------------------------
(* The results.                                                            *)

\* Every variable of Roadmaps keeps its type, only a saved roadmap has rows, and
\* the catalog lock is held exactly by the handler creating or replacing a list,
\* however many requests interleave and fail.
THEOREM TypesHold == Spec => []TypeOK
BY InvHolds, InvGivesProperties, PTL

\* The list that create and update write is one validateRoadmapSelection would
\* still accept, although it was checked on another connection: every catalog
\* write waits for the lock.
THEOREM CheckedSelectionHolds == Spec => []CheckedSelectionStaysValid
BY InvHolds, InvGivesProperties, PTL

\* A saved roadmap always has one accepted list entire and no row twice, however
\* replacements, renames, removals and progress of it overtake each other.
THEOREM SavedListIsWholeHolds == Spec => []SavedListIsWhole
<1>1. ListsInv => SavedListIsWhole
  BY DEF ListsInv, Stored, HasList, Distinct, SavedListIsWhole
<1>. QED BY <1>1, ListsHold, PTL

\* A removed roadmap comes back only by a rename that loaded it before: neither a
\* replacement nor a progress in flight can bring it back.
THEOREM OnlyStaleRenameRevivesHolds == Spec => OnlyStaleRenameRevives
<1>1. RoadmapsInv /\ ListsInv /\ [Next]_vars =>
        [\A r \in RoadmapIds : roadmap[r] = "removed" /\ roadmap'[r] # "removed" =>
           \E h \in Handlers :
             Ends(h, r) /\ phase[h] = "rename" /\ rows'[r] = mem[h].rows]_vars
  <2>. SUFFICES ASSUME RoadmapsInv, ListsInv, Next, NEW r \in RoadmapIds,
                       roadmap[r] = "removed", roadmap'[r] # "removed"
                PROVE  \E h \in Handlers :
                         Ends(h, r) /\ phase[h] = "rename" /\ rows'[r] = mem[h].rows
    BY DEF vars
  <2>1. ~Remove(r)
    BY DEF Remove
  <2>2. PICK h \in Handlers :
          Ends(h, r) /\ (CommitList(h) \/ SaveProgress(h) \/ SaveRename(h))
    BY <2>1, WhoWrites
  <2>3. ~CommitList(h) /\ ~SaveProgress(h)
    BY <2>2 DEF Ends, CommitList, SaveProgress
  <2>4. phase[h] = "rename" /\ rows'[r] = mem[h].rows
    BY <2>2, <2>3, SaveRenameStores DEF Ends, SaveRename
  <2>. QED BY <2>2, <2>4
<1>. QED BY <1>1, InvHolds, ListsHold, PTL DEF Spec, OnlyStaleRenameRevives

\* What is lost of the progress of a course that stays was saved after the list
\* was loaded by the request that overwrites it.
THEOREM ProgressHolds == Spec => ProgressLostOnlyToStaleLoad
<1>. DEFINE Overwrites(r, x, y) ==
              \E h \in Handlers :
                /\ Ends(h, r)
                /\ \/ phase[h] = "progress" /\ y \in mem[h].rows
                   \/ phase[h] \in {"rewrite", "rename"} /\ x \notin mem[h].rows
            Kept == \A r \in RoadmapIds : \A x \in rows[r] : \A y \in rows'[r] :
                      x.course = y.course /\ x.progress # y.progress => Overwrites(r, x, y)
<1>1. ASSUME RoadmapsInv, ListsInv, Next PROVE Kept
  <2>. SUFFICES ASSUME NEW r \in RoadmapIds, NEW x \in rows[r], NEW y \in rows'[r],
                       x.course = y.course, x.progress # y.progress
                PROVE  Overwrites(r, x, y)
    OBVIOUS
  <2>1. roadmap[r] = "saved" /\ Distinct(rows[r])
    BY <1>1 DEF RoadmapsInv, TablesOK, ListsInv, Stored
  <2>2. y \notin rows[r]
    BY <2>1 DEF Distinct
  <2>3. ~Remove(r)
    BY <1>1 DEF Remove, RoadmapsInv, TablesOK
  <2>4. PICK h \in Handlers :
          Ends(h, r) /\ (CommitList(h) \/ SaveProgress(h) \/ SaveRename(h))
    BY <1>1, <2>2, <2>3, WhoWrites
  <2>5. mem[h].roadmap = r
    BY <2>4 DEF Ends
  <2>6. CASE CommitList(h)
    <3>1. phase[h] = "rewrite" /\ LoadedOK(phase[h], mem[h], lists)
      BY <1>1, <2>1, <2>5, <2>6 DEF CommitList, ListsInv
    <3>2. Distinct(mem[h].rows)
      BY <3>1 DEF LoadedOK, Stored
    <3>3. y \in Memberships(mem[h].ids, mem[h].rows)
      BY <1>1, <2>5, <2>6, CommitListStores
    <3>4. x \notin mem[h].rows
      BY <3>2, <3>3, KeptProgress
    <3>. QED BY <2>4, <3>1, <3>4
  <2>7. CASE SaveProgress(h)
    <3>1. phase[h] = "progress" /\ y \in mem[h].rows
      BY <1>1, <2>2, <2>5, <2>7, SaveProgressStores DEF SaveProgress
    <3>. QED BY <2>4, <3>1
  <2>8. CASE SaveRename(h)
    <3>1. phase[h] = "rename" /\ y \in mem[h].rows /\ Distinct(mem[h].rows)
      BY <1>1, <2>5, <2>8, SaveRenameStores DEF SaveRename, Stored
    <3>2. x \notin mem[h].rows
      BY <3>1 DEF Distinct
    <3>. QED BY <2>4, <3>1, <3>2
  <2>. QED BY <2>4, <2>6, <2>7, <2>8
<1>2. RoadmapsInv /\ ListsInv /\ [Next]_vars => [Kept]_vars
  BY <1>1
<1>. QED BY <1>2, InvHolds, ListsHold, PTL DEF Spec, ProgressLostOnlyToStaleLoad

\* A rename or a progress saved late takes no membership away and moves none; what
\* joins a list without being part of a new one was loaded from it before.
THEOREM ListsChangeOnRequestHolds == Spec => ListsChangeOnRequest
<1>. DEFINE Stay(r) ==
              /\ \A x \in rows[r] : \E y \in rows'[r] : SameRow(x, y) /\ x.order = y.order
              /\ \A y \in rows'[r] :
                   \/ \E x \in rows[r] : SameRow(x, y)
                   \/ \E h \in Handlers : Ends(h, r) /\ y \in mem[h].rows
            Asked == \A r \in RoadmapIds :
                       \/ roadmap'[r] = "removed"
                       \/ Len(lists') > Len(lists) /\ lists'[Len(lists')].roadmap = r
                       \/ Stay(r)
<1>1. ASSUME RoadmapsInv, ListsInv, Next PROVE Asked
  <2>. SUFFICES ASSUME NEW r \in RoadmapIds,
                       roadmap'[r] # "removed",
                       ~(Len(lists') > Len(lists) /\ lists'[Len(lists')].roadmap = r)
                PROVE  Stay(r)
    OBVIOUS
  <2>1. \A x : SameRow(x, x)
    BY DEF SameRow
  <2>2. CASE rows'[r] = rows[r]
    BY <2>1, <2>2
  <2>3. ~Remove(r)
    BY <1>1 DEF Remove, RoadmapsInv, TablesOK
  <2>4. ASSUME NEW h \in Handlers, Ends(h, r), CommitList(h) PROVE FALSE
    <3>. DEFINE e == [roadmap |-> r, ids |-> mem[h].ids]
    <3>1. lists' = Append(lists, e)
      BY <2>4 DEF CommitList, Ends
    <3>2. Len(lists') = Len(lists) + 1 /\ lists'[Len(lists) + 1] = e /\ Len(lists) \in Nat
      BY <1>1, <3>1 DEF RoadmapsInv, TablesOK
    <3>. QED BY <3>2
  <2>5. ASSUME NEW h \in Handlers, Ends(h, r), SaveProgress(h) PROVE Stay(r)
    <3>1. mem[h].roadmap = r
      BY <2>5 DEF Ends
    <3>2. /\ \A x \in rows[r] : \E y \in rows'[r] : SameRow(x, y) /\ x.order = y.order
          /\ rows'[r] \subseteq rows[r] \cup mem[h].rows
      BY <1>1, <2>5, <3>1, SaveProgressStores
    <3>. QED BY <2>1, <2>5, <3>2
  <2>6. ASSUME NEW h \in Handlers, Ends(h, r), SaveRename(h) PROVE Stay(r)
    <3>1. mem[h].roadmap = r
      BY <2>6 DEF Ends
    <3>2. rows'[r] = mem[h].rows /\ \A y \in mem[h].rows : RowOf(y, r, lists)
      BY <1>1, <2>6, <3>1, SaveRenameStores DEF Stored
    <3>3. ASSUME NEW x \in rows[r]
          PROVE  \E y \in rows'[r] : SameRow(x, y) /\ x.order = y.order
      <4>1. roadmap[r] = "saved" /\ TablesOK
        BY <1>1 DEF RoadmapsInv, TablesOK
      <4>2. RowOf(x, r, lists)
        BY <1>1, <4>1 DEF ListsInv, Stored
      <4>3. PICK y \in mem[h].rows : SameRow(x, y)
        BY <2>6, <3>1 DEF SaveRename, SameRow
      <4>4. x.order = y.order
        BY <3>2, <4>1, <4>2, <4>3, RowsOfOneList
      <4>. QED BY <3>2, <4>3, <4>4
    <3>. QED BY <2>6, <3>2, <3>3
  <2>. QED BY <1>1, <2>2, <2>3, <2>4, <2>5, <2>6, WhoWrites
<1>2. RoadmapsInv /\ ListsInv /\ [Next]_vars => [Asked]_vars
  BY <1>1
<1>. QED BY <1>2, InvHolds, ListsHold, PTL DEF Spec, ListsChangeOnRequest

=============================================================================
