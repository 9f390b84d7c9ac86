--------------------------- MODULE CatalogTxProofs ---------------------------
(***************************************************************************)
(* The interleaved transactions of CatalogTx implement the atomic writes of  *)
(* Catalog, for every set of courses, entries and concurrent transactions.   *)
(* The argument: only the holder of the lock is past its first statement, so *)
(* what it loaded stays current, so what it checked is still acceptable when *)
(* it commits.                                                             *)
(***************************************************************************)
EXTENDS CatalogTx, TLAPS

USE NoTxAssumption

\* Only the lock holder is inside a transaction.
OnlyHolderActs == \A t \in Tx : phase[t] # "idle" => lock = t

\* The three requests an entity that passed its checks can stand for, as guards of
\* the atomic writes: a creation, an edit, a change of status.
Creation(e) ==
  /\ e.status = "draft"
  /\ status[e.id] = "absent"
  /\ Atomic!KnownTags(e.tags)
  /\ e.prereqs \subseteq Atomic!Existing

Edit(e) ==
  /\ e.status = status[e.id]
  /\ e.status \in {"draft", "published"}
  /\ \A k \in Kind : e.tags[k] = tags[e.id][k] \/ e.tags[k] \subseteq taxonomy[k]
  /\ \/ e.prereqs = prereqs[e.id]
     \/ /\ e.id \notin e.prereqs
        /\ e.prereqs \subseteq Atomic!Existing
        /\ e.id \notin Atomic!Reachable(e.prereqs)
  /\ e.status = "published" => Atomic!Publishable(e.filled, e.tags, e.prereqs)

StatusChange(e) ==
  /\ e.id \in Atomic!Existing
  /\ e.filled = filled[e.id] /\ e.tags = tags[e.id] /\ e.prereqs = prereqs[e.id]
  /\ \/ e.status = "published" /\ Atomic!Publishable(e.filled, e.tags, e.prereqs)
     \/ e.status # "published" /\ Atomic!PublishedDependents(e.id) = {}

Accepted(e) == Creation(e) \/ Edit(e) \/ StatusChange(e)

\* What has been checked is acceptable to the catalog as it is now.
CheckedAccepted ==
  \A t \in Tx : phase[t] = "checked" => \A e \in entity[t] : Accepted(e)

Inv == TxTypeOK /\ OnlyHolderActs /\ LoadedStillCurrent /\ CheckedAccepted

-----------------------------------------------------------------------------
\* A step that leaves the catalog alone leaves every operator of it alone.
LEMMA SameCatalog ==
  ASSUME UNCHANGED catalogVars
  PROVE  /\ Atomic!TypeOK' <=> Atomic!TypeOK
         /\ Atomic!Existing' = Atomic!Existing
         /\ Atomic!Published' = Atomic!Published
         /\ \A e : Accepted(e)' <=> Accepted(e)
<1> USE DEF catalogVars
<1>1. Atomic!TypeOK' <=> Atomic!TypeOK
  BY DEF Atomic!TypeOK, Atomic!Existing
<1>2. Atomic!Existing' = Atomic!Existing /\ Atomic!Published' = Atomic!Published
  BY DEF Atomic!Existing, Atomic!Published
<1>3. \A e : Accepted(e)' <=> Accepted(e)
  <2> TAKE e
  <2>1. Creation(e)' <=> Creation(e)
    BY <1>2 DEF Creation, Atomic!KnownTags
  <2>2. Atomic!Reachable(e.prereqs)' = Atomic!Reachable(e.prereqs)
    BY DEF Atomic!Reachable, Atomic!PrereqClosed
  <2>3. Atomic!Publishable(e.filled, e.tags, e.prereqs)'
          <=> Atomic!Publishable(e.filled, e.tags, e.prereqs)
    BY <1>2 DEF Atomic!Publishable
  <2>4. Edit(e)' <=> Edit(e)
    BY <1>2, <2>2, <2>3 DEF Edit
  <2>5. Atomic!PublishedDependents(e.id)' = Atomic!PublishedDependents(e.id)
    BY <1>2 DEF Atomic!PublishedDependents
  <2>6. StatusChange(e)' <=> StatusChange(e)
    BY <1>2, <2>3, <2>5 DEF StatusChange
  <2> QED
    BY <2>1, <2>4, <2>6 DEF Accepted
<1> QED
  BY <1>1, <1>2, <1>3

\* A rejected or failed transaction, and one that ends, frees the lock and forgets
\* its entity: nobody is inside a transaction afterwards.
LEMMA FinishEmpties ==
  ASSUME Inv, NEW t \in Tx, lock = t, Finish(t)
  PROVE  /\ \A u \in Tx : phase'[u] = "idle" /\ entity'[u] = {}
         /\ lock' = NoTx
<1>1. \A u \in Tx \ {t} : phase[u] = "idle" /\ entity[u] = {}
  BY DEF Inv, OnlyHolderActs, TxTypeOK
<1> QED
  BY <1>1 DEF Inv, TxTypeOK, Finish

\* The step of a transaction that only prepares: t ends the step at phase ph with
\* the entities of E in memory, and the invariant holds if it holds of them.
LEMMA PreparingStep ==
  ASSUME Inv, NEW t \in Tx, UNCHANGED <<catalogVars, lock>>, lock = t,
         NEW ph \in {"loaded", "checked"}, NEW E \in SUBSET Entity, E # {},
         phase' = [phase EXCEPT ![t] = ph],
         entity' = [entity EXCEPT ![t] = E],
         ph = "loaded" => \A e \in E :
           /\ e.status = status[e.id] /\ e.filled = filled[e.id]
           /\ e.tags = tags[e.id] /\ e.prereqs = prereqs[e.id]
           /\ e.unmet = e.prereqs \ Atomic!Published,
         ph = "checked" => \A e \in E : Accepted(e)
  PROVE  Inv'
<1>0. UNCHANGED catalogVars
  OBVIOUS
<1>1. TxTypeOK'
  BY <1>0, SameCatalog DEF Inv, TxTypeOK
<1>2. OnlyHolderActs'
  BY DEF Inv, OnlyHolderActs, TxTypeOK
<1>3. \A u \in Tx \ {t} : phase'[u] = "idle"
  BY DEF Inv, OnlyHolderActs, TxTypeOK
<1>4. phase'[t] = ph /\ entity'[t] = E
  BY DEF Inv, TxTypeOK
<1>5. LoadedStillCurrent'
  BY <1>0, <1>3, <1>4, SameCatalog DEF LoadedStillCurrent, catalogVars
<1>6. CheckedAccepted'
  BY <1>0, <1>3, <1>4, SameCatalog DEF CheckedAccepted
<1> QED
  BY <1>1, <1>2, <1>5, <1>6 DEF Inv

\* The commit of an entity is the request that its checks accepted.
LEMMA CommitIsAtomic ==
  ASSUME Inv, NEW t \in Tx, Commit(t)
  PROVE  Atomic!Next
<1>1. PICK e \in entity[t] :
        /\ Atomic!KnownTags(e.tags)
        /\ status' = [status EXCEPT ![e.id] = e.status]
        /\ filled' = [filled EXCEPT ![e.id] = e.filled]
        /\ tags' = [tags EXCEPT ![e.id] = e.tags]
        /\ prereqs' = [prereqs EXCEPT ![e.id] = e.prereqs]
  BY DEF Commit
<1>2. /\ e \in Entity
      /\ Accepted(e)
      /\ Atomic!TypeOK
      /\ UNCHANGED taxonomy
  BY DEF Inv, TxTypeOK, CheckedAccepted, Commit
<1>3. /\ e.id \in Courses /\ e.status \in Atomic!CourseStatus
      /\ e.filled \in BOOLEAN /\ e.tags \in Atomic!TagChoices
      /\ e.prereqs \in SUBSET Courses
  BY <1>2 DEF Entity, TagChoices, Kind, Atomic!TagChoices
<1>4. CASE Creation(e)
  <2>1. Atomic!CreateCourse(e.id, e.filled, e.tags, e.prereqs)
    BY <1>1, <1>2, <1>4 DEF Creation, Atomic!CreateCourse
  <2> QED
    BY <1>3, <2>1 DEF Atomic!Next
<1>5. CASE Edit(e)
  <2>1. status' = status
    BY <1>1, <1>2, <1>5 DEF Edit, Atomic!TypeOK
  <2>2. Atomic!UpdateCourse(e.id, e.filled, e.tags, e.prereqs)
    BY <1>1, <1>2, <1>5, <2>1 DEF Edit, Atomic!UpdateCourse, Kind
  <2> QED
    BY <1>3, <2>2 DEF Atomic!Next
<1>6. CASE StatusChange(e)
  <2>1. filled' = filled /\ tags' = tags /\ prereqs' = prereqs
    BY <1>1, <1>2, <1>6 DEF StatusChange, Atomic!TypeOK
  <2>2. Atomic!ChangeStatus(e.id, e.status)
    BY <1>1, <1>2, <1>6, <2>1 DEF StatusChange, Atomic!ChangeStatus
  <2> QED
    BY <1>3, <2>2 DEF Atomic!Next
<1> QED
  BY <1>2, <1>4, <1>5, <1>6 DEF Accepted

\* The invariant holds at the start and is kept by every statement.
LEMMA InvInit == TxInit => Inv
<1> SUFFICES ASSUME TxInit PROVE Inv
  OBVIOUS
<1>1. Atomic!TypeOK
  BY DEF TxInit, Atomic!Init, Atomic!TypeOK, Atomic!NoTags, Atomic!CourseStatus
<1> QED
  BY <1>1 DEF TxInit, Inv, TxTypeOK, OnlyHolderActs, LoadedStillCurrent, CheckedAccepted

LEMMA InvNext == Inv /\ [TxNext]_txVars => Inv'
<1> SUFFICES ASSUME Inv, [TxNext]_txVars PROVE Inv'
  OBVIOUS
<1>1. ASSUME NEW t \in Tx, Acquire(t)
      PROVE  Inv'
  <2>1. UNCHANGED catalogVars /\ UNCHANGED entity
    BY <1>1 DEF Acquire
  <2>2. TxTypeOK' /\ OnlyHolderActs'
    BY <1>1, <2>1, SameCatalog DEF Acquire, Inv, TxTypeOK, OnlyHolderActs
  <2>3. \A u \in Tx : phase'[u] \in {"idle", "locked"}
    BY <1>1 DEF Acquire, Inv, TxTypeOK, OnlyHolderActs
  <2> QED
    BY <2>2, <2>3 DEF Inv, LoadedStillCurrent, CheckedAccepted
<1>2. ASSUME NEW t \in Tx, NEW c \in Courses, Load(t, c)
      PROVE  Inv'
  <2> DEFINE e == [id |-> c, status |-> status[c], filled |-> filled[c],
                   tags |-> tags[c], prereqs |-> prereqs[c],
                   unmet |-> prereqs[c] \ Atomic!Published]
  <2>1. e \in Entity
    BY <1>2 DEF Load, Inv, TxTypeOK, Entity, TagChoices, Kind, Atomic!TypeOK,
                Atomic!Existing
  <2>2. lock = t
    BY <1>2 DEF Load, Inv, OnlyHolderActs
  <2>3. /\ phase' = [phase EXCEPT ![t] = "loaded"]
        /\ entity' = [entity EXCEPT ![t] = {e}]
        /\ UNCHANGED <<catalogVars, lock>>
    BY <1>2 DEF Load
  <2> HIDE DEF e
  <2>4. /\ e.id = c
        /\ e.status = status[c] /\ e.filled = filled[c] /\ e.tags = tags[c]
        /\ e.prereqs = prereqs[c] /\ e.unmet = prereqs[c] \ Atomic!Published
    BY DEF e
  <2> QED
    BY <2>1, <2>2, <2>3, <2>4, PreparingStep
<1>3. ASSUME NEW t \in Tx, NEW c \in Courses, NEW f \in BOOLEAN,
             NEW tg \in TagChoices, NEW P \in SUBSET Courses, Build(t, c, f, tg, P)
      PROVE  Inv'
  <2> DEFINE e == [id |-> c, status |-> "draft", filled |-> f, tags |-> tg,
                   prereqs |-> P, unmet |-> P \ Atomic!Published]
  <2>1. e \in Entity
    BY DEF Entity, Atomic!CourseStatus
  <2>2. Accepted(e)
    BY <1>3 DEF Build, Accepted, Creation
  <2>3. lock = t
    BY <1>3 DEF Build, Inv, OnlyHolderActs
  <2>4. /\ phase' = [phase EXCEPT ![t] = "checked"]
        /\ entity' = [entity EXCEPT ![t] = {e}]
        /\ UNCHANGED <<catalogVars, lock>>
    BY <1>3 DEF Build
  <2> HIDE DEF e
  <2> QED
    BY <2>1, <2>2, <2>3, <2>4, PreparingStep
<1>4. ASSUME NEW t \in Tx, NEW f \in BOOLEAN, NEW tg \in TagChoices,
             NEW P \in SUBSET Courses, Assign(t, f, tg, P)
      PROVE  Inv'
  <2>1. PICK e \in entity[t] :
          LET new == [e EXCEPT !.filled = f, !.tags = tg, !.prereqs = P,
                               !.unmet = IF P = e.prereqs THEN e.unmet
                                         ELSE P \ Atomic!Published]
          IN /\ e.status \in {"draft", "published"}
             /\ \A k \in Kind : tg[k] = e.tags[k] \/ tg[k] \subseteq taxonomy[k]
             /\ \/ P = e.prereqs
                \/ /\ e.id \notin P
                   /\ P \subseteq Atomic!Existing
                   /\ e.id \notin Atomic!Reachable(P)
             /\ e.status = "published" =>
                  f /\ (\A k \in Kind : tg[k] # {}) /\ new.unmet = {}
             /\ entity' = [entity EXCEPT ![t] = {new}]
    BY <1>4 DEF Assign
  <2> DEFINE new == [e EXCEPT !.filled = f, !.tags = tg, !.prereqs = P,
                              !.unmet = IF P = e.prereqs THEN e.unmet
                                        ELSE P \ Atomic!Published]
  <2>2. /\ e \in Entity
        /\ e.status = status[e.id] /\ e.filled = filled[e.id] /\ e.tags = tags[e.id]
        /\ e.prereqs = prereqs[e.id] /\ e.unmet = e.prereqs \ Atomic!Published
    BY <1>4 DEF Assign, Inv, TxTypeOK, LoadedStillCurrent
  <2>3. /\ new \in Entity
        /\ new.id = e.id /\ new.status = e.status /\ new.filled = f
        /\ new.tags = tg /\ new.prereqs = P /\ new.unmet = P \ Atomic!Published
    BY <2>2 DEF Entity
  <2>4. entity' = [entity EXCEPT ![t] = {new}]
    BY <2>1
  <2>5. /\ lock = t
        /\ phase' = [phase EXCEPT ![t] = "checked"]
        /\ UNCHANGED <<catalogVars, lock>>
    BY <1>4 DEF Assign, Inv, OnlyHolderActs
  <2>6. e.status = "published" => f /\ (\A k \in Kind : tg[k] # {}) /\ new.unmet = {}
    BY <2>1
  <2> HIDE DEF new
  <2>7. Edit(new)
    <3>1. new.status = "published" => Atomic!Publishable(new.filled, new.tags, new.prereqs)
      BY <2>3, <2>6 DEF Atomic!Publishable, Kind
    <3> QED
      BY <2>1, <2>2, <2>3, <3>1 DEF Edit
  <2> QED
    BY <2>3, <2>4, <2>5, <2>7, PreparingStep DEF Accepted
<1>5. ASSUME NEW t \in Tx, NEW s \in Atomic!CourseStatus, SetStatus(t, s)
      PROVE  Inv'
  <2>1. PICK e \in entity[t] :
          /\ \/ /\ s = "published"
                /\ e.filled /\ (\A k \in Kind : e.tags[k] # {}) /\ e.unmet = {}
             \/ s # "published" /\ Atomic!PublishedDependents(e.id) = {}
          /\ entity' = [entity EXCEPT ![t] = {[e EXCEPT !.status = s]}]
    BY <1>5 DEF SetStatus
  <2> DEFINE new == [e EXCEPT !.status = s]
  <2>2. /\ e \in Entity
        /\ e.status = status[e.id] /\ e.filled = filled[e.id] /\ e.tags = tags[e.id]
        /\ e.prereqs = prereqs[e.id] /\ e.unmet = e.prereqs \ Atomic!Published
    BY <1>5 DEF SetStatus, Inv, TxTypeOK, LoadedStillCurrent
  <2>3. /\ new \in Entity
        /\ new.id = e.id /\ new.status = s /\ new.filled = e.filled
        /\ new.tags = e.tags /\ new.prereqs = e.prereqs /\ new.unmet = e.unmet
    BY <2>2 DEF Entity
  <2>4. entity' = [entity EXCEPT ![t] = {new}]
    BY <2>1
  <2>5. /\ lock = t
        /\ phase' = [phase EXCEPT ![t] = "checked"]
        /\ UNCHANGED <<catalogVars, lock>>
    BY <1>5 DEF SetStatus, Inv, OnlyHolderActs
  <2> HIDE DEF new
  <2>6. e.id \in Atomic!Existing
    BY <2>2 DEF Entity, Atomic!Existing, Atomic!CourseStatus
  <2>7. StatusChange(new)
    <3>1. CASE s = "published"
      BY <2>1, <2>2, <2>3, <2>6, <3>1 DEF StatusChange, Atomic!Publishable, Kind
    <3>2. CASE s # "published"
      BY <2>1, <2>2, <2>3, <2>6, <3>2 DEF StatusChange
    <3> QED
      BY <3>1, <3>2
  <2> QED
    BY <2>3, <2>4, <2>5, <2>7, PreparingStep DEF Accepted
<1>6. ASSUME NEW t \in Tx, Finish(t), lock = t, Atomic!TypeOK'
      PROVE  Inv'
  <2>1. /\ \A u \in Tx : phase'[u] = "idle" /\ entity'[u] = {}
        /\ lock' = NoTx
    BY <1>6, FinishEmpties
  <2>2. TxTypeOK'
    BY <1>6, <2>1 DEF Finish, Inv, TxTypeOK
  <2> QED
    BY <2>1, <2>2 DEF Inv, OnlyHolderActs, LoadedStillCurrent, CheckedAccepted
<1>7. ASSUME NEW t \in Tx, Commit(t)
      PROVE  Inv'
  <2>1. lock = t /\ Finish(t)
    BY <1>7 DEF Commit, Inv, OnlyHolderActs
  <2>2. Atomic!TypeOK'
    BY <1>7 DEF Commit, Inv, TxTypeOK, Entity, TagChoices, Kind, Atomic!TypeOK,
                Atomic!Existing, Atomic!CourseStatus
  <2> QED
    BY <1>6, <2>1, <2>2
<1>8. ASSUME NEW t \in Tx, NEW k \in Kind, NEW e \in Entries, WriteTaxonomy(t, k, e)
      PROVE  Inv'
  <2>1. lock = t /\ Finish(t)
    BY <1>8 DEF WriteTaxonomy, Inv, OnlyHolderActs
  <2>2. Atomic!TypeOK'
    <3>1. Atomic!TypeOK /\ k \in Atomic!Kind
      BY DEF Inv, TxTypeOK, Kind
    <3>2. CASE Atomic!SaveTaxonomy(k, e)
      BY <3>1, <3>2 DEF Atomic!SaveTaxonomy, Atomic!TypeOK, Atomic!Existing
    <3>3. CASE Atomic!DeleteTaxonomy(k, e)
      BY <3>1, <3>3 DEF Atomic!DeleteTaxonomy, Atomic!TypeOK, Atomic!Existing
    <3> QED
      BY <1>8, <3>2, <3>3 DEF WriteTaxonomy
  <2> QED
    BY <1>6, <2>1, <2>2
<1>9. ASSUME NEW t \in Tx, Rollback(t)
      PROVE  Inv'
  <2>1. lock = t /\ Finish(t) /\ UNCHANGED catalogVars
    BY <1>9 DEF Rollback, Inv, OnlyHolderActs
  <2>2. Atomic!TypeOK'
    BY <2>1, SameCatalog DEF Inv, TxTypeOK
  <2> QED
    BY <1>6, <2>1, <2>2
<1>10. CASE UNCHANGED txVars
  <2>1. UNCHANGED catalogVars /\ UNCHANGED <<lock, phase, entity>>
    BY <1>10 DEF txVars
  <2>2. TxTypeOK' /\ OnlyHolderActs' /\ CheckedAccepted'
    BY <2>1, SameCatalog DEF Inv, TxTypeOK, OnlyHolderActs, CheckedAccepted
  <2>3. LoadedStillCurrent'
    BY <2>1, SameCatalog DEF Inv, LoadedStillCurrent, catalogVars
  <2> QED
    BY <2>2, <2>3 DEF Inv
<1> QED
  BY <1>1, <1>2, <1>3, <1>4, <1>5, <1>7, <1>8, <1>9, <1>10 DEF TxNext

-----------------------------------------------------------------------------
(* The theorems.                                                           *)

\* The type invariant: in particular a transaction has an entity in memory exactly
\* from its load to its end.
THEOREM TxTypeCorrect == TxSpec => []TxTypeOK
<1>1. Inv => TxTypeOK
  BY DEF Inv
<1> QED
  BY <1>1, InvInit, InvNext, PTL DEF TxSpec

\* Whatever CatalogService loaded under the lock is still committed when it acts on
\* it, with any number of other writers.
THEOREM LoadedIsCurrent == TxSpec => []LoadedStillCurrent
<1>1. Inv => LoadedStillCurrent
  BY DEF Inv
<1> QED
  BY <1>1, InvInit, InvNext, PTL DEF TxSpec

\* The locked transactions are the atomic writes: every statement is a stutter of
\* the committed catalog except the last one, which is one accepted request.
THEOREM TransactionsAreAtomic == TxSpec => ImplementsCatalog
<1>1. TxInit => Atomic!Init
  BY DEF TxInit
<1>2. Inv /\ [TxNext]_txVars => [Atomic!Next]_(Atomic!vars)
  <2> SUFFICES ASSUME Inv, [TxNext]_txVars
               PROVE  Atomic!Next \/ UNCHANGED Atomic!vars
    OBVIOUS
  <2>1. ASSUME NEW t \in Tx, Commit(t)
        PROVE  Atomic!Next
    BY <2>1, CommitIsAtomic
  <2>2. ASSUME NEW t \in Tx, NEW k \in Kind, NEW e \in Entries, WriteTaxonomy(t, k, e)
        PROVE  Atomic!Next
    BY <2>2 DEF WriteTaxonomy, Kind, Atomic!Next
  <2>3. CASE UNCHANGED catalogVars
    BY <2>3 DEF catalogVars, Atomic!vars
  <2> QED
    BY <2>1, <2>2, <2>3
       DEF TxNext, txVars, Acquire, Load, Build, Assign, SetStatus, Rollback
<1> QED
  BY <1>1, <1>2, InvInit, InvNext, PTL DEF TxSpec, ImplementsCatalog, Atomic!Spec
=============================================================================
