------------------------------ MODULE CatalogTx ------------------------------
(***************************************************************************)
(* The writes of CatalogService as the database runs them: transactions of  *)
(* several statements under READ COMMITTED, interleaved with each other.    *)
(* Every one starts with pg_advisory_xact_lock, loads what it needs into     *)
(* memory, checks it, and writes the loaded entity back.  Statements read    *)
(* the committed catalog; a transaction's own writes become visible when it  *)
(* commits.  To everybody else each transaction is one atomic step of        *)
(* Catalog: ImplementsCatalog.                                              *)
(*                                                                         *)
(* A transaction waiting for the lock has read nothing, so waiting is not a *)
(* state of its own; the connections that waiting uses up are the subject   *)
(* of module ConnectionPool.                                                *)
(***************************************************************************)
EXTENDS Naturals

CONSTANTS Courses, Entries,
          Tx,      \* concurrent write requests, in any process
          NoTx     \* the value of lock when nobody holds it

ASSUME NoTxAssumption == NoTx \notin Tx

VARIABLES taxonomy, status, filled, tags, prereqs,   \* the committed catalog
          lock,      \* holder of advisory lock 1789600000
          phase,     \* phase[t]: how far transaction t is
          entity     \* entity[t]: the Course object t has in memory

Atomic == INSTANCE Catalog

catalogVars == <<taxonomy, status, filled, tags, prereqs>>
txVars == <<catalogVars, lock, phase, entity>>

Kind == Atomic!Kind
TagChoices == [Kind -> SUBSET Entries]

\* A Course object with its relations; unmet are the loaded prerequisites that
\* were not published when they were read.
Entity == [id : Courses, status : Atomic!CourseStatus, filled : BOOLEAN,
           tags : TagChoices, prereqs : SUBSET Courses, unmet : SUBSET Courses]

-----------------------------------------------------------------------------
TxInit ==
  /\ Atomic!Init
  /\ lock = NoTx
  /\ phase = [t \in Tx |-> "idle"]
  /\ entity = [t \in Tx |-> {}]

\* Faulty variant: the entity outlives its transaction.
FinishKeepingEntity(t) ==
  /\ lock' = NoTx
  /\ phase' = [phase EXCEPT ![t] = "idle"]
  /\ UNCHANGED entity

\* The transaction is over: committed, or rolled back with nothing written.
Finish(t) ==
  /\ lock' = NoTx
  /\ phase' = [phase EXCEPT ![t] = "idle"]
  /\ entity' = [entity EXCEPT ![t] = {}]

\* Faulty variant: the transaction starts without waiting for the lock.
AcquireWithoutWaiting(t) ==
  /\ phase[t] = "idle"
  /\ lock' = t
  /\ phase' = [phase EXCEPT ![t] = "locked"]
  /\ UNCHANGED <<catalogVars, entity>>

\* BEGIN and the advisory lock, which lasts until the transaction ends.
Acquire(t) ==
  /\ phase[t] = "idle"
  /\ lock = NoTx
  /\ lock' = t
  /\ phase' = [phase EXCEPT ![t] = "locked"]
  /\ UNCHANGED <<catalogVars, entity>>

\* load: the course with its relations (updateCourse and changeStatus).
Load(t, c) ==
  /\ phase[t] = "locked"
  /\ c \in Atomic!Existing
  /\ entity' = [entity EXCEPT ![t] =
       {[id |-> c, status |-> status[c], filled |-> filled[c], tags |-> tags[c],
         prereqs |-> prereqs[c], unmet |-> prereqs[c] \ Atomic!Published]}]
  /\ phase' = [phase EXCEPT ![t] = "loaded"]
  /\ UNCHANGED <<catalogVars, lock>>

\* createCourse up to the save: a draft whose relations are rows that exist.
Build(t, c, f, tg, P) ==
  /\ phase[t] = "locked"
  /\ status[c] = "absent"
  /\ Atomic!KnownTags(tg)
  /\ P \subseteq Atomic!Existing
  /\ entity' = [entity EXCEPT ![t] =
       {[id |-> c, status |-> "draft", filled |-> f, tags |-> tg,
         prereqs |-> P, unmet |-> P \ Atomic!Published]}]
  /\ phase' = [phase EXCEPT ![t] = "checked"]
  /\ UNCHANGED <<catalogVars, lock>>

\* updateCourse after the load: assign and, for a published course, assertPublishable.
\* A relation the request omits keeps its value and skips its checks.
Assign(t, f, tg, P) ==
  /\ phase[t] = "loaded"
  /\ \E e \in entity[t] :
       LET new == [e EXCEPT !.filled = f, !.tags = tg, !.prereqs = P,
                            !.unmet = IF P = e.prereqs THEN e.unmet
                                      ELSE P \ Atomic!Published]
       IN /\ e.status \in {"draft", "published"}
          /\ \A k \in Kind : tg[k] = e.tags[k] \/ tg[k] \subseteq taxonomy[k]
          /\ \/ P = e.prereqs
             \/ /\ e.id \notin P
                /\ P \subseteq Atomic!Existing
                /\ e.id \notin Atomic!Reachable(P)
          /\ e.status = "published" =>
               f /\ (\A k \in Kind : tg[k] # {}) /\ new.unmet = {}
          /\ entity' = [entity EXCEPT ![t] = {new}]
  /\ phase' = [phase EXCEPT ![t] = "checked"]
  /\ UNCHANGED <<catalogVars, lock>>

\* changeStatus after the load: assertPublishable on the loaded entity, or the
\* query for published dependents.
SetStatus(t, s) ==
  /\ phase[t] = "loaded"
  /\ \E e \in entity[t] :
       /\ \/ /\ s = "published"
             /\ e.filled /\ (\A k \in Kind : e.tags[k] # {}) /\ e.unmet = {}
          \/ s # "published" /\ Atomic!PublishedDependents(e.id) = {}
       /\ entity' = [entity EXCEPT ![t] = {[e EXCEPT !.status = s]}]
  /\ phase' = [phase EXCEPT ![t] = "checked"]
  /\ UNCHANGED <<catalogVars, lock>>

\* manager.save and COMMIT.  TypeORM writes every column and join row in which
\* the entity differs from the database, so afterwards the row is the entity;
\* the foreign keys of the join tables must hold.
Commit(t) ==
  /\ phase[t] = "checked"
  /\ \E e \in entity[t] :
       /\ Atomic!KnownTags(e.tags)
       /\ status' = [status EXCEPT ![e.id] = e.status]
       /\ filled' = [filled EXCEPT ![e.id] = e.filled]
       /\ tags' = [tags EXCEPT ![e.id] = e.tags]
       /\ prereqs' = [prereqs EXCEPT ![e.id] = e.prereqs]
  /\ Finish(t)
  /\ UNCHANGED taxonomy

\* saveTaxonomy and deleteTaxonomy: one statement, then COMMIT.
WriteTaxonomy(t, k, e) ==
  /\ phase[t] = "locked"
  /\ Atomic!SaveTaxonomy(k, e) \/ Atomic!DeleteTaxonomy(k, e)
  /\ Finish(t)

\* ROLLBACK: a check failed, the statement failed, or the connection or the
\* process died.  The database releases the lock and keeps none of the writes.
Rollback(t) ==
  /\ phase[t] # "idle"
  /\ Finish(t)
  /\ UNCHANGED catalogVars

TxNext ==
  \E t \in Tx :
    \/ Acquire(t)
    \/ \E c \in Courses : Load(t, c)
    \/ \E c \in Courses, f \in BOOLEAN, tg \in TagChoices, P \in SUBSET Courses :
         Build(t, c, f, tg, P)
    \/ \E f \in BOOLEAN, tg \in TagChoices, P \in SUBSET Courses : Assign(t, f, tg, P)
    \/ \E s \in Atomic!CourseStatus : SetStatus(t, s)
    \/ Commit(t)
    \/ \E k \in Kind, e \in Entries : WriteTaxonomy(t, k, e)
    \/ Rollback(t)

TxSpec == TxInit /\ [][TxNext]_txVars

-----------------------------------------------------------------------------
(* Properties.                                                             *)

\* Every variable has its type, and a transaction holds an entity exactly while
\* it is between its load and its end.
TxTypeOK ==
  /\ Atomic!TypeOK
  /\ lock \in Tx \cup {NoTx}
  /\ phase \in [Tx -> {"idle", "locked", "loaded", "checked"}]
  /\ entity \in [Tx -> SUBSET Entity]
  /\ \A t \in Tx : (entity[t] # {}) <=> (phase[t] \in {"loaded", "checked"})

\* What a transaction loaded is still what is committed when it acts on it: no
\* other writer changed the course, or published or withdrew a prerequisite of
\* it, between the load and the check.
LoadedStillCurrent ==
  \A t \in Tx : phase[t] = "loaded" =>
    \A e \in entity[t] :
      /\ e.status = status[e.id]
      /\ e.filled = filled[e.id]
      /\ e.tags = tags[e.id]
      /\ e.prereqs = prereqs[e.id]
      /\ e.unmet = e.prereqs \ Atomic!Published

\* The claim of the comment on CatalogService.write: cycle and publication checks
\* see the previous committed graph, even under concurrent requests.  Every
\* transaction is, when it commits, one accepted request of the atomic catalog.
ImplementsCatalog == Atomic!Spec
=============================================================================
