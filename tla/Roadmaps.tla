------------------------------ MODULE Roadmaps ------------------------------
(***************************************************************************)
(* The saved roadmaps of one user (RoadmapsService) while the catalog they  *)
(* point to changes.  A request is a handler that reads, checks and writes   *)
(* in separate statements; creating and replacing a list hold the advisory   *)
(* lock the catalog writes hold, saving progress and renaming hold none.     *)
(* Other users' requests only meet requireOwned and answer 404.             *)
(*                                                                         *)
(* Catalog writes are the atomic steps of Catalog, which module CatalogTx    *)
(* implements; they commit under the lock, so not while a handler holds it.  *)
(* Courses are never deleted, so here they all exist and are complete.       *)
(***************************************************************************)
EXTENDS Naturals, Sequences, FiniteSets

CONSTANTS Courses,
          RoadmapIds,       \* ids the sequence of roadmaps.id can give
          Handlers,         \* requests in flight
          NoHandler,
          Progress,         \* progress values in use, 0 and 100 among them
          MaxLists          \* bound on the lists created or replaced in a behaviour

ASSUME RoadmapsAssumption ==
  /\ IsFiniteSet(Courses)
  /\ NoHandler \notin Handlers /\ "none" \notin RoadmapIds
  /\ {0, 100} \subseteq Progress /\ Progress \subseteq 0..100
  /\ MaxLists \in Nat

VARIABLES status, prereqs,  \* the committed catalog
          roadmap,          \* roadmap[r]: "unused", then "saved", then "removed"
          rows,             \* rows[r]: its rows of roadmap_courses
          lists,            \* history: the lists saved so far, which number their rows
          lock,             \* holder of the catalog lock among the handlers
          phase, mem        \* a handler's control point and what it has in memory

Cat == INSTANCE Catalog WITH
  Entries <- {"any"},
  taxonomy <- [k \in {"categories", "technologies"} |-> {"any"}],
  filled <- [c \in Courses |-> TRUE],
  tags <- [c \in Courses |-> [k \in {"categories", "technologies"} |-> {"any"}]]

catalogVars == <<status, prereqs>>
roadmapVars == <<roadmap, rows, lists>>
handlerVars == <<lock, phase, mem>>
vars == <<catalogVars, roadmapVars, handlerVars>>

\* A membership.  Its primary key is never reused: the list it was inserted with
\* and its course stand for it.
Row == [list : 1..MaxLists, course : Courses, order : Nat, progress : Progress]
SameRow(x, y) == x.list = y.list /\ x.course = y.course

\* courseIds of a request: distinct (assertUniqueCourseIds) and not empty.
Selections ==
  UNION {{s \in [1..n -> Courses] : \A i, j \in 1..n : s[i] = s[j] => i = j}
           : n \in 1..Cardinality(Courses)}

Idle == [roadmap |-> "none", ids |-> <<>>, rows |-> {}]

-----------------------------------------------------------------------------
Init ==
  /\ status = [c \in Courses |-> "published"]
  /\ prereqs \in {g \in [Courses -> SUBSET Courses] :
                    \A S \in SUBSET Courses : S # {} => \E x \in S : g[x] \cap S = {}}
  /\ roadmap = [r \in RoadmapIds |-> "unused"]
  /\ rows = [r \in RoadmapIds |-> {}]
  /\ lists = <<>>
  /\ lock = NoHandler
  /\ phase = [h \in Handlers |-> "idle"]
  /\ mem = [h \in Handlers |-> Idle]

Enter(h, ph, r, ids, loaded) ==
  /\ phase' = [phase EXCEPT ![h] = ph]
  /\ mem' = [mem EXCEPT ![h] = [roadmap |-> r, ids |-> ids, rows |-> loaded]]

Leave(h) ==
  /\ lock' = IF lock = h THEN NoHandler ELSE lock
  /\ phase' = [phase EXCEPT ![h] = "idle"]
  /\ mem' = [mem EXCEPT ![h] = Idle]

\* Faulty variant: create does not take the lock.
StartCreateUnlocked(h, r, ids) ==
  /\ phase[h] = "idle"
  /\ roadmap[r] = "unused"
  /\ Enter(h, "create", r, ids, {})
  /\ UNCHANGED <<catalogVars, roadmapVars, lock>>

\* create: the lock, before anything is read.
StartCreate(h, r, ids) ==
  /\ phase[h] = "idle"
  /\ roadmap[r] = "unused"
  /\ lock = NoHandler
  /\ lock' = h
  /\ Enter(h, "create", r, ids, {})
  /\ UNCHANGED <<catalogVars, roadmapVars>>

\* update with courseIds: the lock, then requireOwned loads the current list (the
\* requireOwned before the lock only answers 404).
StartReplace(h, r, ids) ==
  /\ phase[h] = "idle"
  /\ roadmap[r] = "saved"
  /\ lock = NoHandler
  /\ lock' = h
  /\ Enter(h, "replace", r, ids, rows[r])
  /\ UNCHANGED <<catalogVars, roadmapVars>>

\* The courses of the loaded list that are complete, those being dropped included.
Completed(loaded) == {x.course : x \in {y \in loaded : y.progress = 100}}

\* validateRoadmapSelection, on another connection than the transaction's.
Validate(h) ==
  /\ phase[h] \in {"create", "replace"}
  /\ Cat!ValidSelection(mem[h].ids, Completed(mem[h].rows))
  /\ phase' = [phase EXCEPT ![h] = IF @ = "create" THEN "insert" ELSE "rewrite"]
  /\ UNCHANGED <<catalogVars, roadmapVars, lock, mem>>

\* Faulty variant: every membership of the new list starts again.
MembershipsFromZero(ids, loaded) ==
  {[list |-> Len(lists) + 1, course |-> ids[i], order |-> i - 1, progress |-> 0]
     : i \in DOMAIN ids}

\* buildMemberships: new rows in the order of ids; a course of the loaded list
\* keeps the progress it was loaded with.
Memberships(ids, loaded) ==
  {[list |-> Len(lists) + 1, course |-> ids[i], order |-> i - 1,
    progress |-> IF \E x \in loaded : x.course = ids[i]
                 THEN (CHOOSE x \in loaded : x.course = ids[i]).progress ELSE 0]
     : i \in DOMAIN ids}

\* Faulty variant: replacing appends to the rows that are there.
CommitListAppending(h) ==
  /\ phase[h] \in {"insert", "rewrite"}
  /\ Len(lists) < MaxLists
  /\ LET r == mem[h].roadmap IN
       /\ phase[h] = "rewrite" => roadmap[r] = "saved"
       /\ roadmap' = [roadmap EXCEPT ![r] = "saved"]
       /\ rows' = [rows EXCEPT ![r] = @ \cup Memberships(mem[h].ids, mem[h].rows)]
  /\ lists' = Append(lists, [roadmap |-> mem[h].roadmap, ids |-> mem[h].ids])
  /\ Leave(h)
  /\ UNCHANGED catalogVars

\* Faulty variant: update saves the roadmap too, so that one removed is inserted again.
CommitListSaving(h) ==
  /\ phase[h] \in {"insert", "rewrite"}
  /\ Len(lists) < MaxLists
  /\ LET r == mem[h].roadmap IN
       /\ phase[h] = "insert" => roadmap[r] = "unused"
       /\ roadmap' = [roadmap EXCEPT ![r] = "saved"]
       /\ rows' = [rows EXCEPT ![r] = Memberships(mem[h].ids, mem[h].rows)]
  /\ lists' = Append(lists, [roadmap |-> mem[h].roadmap, ids |-> mem[h].ids])
  /\ Leave(h)
  /\ UNCHANGED catalogVars

\* create and update save the roadmap and its memberships and commit; update
\* deletes all the rows the roadmap has by then.  The foreign key refuses the
\* memberships of a roadmap removed in the meantime (then the handler fails).
CommitList(h) ==
  /\ phase[h] \in {"insert", "rewrite"}
  /\ Len(lists) < MaxLists
  /\ LET r == mem[h].roadmap IN
       /\ roadmap[r] = IF phase[h] = "insert" THEN "unused" ELSE "saved"
       /\ roadmap' = [roadmap EXCEPT ![r] = "saved"]
       /\ rows' = [rows EXCEPT ![r] = Memberships(mem[h].ids, mem[h].rows)]
  /\ lists' = Append(lists, [roadmap |-> mem[h].roadmap, ids |-> mem[h].ids])
  /\ Leave(h)
  /\ UNCHANGED catalogVars

\* updateProgress: requireOwned loads the list, the membership of c is changed in memory.
StartProgress(h, r, c, p) ==
  /\ phase[h] = "idle"
  /\ roadmap[r] = "saved"
  /\ \E x \in rows[r] :
       /\ x.course = c
       /\ Enter(h, "progress", r, <<>>, {[x EXCEPT !.progress = p]})
  /\ UNCHANGED <<catalogVars, roadmapVars, lock>>

\* The foreign key and the two unique constraints of roadmap_courses.
Insertable(r, x) ==
  /\ roadmap[r] = "saved"
  /\ \A y \in rows[r] : y.course # x.course /\ y.order # x.order

\* repository.save(membership): the row with that key is updated, and inserted
\* again if it is not there any more.
SaveProgress(h) ==
  /\ phase[h] = "progress"
  /\ LET r == mem[h].roadmap IN
       \E x \in mem[h].rows :
         \/ /\ \E y \in rows[r] : SameRow(x, y)
            /\ rows' = [rows EXCEPT ![r] = {y \in @ : ~SameRow(x, y)} \cup {x}]
         \/ /\ \A y \in rows[r] : ~SameRow(x, y)
            /\ Insertable(r, x)
            /\ rows' = [rows EXCEPT ![r] = @ \cup {x}]
  /\ Leave(h)
  /\ UNCHANGED <<catalogVars, roadmap, lists>>

\* update without courseIds: requireOwned loads the roadmap with its courses.
StartRename(h, r) ==
  /\ phase[h] = "idle"
  /\ roadmap[r] = "saved"
  /\ Enter(h, "rename", r, <<>>, rows[r])
  /\ UNCHANGED <<catalogVars, roadmapVars, lock>>

\* Faulty variant: the rows that are not among the loaded ones are deleted.
SaveRenameDeleting(h) ==
  /\ phase[h] = "rename"
  /\ LET r == mem[h].roadmap IN
       /\ roadmap' = [roadmap EXCEPT ![r] = "saved"]
       /\ rows' = [rows EXCEPT ![r] = mem[h].rows]
  /\ Leave(h)
  /\ UNCHANGED <<catalogVars, lists>>

\* roadmaps.save(roadmap) cascades to the loaded courses: rows that differ are
\* updated, roadmap and rows that are gone are inserted again, and a row that is
\* not among the loaded ones would lose its roadmap, which the column forbids.
SaveRename(h) ==
  /\ phase[h] = "rename"
  /\ LET r == mem[h].roadmap IN
       /\ \A y \in rows[r] : \E x \in mem[h].rows : SameRow(x, y)
       /\ roadmap' = [roadmap EXCEPT ![r] = "saved"]
       /\ rows' = [rows EXCEPT ![r] = mem[h].rows]
  /\ Leave(h)
  /\ UNCHANGED <<catalogVars, lists>>

\* remove, in one statement: the memberships go with the roadmap.
Remove(r) ==
  /\ roadmap[r] = "saved"
  /\ roadmap' = [roadmap EXCEPT ![r] = "removed"]
  /\ rows' = [rows EXCEPT ![r] = {}]
  /\ UNCHANGED <<catalogVars, lists, handlerVars>>

\* The request ends without writing: an exception, a refused statement, a lost
\* connection.  A transaction is rolled back and its lock released.
Fail(h) ==
  /\ phase[h] # "idle"
  /\ Leave(h)
  /\ UNCHANGED <<catalogVars, roadmapVars>>

\* An administrator's write, one transaction under the lock.
CatalogWrite ==
  /\ lock = NoHandler
  /\ \/ \E c \in Courses, s \in Cat!CourseStatus : Cat!ChangeStatus(c, s)
     \/ \E c \in Courses, P \in SUBSET Courses :
          Cat!UpdateCourse(c, TRUE, [k \in Cat!Kind |-> {"any"}], P)
  /\ UNCHANGED <<roadmapVars, handlerVars>>

Next ==
  \/ CatalogWrite
  \/ \E r \in RoadmapIds : Remove(r)
  \/ \E h \in Handlers :
       \/ \E r \in RoadmapIds, ids \in Selections :
            StartCreate(h, r, ids) \/ StartReplace(h, r, ids)
       \/ \E r \in RoadmapIds, c \in Courses, p \in Progress : StartProgress(h, r, c, p)
       \/ \E r \in RoadmapIds : StartRename(h, r)
       \/ Validate(h) \/ CommitList(h) \/ SaveProgress(h) \/ SaveRename(h) \/ Fail(h)

Spec == Init /\ [][Next]_vars

-----------------------------------------------------------------------------
(* Properties.                                                             *)

\* Every variable has its type; only a saved roadmap has rows; the lock is held
\* exactly by the handler that is creating or replacing a list.
TypeOK ==
  /\ status \in [Courses -> Cat!CourseStatus]
  /\ prereqs \in [Courses -> SUBSET Courses]
  /\ roadmap \in [RoadmapIds -> {"unused", "saved", "removed"}]
  /\ rows \in [RoadmapIds -> SUBSET Row]
  /\ \A r \in RoadmapIds : rows[r] # {} => roadmap[r] = "saved"
  /\ lists \in Seq([roadmap : RoadmapIds, ids : Selections]) /\ Len(lists) <= MaxLists
  /\ \A h \in Handlers :
       /\ mem[h].rows \subseteq Row
       /\ mem[h].ids = <<>> \/ mem[h].ids \in Selections
       /\ lock = h <=> phase[h] \in {"create", "replace", "insert", "rewrite"}

\* What validateRoadmapSelection accepted is still acceptable when the list is
\* written: no course of it was withdrawn and no prerequisite added in between,
\* although the check runs on another connection than the write.
CheckedSelectionStaysValid ==
  \A h \in Handlers : phase[h] \in {"insert", "rewrite"} =>
    Cat!ValidSelection(mem[h].ids, Completed(mem[h].rows))

\* A saved roadmap has one accepted list entire, each course at its position, and
\* never two rows for a course or a position.  It may also have a course of an
\* earlier list, which a progress saved late has inserted again.
SavedListIsWhole ==
  \A r \in RoadmapIds : roadmap[r] = "saved" =>
    /\ \E l \in DOMAIN lists :
         /\ lists[l].roadmap = r
         /\ \A i \in DOMAIN lists[l].ids : \E x \in rows[r] :
              x.list = l /\ x.course = lists[l].ids[i] /\ x.order = i - 1
    /\ \A x, y \in rows[r] : x.course = y.course \/ x.order = y.order => x = y

\* h ends its request on r in this step.
Ends(h, r) == mem[h].roadmap = r /\ phase[h] # "idle" /\ phase'[h] = "idle"

\* A course that stays in a roadmap changes its progress only by the owner's own
\* request for that course and value, or when a replacement or a rename loaded the
\* list before the progress it overwrites was saved.
ProgressLostOnlyToStaleLoad ==
  [][\A r \in RoadmapIds : \A x \in rows[r] : \A y \in rows'[r] :
       x.course = y.course /\ x.progress # y.progress =>
         \E h \in Handlers :
           /\ Ends(h, r)
           /\ \/ phase[h] = "progress" /\ y \in mem[h].rows
              \/ phase[h] \in {"rewrite", "rename"} /\ x \notin mem[h].rows]_vars

\* A removed roadmap comes back only by a rename that loaded it before, and then
\* with exactly the memberships it loaded.
OnlyStaleRenameRevives ==
  [][\A r \in RoadmapIds : roadmap[r] = "removed" /\ roadmap'[r] # "removed" =>
       \E h \in Handlers :
         Ends(h, r) /\ phase[h] = "rename" /\ rows'[r] = mem[h].rows]_vars

\* A membership leaves its roadmap, or moves in it, only when the roadmap is
\* removed or its list replaced, whatever a rename or a late progress loaded; and
\* joins it only in a new list or from what a request had loaded of it.
ListsChangeOnRequest ==
  [][\A r \in RoadmapIds :
       \/ roadmap'[r] = "removed"
       \/ Len(lists') > Len(lists) /\ lists'[Len(lists')].roadmap = r
       \/ /\ \A x \in rows[r] : \E y \in rows'[r] : SameRow(x, y) /\ x.order = y.order
          /\ \A y \in rows'[r] :
               \/ \E x \in rows[r] : SameRow(x, y)
               \/ \E h \in Handlers : Ends(h, r) /\ y \in mem[h].rows]_vars

\* A course that stays in a list that is replaced keeps its progress.
ReplaceKeepsProgress ==
  [][lists' # lists =>
       \A r \in RoadmapIds : \A x \in rows[r] : \A y \in rows'[r] :
         x.course = y.course => x.progress = y.progress]_vars

\* A request that only renames leaves every roadmap and every membership as it is.
RenameOnlyRenames ==
  [][(\E h \in Handlers : phase[h] = "rename" /\ phase'[h] = "idle")
       => UNCHANGED <<roadmap, rows>>]_vars

\* The courses of a saved roadmap are ones its owner can be shown.
ListedCoursesVisible ==
  \A r \in RoadmapIds : \A x \in rows[r] : status[x.course] \in {"published", "archived"}
=============================================================================
