------------------------------- MODULE Catalog -------------------------------
(***************************************************************************)
(* The course catalog as CatalogService promises it: every write is one    *)
(* atomic step on the committed catalog.  Module CatalogTx has the same     *)
(* writes as interleaved database transactions and implements this one.     *)
(*                                                                         *)
(* Abstracted data: the six scalar columns publication.ts requires are one  *)
(* Boolean per course (all present or not); titles, taxonomy names and      *)
(* timestamps are left out.  A rejected request changes nothing, so it is   *)
(* not a step: the guards are the requests that are accepted.               *)
(***************************************************************************)
EXTENDS Naturals, Sequences, FiniteSets

CONSTANTS Courses,    \* ids a course can get
          Entries     \* ids a category or a technology can get

Kind == {"categories", "technologies"}
CourseStatus == {"draft", "published", "archived"}

VARIABLES taxonomy,   \* taxonomy[k]: the entries of kind k that exist
          status,     \* status[c]: "absent" until the course is created
          filled,     \* filled[c]: no required scalar column is missing
          tags,       \* tags[c][k]: rows of course_categories / course_technologies
          prereqs     \* prereqs[c]: rows of course_prerequisites

vars == <<taxonomy, status, filled, tags, prereqs>>

NoTags == [k \in Kind |-> {}]

Existing == {c \in Courses : status[c] # "absent"}
Published == {c \in Courses : status[c] = "published"}

-----------------------------------------------------------------------------
(* The rules the writes check.                                             *)

\* Faulty variant: forgets hasUnpublishedPrerequisites.
PublishableIgnoringPrereqs(f, t, P) ==
  /\ f
  /\ \A k \in Kind : t[k] # {}

\* Faulty variant: forgets one of the two taxonomies.
PublishableIgnoringTechnologies(f, t, P) ==
  /\ f
  /\ t["categories"] # {}
  /\ P \subseteq Published

\* publication.ts: publicationBlockers is empty and no prerequisite is unpublished.
Publishable(f, t, P) ==
  /\ f
  /\ \A k \in Kind : t[k] # {}
  /\ P \subseteq Published

\* A set that contains the prerequisites of its members.
PrereqClosed(S) == \A x \in S : prereqs[x] \subseteq S

\* Faulty variant: looks at the requested prerequisites only, not at theirs.
ReachableOneLevel(P) == P

\* The recursive query of assign: every course reachable from P, P included,
\* that is, the least set that contains P and its own prerequisites.
Reachable(P) ==
  {x \in Courses : \A S \in SUBSET Courses :
                     P \subseteq S /\ PrereqClosed(S) => x \in S}

\* The rows a request names exist (findBy returns as many rows as ids).
KnownTags(t) == \A k \in Kind : t[k] \subseteq taxonomy[k]

\* Faulty variant: only drafts are looked for.
DraftDependents(c) == {d \in Courses : status[d] = "draft" /\ c \in prereqs[d]}

\* The published courses that require c.
PublishedDependents(c) == {d \in Published : c \in prereqs[d]}

\* validateRoadmapSelection: a non-empty list of distinct published courses,
\* each after its prerequisites unless they are completed already.
ValidSelection(ids, completed) ==
  /\ ids # <<>>
  /\ \A i \in DOMAIN ids :
       /\ ids[i] \in Published
       /\ \A j \in 1..(i - 1) : ids[j] # ids[i]
       /\ prereqs[ids[i]] \subseteq completed \cup {ids[j] : j \in 1..(i - 1)}

-----------------------------------------------------------------------------
(* The writes.                                                             *)

\* The catalog after the migrations and before any request.
Init ==
  /\ taxonomy = NoTags
  /\ status = [c \in Courses |-> "absent"]
  /\ filled = [c \in Courses |-> FALSE]
  /\ tags = [c \in Courses |-> NoTags]
  /\ prereqs = [c \in Courses |-> {}]

\* POST of a category or a technology (a rename keeps the id and changes nothing here).
SaveTaxonomy(k, e) ==
  /\ e \notin taxonomy[k]
  /\ taxonomy' = [taxonomy EXCEPT ![k] = @ \cup {e}]
  /\ UNCHANGED <<status, filled, tags, prereqs>>

\* Faulty variant: an entry used by drafts only may go.
DeleteTaxonomyOfDrafts(k, e) ==
  /\ e \in taxonomy[k]
  /\ \A c \in Published : e \notin tags[c][k]
  /\ taxonomy' = [taxonomy EXCEPT ![k] = @ \ {e}]
  /\ UNCHANGED <<status, filled, tags, prereqs>>

\* The foreign keys of the join tables restrict: an entry in use stays.
DeleteTaxonomy(k, e) ==
  /\ e \in taxonomy[k]
  /\ \A c \in Courses : e \notin tags[c][k]
  /\ taxonomy' = [taxonomy EXCEPT ![k] = @ \ {e}]
  /\ UNCHANGED <<status, filled, tags, prereqs>>

\* A new course is a draft.  It has no id while assign runs, so neither the
\* self-requirement check nor the cycle check applies to it.
CreateCourse(c, f, t, P) ==
  /\ status[c] = "absent"
  /\ KnownTags(t)
  /\ P \subseteq Existing
  /\ status' = [status EXCEPT ![c] = "draft"]
  /\ filled' = [filled EXCEPT ![c] = f]
  /\ tags' = [tags EXCEPT ![c] = t]
  /\ prereqs' = [prereqs EXCEPT ![c] = P]
  /\ UNCHANGED taxonomy

\* Faulty variant: does not load the course first, so it may not be there.
UpdateCourseUnloaded(c, f, t, P) ==
  /\ status[c] # "archived"
  /\ KnownTags(t)
  /\ c \notin P /\ P \subseteq Existing /\ c \notin Reachable(P)
  /\ status[c] = "published" => Publishable(f, t, P)
  /\ filled' = [filled EXCEPT ![c] = f]
  /\ tags' = [tags EXCEPT ![c] = t]
  /\ prereqs' = [prereqs EXCEPT ![c] = P]
  /\ UNCHANGED <<taxonomy, status>>

\* f, t and P are the course's values after the request: a relation that the
\* request omits keeps its value, and then its checks are skipped.
UpdateCourse(c, f, t, P) ==
  /\ status[c] \in {"draft", "published"}
  /\ \A k \in Kind : t[k] = tags[c][k] \/ t[k] \subseteq taxonomy[k]
  /\ \/ P = prereqs[c]
     \/ /\ c \notin P
        /\ P \subseteq Existing
        /\ c \notin Reachable(P)
  /\ status[c] = "published" => Publishable(f, t, P)
  /\ filled' = [filled EXCEPT ![c] = f]
  /\ tags' = [tags EXCEPT ![c] = t]
  /\ prereqs' = [prereqs EXCEPT ![c] = P]
  /\ UNCHANGED <<taxonomy, status>>

\* publish, draft and archive; every pair of statuses is allowed, an archived
\* course may be published directly.
ChangeStatus(c, s) ==
  /\ c \in Existing
  /\ \/ s = "published" /\ Publishable(filled[c], tags[c], prereqs[c])
     \/ s # "published" /\ PublishedDependents(c) = {}
  /\ status' = [status EXCEPT ![c] = s]
  /\ UNCHANGED <<taxonomy, filled, tags, prereqs>>

TagChoices == [Kind -> SUBSET Entries]

Next ==
  \/ \E k \in Kind, e \in Entries : SaveTaxonomy(k, e) \/ DeleteTaxonomy(k, e)
  \/ \E c \in Courses, f \in BOOLEAN, t \in TagChoices, P \in SUBSET Courses :
       CreateCourse(c, f, t, P) \/ UpdateCourse(c, f, t, P)
  \/ \E c \in Courses, s \in CourseStatus : ChangeStatus(c, s)

Spec == Init /\ [][Next]_vars

-----------------------------------------------------------------------------
(* Properties.                                                             *)

\* Every variable has its type, and a course that was never created has no data.
TypeOK ==
  /\ taxonomy \in [Kind -> SUBSET Entries]
  /\ status \in [Courses -> CourseStatus \cup {"absent"}]
  /\ filled \in [Courses -> BOOLEAN]
  /\ tags \in [Courses -> [Kind -> SUBSET Entries]]
  /\ prereqs \in [Courses -> SUBSET Courses]
  /\ \A c \in Courses \ Existing : ~filled[c] /\ tags[c] = NoTags /\ prereqs[c] = {}

\* The prerequisite graph never has a cycle, whatever sequence of creations and
\* edits built it: every non-empty set of courses has a member that requires
\* none of the others (catalog.service.ts rejects an edit that closes a cycle).
PrerequisitesAcyclic ==
  \A S \in SUBSET Courses : S # {} => \E x \in S : prereqs[x] \cap S = {}

\* A published course only requires published courses: publishing, editing a
\* published course and withdrawing a prerequisite all keep it so.
PublishedClosed ==
  \A c \in Published : prereqs[c] \subseteq Published

\* A published course stays complete: neither an edit nor the deletion of a
\* category or technology can leave it without what publication required.
PublishedComplete ==
  \A c \in Published : filled[c] /\ \A k \in Kind : tags[c][k] # {}

\* The join tables never point at a row that is not there.
NoDanglingReference ==
  \A c \in Courses :
    /\ \A k \in Kind : tags[c][k] \subseteq taxonomy[k]
    /\ prereqs[c] \subseteq Existing

\* Publication and the roadmap rule agree: every published course can be reached
\* by a student with nothing completed, as the end of a list that
\* validateRoadmapSelection accepts.
PublishedSelectable ==
  \A c \in Published :
    \E n \in 1..Cardinality(Published) : \E ids \in [1..n -> Published] :
      ids[n] = c /\ ValidSelection(ids, {})
=============================================================================
