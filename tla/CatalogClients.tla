---------------------------- MODULE CatalogClients ----------------------------
(***************************************************************************)
(* The clients of the catalog together: administrators who edit it, requests *)
(* that generate a roadmap from it, and the import command.  They meet in    *)
(* the database and in the catalog lock.                                    *)
(***************************************************************************)
EXTENDS RoadmapGeneration, ContentImport

CONSTANTS Catalogs,     \* databases earlier requests and imports have left
          EditedTags,   \* the tag choices administrators make
          MaxWrites     \* bound on administrators' writes

ExistingIn(d) == {c \in Courses : d.status[c] # "absent"}
PublishedIn(d) == {c \in Courses : d.status[c] = "published"}

\* The tables of a database.
Tables ==
  [taxonomy : TagChoices, status : [Courses -> CourseStatus \cup {"absent"}],
   filled : [Courses -> BOOLEAN], tags : [Courses -> TagChoices],
   prereqs : [Courses -> SUBSET Courses], url : [Courses -> Sources \cup {Elsewhere}],
   marker : [Sources -> Courses \cup {NoCourse}], form : TagChoices]

\* A database as the writes of the catalog and the imports leave one: with what the
\* foreign keys ensure, finite, and within the rules of the catalog.
Lawful(d) ==
  /\ d \in Tables
  /\ \A s \in Sources : d.marker[s] \in ExistingIn(d) \cup {NoCourse}
  /\ IsFiniteSet(ExistingIn(d))
  /\ \A c \in Courses \ ExistingIn(d) :
       ~d.filled[c] /\ d.tags[c] = NoTags /\ d.prereqs[c] = {}
  /\ \A S \in SUBSET Courses : S # {} => \E x \in S : d.prereqs[x] \cap S = {}
  /\ \A c \in PublishedIn(d) :
       d.prereqs[c] \subseteq PublishedIn(d) /\ d.filled[c] /\ \A k \in Kind : d.tags[c][k] # {}
  /\ \A c \in Courses :
       d.prereqs[c] \subseteq ExistingIn(d) /\ \A k \in Kind : d.tags[c][k] \subseteq d.taxonomy[k]
  /\ \A k \in Kind : d.form[k] \subseteq d.taxonomy[k]

ASSUME ClientsAssumption ==
  /\ EditedTags \subseteq TagChoices
  /\ MaxWrites \in Nat
  /\ Importer \notin Requests
  /\ \A d \in Catalogs : Lawful(d)

VARIABLE writes   \* administrators' writes so far

clientVars == <<vars, lock, gen, importVars, writes>>

ClientsInit ==
  /\ \E d \in Catalogs :
       /\ taxonomy = d.taxonomy /\ status = d.status /\ filled = d.filled
       /\ tags = d.tags /\ prereqs = d.prereqs
       /\ url = d.url /\ marker = d.marker /\ form = d.form
  /\ lock = NoHolder
  /\ writes = 0
  /\ GenInit /\ ImportInit

\* A course request with its URL; url[c] plays no part in the catalog's rules.
SaveCourse(c) ==
  \E f \in BOOLEAN, t \in EditedTags, P \in SUBSET Courses :
    /\ CreateCourse(c, f, t, P) \/ UpdateCourse(c, f, t, P)
    /\ \E u \in Sources \cup {Elsewhere} : url' = [url EXCEPT ![c] = u]

\* The foreign keys of evaluation_taxonomy_refs restrict too.
DeleteUnpinned(k, e) ==
  /\ e \notin form[k]
  /\ DeleteTaxonomy(k, e)
  /\ UNCHANGED url

\* A write of CatalogService: whole, between the transactions of the others.
AdminWrite ==
  /\ LockFree
  /\ writes < MaxWrites
  /\ writes' = writes + 1
  /\ \/ \E c \in Courses : SaveCourse(c)
     \/ \E c \in Courses, s \in CourseStatus : ChangeStatus(c, s) /\ UNCHANGED url
     \/ \E k \in Kind, e \in Entries : DeleteUnpinned(k, e)
  /\ UNCHANGED <<lock, gen, marker, form, imports, imp>>

ClientsNext ==
  \/ AdminWrite
  \/ \E g \in Requests : Generate(g) /\ UNCHANGED <<importVars, writes>>
  \/ Import /\ UNCHANGED <<gen, writes>>

\* The database ends every transaction of the import, by COMMIT or an error.
ClientsFairness ==
  /\ GenFairness
  /\ WF_imp(ImportStep)

ClientsSpec == ClientsInit /\ [][ClientsNext]_clientVars /\ ClientsFairness

-----------------------------------------------------------------------------
(* Properties.                                                             *)

\* Whatever the three kinds of client interleave, the committed catalog keeps
\* its rules: acyclic, published courses closed and complete, no dangling row,
\* and the entries the initial questionnaire pins exist.  The import, which does
\* not go through CatalogService, obeys the rules of CatalogService.
CatalogRulesHold ==
  /\ TypeOK
  /\ PrerequisitesAcyclic
  /\ PublishedClosed
  /\ PublishedComplete
  /\ NoDanglingReference
  /\ \A k \in Kind : form[k] \subseteq taxonomy[k]
=============================================================================
