---------------------------- MODULE ContentImport ----------------------------
(***************************************************************************)
(* importInitialContent: the command that loads a file of courses into the   *)
(* catalog, in one transaction under the catalog lock, so that everybody     *)
(* else sees it whole or not at all; and planImportContent, its preview.     *)
(*                                                                         *)
(* Abstracted data: a source of the file stands for its key and for its URL  *)
(* (parseCourseSource derives the key from the URL and refuses duplicates);  *)
(* an entry of the taxonomy stands for its name.                             *)
(***************************************************************************)
EXTENDS CatalogLock

CONSTANTS Sources,             \* courses a file can name
          Elsewhere,           \* no URL, or one that is not in a file
          NoCourse,
          Files,               \* parsed files: sequences of records
          InitialTechnologies, \* initialTechnologies
          Importer,
          MaxImports           \* bound on the imports that begin

\* A valid record of a file; an invalid one rejects the whole file.  Curated: its
\* enrichment has a level, an image and a duration.
SourceCourse ==
  [key : Sources, category : Entries, technologies : SUBSET Entries, curated : BOOLEAN]

ASSUME ImportAssumption ==
  /\ Importer \in Holders
  /\ NoCourse \notin Courses /\ Elsewhere \notin Sources
  /\ InitialTechnologies \in (SUBSET Entries) \ {{}}
  /\ \A file \in Files :
       /\ file \in Seq(SourceCourse)
       /\ \A i, j \in DOMAIN file : i # j => file[i].key # file[j].key
  /\ MaxImports \in Nat

VARIABLES url,      \* url[c] \in Sources, or Elsewhere
          marker,   \* content_imports: the course a source was imported as
          form,     \* evaluation_taxonomy_refs of the initial questionnaire
          imports,  \* imports begun
          imp       \* the import's transaction

db == <<vars, url, marker, form>>
importVars == <<url, marker, form, imports, imp>>

\* What the transaction has written so far, on top of what it read.
Committed == [taxonomy |-> taxonomy, status |-> status, filled |-> filled,
              tags |-> tags, prereqs |-> prereqs,
              url |-> url, marker |-> marker, form |-> form]

W == INSTANCE Catalog WITH taxonomy <- imp.work.taxonomy, status <- imp.work.status,
                           filled <- imp.work.filled, tags <- imp.work.tags,
                           prereqs <- imp.work.prereqs

Idle == [phase |-> "idle"]

ImportInit ==
  /\ imports = 0
  /\ imp = Idle

-----------------------------------------------------------------------------
(* The preview, on the catalog as it is.                                    *)

WithUrl(s) == {c \in Existing : url[c] = s}

\* Does the preview say "would-publish", given the courses it said it of before?
Foreseen(source, promised) ==
  IF marker[source.key] # NoCourse
  THEN LET c == marker[source.key]
       IN  /\ status[c] = "draft" /\ filled[c]
           /\ \A k \in Kind : tags[c][k] # {}
           /\ prereqs[c] \subseteq Published \cup {marker[s] : s \in promised}
  ELSE WithUrl(source.key) = {} /\ source.curated /\ source.technologies # {}

\* One pass over the file, in its order.
Promises(file) ==
  LET upTo[i \in 0 .. Len(file)] ==
        IF i = 0 THEN {}
        ELSE IF Foreseen(file[i], upTo[i - 1])
             THEN upTo[i - 1] \cup {file[i].key}
             ELSE upTo[i - 1]
  IN upTo[Len(file)]

-----------------------------------------------------------------------------
(* The transaction.                                                        *)

Entry == imp.file[imp.at]

\* The entries of kind k that the transaction looks up by name, or else saves.
Named(work, k, names) == [work EXCEPT !.taxonomy[k] = @ \cup names]

\* Faulty variant: the failed transaction is left open.
AbortHoldingLock ==
  /\ imp' = Idle
  /\ UNCHANGED <<db, lock, imports>>

\* ROLLBACK.
Abort ==
  /\ imp' = Idle
  /\ ReleaseLock(Importer)
  /\ UNCHANGED <<db, imports>>

\* BEGIN, the lock, and the categories of the whole file.
BeginImport ==
  /\ imports < MaxImports
  /\ \E file \in Files, fill, publish \in BOOLEAN :
       /\ Cardinality(Courses \ Existing) >=      \* the bound on course ids
            Cardinality({i \in DOMAIN file : marker[file[i].key] = NoCourse})
       /\ imp' = [phase |-> "entries", file |-> file, at |-> 1,
                  fill |-> fill, publish |-> publish,
                  work |-> Named(Committed, "categories",
                                 {file[i].category : i \in DOMAIN file}),
                  pending |-> << >>, index |-> 0, progress |-> FALSE,
                  promised |-> IF publish THEN Promises(file) ELSE {}]
  /\ TakeLock(Importer)
  /\ imports' = imports + 1
  /\ UNCHANGED db

\* The entry is done: the next one, with c to be published later if asked to.
NextEntry(work, candidates) ==
  /\ imp' = [imp EXCEPT !.at = @ + 1, !.work = work,
                        !.pending = IF imp.publish THEN @ \o candidates ELSE @]
  /\ UNCHANGED <<db, lock, imports>>

\* fillMissingFields: what a course can have after it.  An incomplete course
\* becomes complete if the file has every value and the URL is there; otherwise
\* it depends on which of the values was missing.
FilledAfter(c) ==
  IF imp.work.filled[c] THEN {TRUE}
  ELSE IF Entry.curated /\ imp.work.url[c] # Elsewhere THEN {TRUE}
  ELSE BOOLEAN

\* fillMissingFields replaces a relation only if it is empty.
TagsAfter(c) ==
  [k \in Kind |->
     IF imp.work.tags[c][k] # {} THEN imp.work.tags[c][k]
     ELSE IF k = "categories" THEN {Entry.category} ELSE Entry.technologies]

Fill(c, f) ==
  LET named == IF imp.work.tags[c]["technologies"] = {} THEN Entry.technologies ELSE {}
  IN [Named(imp.work, "technologies", named) EXCEPT
        !.filled[c] = f, !.tags[c] = TagsAfter(c)]

\* The source was imported before: its course is found by the marker, whatever
\* its URL is now.
ImportMarked ==
  /\ imp.phase = "entries" /\ imp.at <= Len(imp.file)
  /\ imp.work.marker[Entry.key] # NoCourse
  /\ LET c == imp.work.marker[Entry.key]
     IN  IF imp.fill
         THEN \E f \in FilledAfter(c) : NextEntry(Fill(c, f), <<c>>)
         ELSE NextEntry(imp.work, <<c>>)

SameUrl == {c \in W!Existing : imp.work.url[c] = Entry.key}

\* Faulty variant: what an administrator made is published like the rest.
LinkAndPublish ==
  /\ imp.phase = "entries" /\ imp.at <= Len(imp.file)
  /\ imp.work.marker[Entry.key] = NoCourse
  /\ Cardinality(SameUrl) = 1
  /\ \E c \in SameUrl :
       IF \E s \in Sources : imp.work.marker[s] = c
       THEN Abort
       ELSE NextEntry([imp.work EXCEPT !.marker[Entry.key] = c], <<c>>)

\* A course of an administrator has the URL: it only gets the marker.  One that
\* was imported from another source violates UNIQUE(course_id).
ImportLinked ==
  /\ imp.phase = "entries" /\ imp.at <= Len(imp.file)
  /\ imp.work.marker[Entry.key] = NoCourse
  /\ Cardinality(SameUrl) = 1
  /\ \E c \in SameUrl :
       IF \E s \in Sources : imp.work.marker[s] = c
       THEN Abort
       ELSE NextEntry([imp.work EXCEPT !.marker[Entry.key] = c], << >>)

\* 409: the URL does not say which course is meant.
ImportAmbiguous ==
  /\ imp.phase = "entries" /\ imp.at <= Len(imp.file)
  /\ imp.work.marker[Entry.key] = NoCourse
  /\ Cardinality(SameUrl) > 1
  /\ Abort

ImportCreated ==
  /\ imp.phase = "entries" /\ imp.at <= Len(imp.file)
  /\ imp.work.marker[Entry.key] = NoCourse
  /\ SameUrl = {}
  /\ \E c \in Courses \ W!Existing :
       NextEntry([Named(imp.work, "technologies", Entry.technologies) EXCEPT
                    !.status[c] = "draft",
                    !.filled[c] = Entry.curated,
                    !.tags[c] = [k \in Kind |-> IF k = "categories" THEN {Entry.category}
                                                ELSE Entry.technologies],
                    !.url[c] = Entry.key,
                    !.marker[Entry.key] = c],
                 <<c>>)

EntriesDone ==
  /\ imp.phase = "entries" /\ imp.at > Len(imp.file)
  /\ imp' = [imp EXCEPT !.phase = "publishing",
                        !.index = Len(imp.pending), !.progress = FALSE]
  /\ UNCHANGED <<db, lock, imports>>

\* Faulty variant: skips hasUnpublishedPrerequisites.
MayPublishEarly(c) ==
  /\ imp.work.status[c] = "draft"
  /\ imp.work.filled[c] /\ \A k \in Kind : imp.work.tags[c][k] # {}

\* publishReasons finds nothing.
MayPublish(c) ==
  /\ imp.work.status[c] = "draft"
  /\ W!Publishable(imp.work.filled[c], imp.work.tags[c], imp.work.prereqs[c])

Without(seq, i) == SubSeq(seq, 1, i - 1) \o SubSeq(seq, i + 1, Len(seq))

\* One turn of the loop over the pending courses, from the last to the first.
PublishOne ==
  /\ imp.phase = "publishing" /\ imp.index > 0
  /\ LET c == imp.pending[imp.index]
     IN  imp' = IF MayPublish(c)
                THEN [imp EXCEPT !.index = @ - 1, !.progress = TRUE,
                                 !.pending = Without(@, imp.index),
                                 !.work.status[c] = "published"]
                ELSE [imp EXCEPT !.index = @ - 1]
  /\ UNCHANGED <<db, lock, imports>>

\* Faulty variant: a single pass.
SinglePass ==
  /\ imp.phase = "publishing" /\ imp.index = 0
  /\ imp' = [imp EXCEPT !.phase = "questionnaire"]
  /\ UNCHANGED <<db, lock, imports>>

\* Another pass while the last one published something.
PassDone ==
  /\ imp.phase = "publishing" /\ imp.index = 0
  /\ imp' = IF imp.pending # << >> /\ imp.progress
            THEN [imp EXCEPT !.index = Len(imp.pending), !.progress = FALSE]
            ELSE [imp EXCEPT !.phase = "questionnaire"]
  /\ UNCHANGED <<db, lock, imports>>

\* The initial questionnaire, made once, pins the file's categories and the
\* initial technologies.
WithQuestionnaire(work, used) ==
  IF work.form # NoTags THEN work
  ELSE [Named(work, "technologies", InitialTechnologies) EXCEPT
          !.form = [k \in Kind |-> IF k = "categories" THEN used ELSE InitialTechnologies]]

\* COMMIT, or 409 when a questionnaire would have no category to offer.
FinishImport ==
  /\ imp.phase = "questionnaire"
  /\ LET used == {imp.file[i].category : i \in DOMAIN imp.file}
         done == WithQuestionnaire(imp.work, used)
     IN  IF imp.work.form = NoTags /\ used = {}
         THEN Abort
         ELSE /\ taxonomy' = done.taxonomy /\ status' = done.status
              /\ filled' = done.filled /\ tags' = done.tags /\ prereqs' = done.prereqs
              /\ url' = done.url /\ marker' = done.marker /\ form' = done.form
              /\ imp' = Idle
              /\ ReleaseLock(Importer)
              /\ UNCHANGED imports

\* An error of the database, or the end of the process: nothing is written.
ImportFails ==
  /\ imp # Idle
  /\ Abort

ImportStep ==
  \/ ImportMarked \/ ImportLinked \/ ImportAmbiguous \/ ImportCreated \/ EntriesDone
  \/ PublishOne \/ PassDone \/ FinishImport

Import == BeginImport \/ ImportStep \/ ImportFails

-----------------------------------------------------------------------------
(* Properties.                                                             *)

\* The preview does not overpromise: on the same catalog, what it marks as
\* "would-publish" an import with the same options publishes, whatever the order
\* of the file, the fills in between and the links (initial-content.ts).
PlanNeverOverpromises ==
  imp.phase = "questionnaire" =>
    \A s \in imp.promised : imp.work.status[imp.work.marker[s]] = "published"

\* The import completes and never overrules: what an administrator wrote stays,
\* a course that is only linked stays exactly as it was, an archived or a
\* published course keeps its status, drafts are published only on request, and
\* no source is moved to another course.
ImportOnlyCompletes ==
  imp.phase = "questionnaire" =>
    LET old == Committed
        new == imp.work
        Changed == {c \in Existing : new.status[c] # old.status[c]}
        Touched == {c \in Existing : \E f \in {"filled", "tags", "prereqs", "url"} :
                                       new[f][c] # old[f][c]}
        Imported == {old.marker[s] : s \in Sources}
    IN /\ \A c \in Existing :
            /\ new.prereqs[c] = old.prereqs[c] /\ new.url[c] = old.url[c]
            /\ old.filled[c] => new.filled[c]
            /\ \A k \in Kind : old.tags[c][k] \in {{}, new.tags[c][k]}
       /\ Touched \subseteq (IF imp.fill THEN Imported ELSE {})
       /\ Changed \subseteq (IF imp.publish THEN Imported ELSE {})
       /\ \A c \in Changed : old.status[c] = "draft" /\ new.status[c] = "published"
       /\ \A s \in Sources : old.marker[s] \in {NoCourse, new.marker[s]}
=============================================================================
