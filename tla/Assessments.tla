----------------------------- MODULE Assessments ------------------------------
(***************************************************************************)
(* AssessmentsService for one questionnaire: administrators configure its    *)
(* evaluation, students fetch the form and submit answers, while the         *)
(* questionnaire is edited and catalog entries are deleted.                  *)
(*                                                                         *)
(* Configuring and submitting are transactions under REPEATABLE READ: they   *)
(* read the database as it was at their first statement ("snap") and write   *)
(* to the database as it is when they commit, where a row that changed since *)
(* fails the transaction.  The first statement of configure is the one that  *)
(* asks for the catalog lock: its snapshot is older than the lock it gets.   *)
(* Rows a transaction wrote and did not commit only make others wait, so     *)
(* the writes of a transaction are one step, its commit.  The definition or  *)
(* the answers of a request are chosen there too, where they are first used. *)
(***************************************************************************)
EXTENDS Evaluation, Sequences

CONSTANTS
  Students, Tx, NoTx,
  InitialQuestions,  \* the questions the questionnaire starts with
  NewQuestions,      \* ids of questions not created yet
  NewOptions,        \* ids of answer options not created yet
  EditTypes,         \* the types that edits give to questions
  Wordings,          \* titles, labels and sort orders, as one value
  Entries,           \* the catalog entries, per taxonomy
  Definitions,       \* what administrators may send to configure
  Sheets,            \* what students may answer
  MaxEdits, MaxVersion, MaxAssessments  \* bounds of the instance

\* Ids of edits are new, an optional technology is one at most, an answer to a
\* single choice one option.
ASSUME AssessmentsAssumption ==
  /\ NoTx \notin Tx
  /\ Entries = [category |-> Entries.category, technology |-> Entries.technology]
  /\ MaxVersion \in Nat /\ MaxAssessments \in Nat
  /\ EditTypes \subseteq QuestionType
  /\ NewQuestions \cap DOMAIN InitialQuestions = {}
  /\ InitialQuestions = [q \in DOMAIN InitialQuestions |-> InitialQuestions[q]]
  /\ \A q \in DOMAIN InitialQuestions :
       LET options == InitialQuestions[q].options
       IN /\ \E type \in QuestionType, b \in BOOLEAN :
               InitialQuestions[q] = [type |-> type, isActive |-> b, options |-> options]
          /\ options \cap NewOptions = {}
  /\ \A rules \in Definitions :
       \A q \in DOMAIN rules : \A s, t \in rules[q].technology : s = t
  /\ \A sheet \in Sheets : \A q \in DOMAIN sheet :
       LET v == sheet[q]
       IN /\ v.is = "option" => \E o \in v.chosen : v.chosen = {o}
          /\ v.is = "text" =>
               v = [is |-> "text", text |-> [body |-> v.text.body, size |-> v.text.size,
                                             blanks |-> v.text.blanks]]

VARIABLES
  questionnaire,  \* isActive, wording and questions, active or not
  unused,         \* ids of questions and options not created yet
  config,         \* the EvaluationConfig row; version 0 when there is none
  taxonomy,       \* the catalog entries that exist
  configRefs,     \* evaluation_taxonomy_refs of the configuration
  assessments,    \* the rows of self_assessments, each with its references
  fetched,        \* the last form each student fetched, if any
  lock,           \* the transaction that holds the catalog lock
  tx,             \* the transactions
  edits           \* edits of the questionnaire so far

vars == <<questionnaire, unused, config, taxonomy, configRefs, assessments,
          fetched, lock, tx, edits>>

editVars == <<questionnaire, unused, edits>>
evalVars == <<config, configRefs, assessments>>
Idle == [phase |-> "idle"]

-----------------------------------------------------------------------------
\* questionnaire(): the active questions, as the serializer lists them.
ActiveQuestions(qn) ==
  [q \in {r \in DOMAIN qn.questions : qn.questions[r].isActive} |->
     [type |-> qn.questions[q].type, options |-> qn.questions[q].options]]

\* What snapshot() needs to succeed.
FormAvailable(qn, cf) ==
  /\ qn.isActive
  /\ cf.version > 0
  /\ ValidDefinition(ActiveQuestions(qn), cf.rules)

\* snapshot(): the form, and all that its revision is a hash of.
Form(qn, cf) == [wording |-> qn.wording, questions |-> ActiveQuestions(qn),
                 rules |-> cf.rules, version |-> cf.version]

\* Faulty variant: the skills of a profile are not counted as references.
ProfileReferencesOfInterests(profile) ==
  [category |-> profile.categories, technology |-> profile.technologies]

\* saveProfileReferences: the catalog entries a profile names.
ProfileReferences(profile) ==
  [category |-> profile.categories,
   technology |-> profile.technologies \cup {s.technology : s \in profile.skills}]

\* validateReferences, and the foreign keys of evaluation_taxonomy_refs behind it.
Exist(refs) == \A k \in DOMAIN refs : refs[k] \subseteq taxonomy[k]

\* ON DELETE RESTRICT: the entries some reference row points at.
Referenced(k) ==
  configRefs[k] \cup UNION {assessments[i].refs[k] : i \in DOMAIN assessments}

-----------------------------------------------------------------------------
Init ==
  /\ questionnaire \in [isActive : {TRUE}, wording : Wordings,
                        questions : {InitialQuestions}]
  /\ unused = [questions |-> NewQuestions, options |-> NewOptions]
  /\ config = [version |-> 0, rules |-> << >>]
  /\ taxonomy = Entries
  /\ configRefs = [k \in DOMAIN Entries |-> {}]
  /\ assessments = << >>
  /\ fetched = [s \in Students |-> {}]
  /\ lock = NoTx
  /\ tx = [t \in Tx |-> Idle]
  /\ edits = 0

\* Faulty variant: the lock is one of the session, not of the transaction.
FinishKeepingLock(t) ==
  /\ tx' = [tx EXCEPT ![t] = Idle]
  /\ UNCHANGED lock

\* The transaction is over, and with it the lock if it holds it.
Finish(t) ==
  /\ tx' = [tx EXCEPT ![t] = Idle]
  /\ lock' = IF lock = t THEN NoTx ELSE lock

\* BEGIN and the first statement of configure, which is to wait for the lock.
BeginConfigure(t) ==
  /\ tx[t] = Idle
  /\ tx' = [tx EXCEPT ![t] =
       [phase |-> "waiting", questionnaire |-> questionnaire, config |-> config,
        taxonomy |-> taxonomy]]
  /\ UNCHANGED <<editVars, evalVars, taxonomy, fetched, lock>>

GetLock(t) ==
  /\ tx[t].phase = "waiting"
  /\ lock = NoTx
  /\ lock' = t
  /\ tx' = [tx EXCEPT ![t].phase = "locked"]
  /\ UNCHANGED <<editVars, evalVars, taxonomy, fetched>>

\* Faulty variant: under READ COMMITTED an update overwrites what it finds.
RowAnyVersion(seen) == TRUE

\* The configuration can be written: nobody has inserted or updated it since it
\* was read (otherwise 23505 or 40001).
RowUnchanged(seen) == config = seen

\* configure from the lock to COMMIT.
CommitConfigure(t, rules) ==
  /\ tx[t].phase = "locked"
  /\ tx[t].config.version < MaxVersion
  /\ LET snap == tx[t]
         refs == TaxonomyReferences(rules)
     IN /\ snap.questionnaire.isActive
        /\ ValidDefinition(ActiveQuestions(snap.questionnaire), rules)
        /\ \A k \in DOMAIN refs : refs[k] \subseteq snap.taxonomy[k]
        /\ RowUnchanged(snap.config)
        /\ Exist(refs)
        /\ config' = [version |-> snap.config.version + 1, rules |-> rules]
        /\ configRefs' = refs
  /\ Finish(t)
  /\ UNCHANGED <<editVars, taxonomy, assessments, fetched>>

\* getForm, a transaction that only reads.
GetForm(s) ==
  /\ FormAvailable(questionnaire, config)
  /\ fetched' = [fetched EXCEPT ![s] = {Form(questionnaire, config)}]
  /\ UNCHANGED <<editVars, evalVars, taxonomy, lock, tx>>

\* BEGIN and the first statement of submit: the student sends the revision of the
\* form fetched last, and answers.
BeginSubmit(t, s) ==
  /\ tx[t] = Idle
  /\ \E form \in fetched[s] :
       tx' = [tx EXCEPT ![t] =
         [phase |-> "submitting", revision |-> form,
          questionnaire |-> questionnaire, config |-> config]]
  /\ UNCHANGED <<editVars, evalVars, taxonomy, fetched, lock>>

\* Faulty variant: whatever form was fetched, the answers are evaluated.
SameRevisionUnchecked(form, revision) == TRUE

\* The revision of the request is the one of the snapshot.
SameRevision(form, revision) == form = revision

\* submit from its first statement to COMMIT.
CommitSubmit(t, sheet) ==
  /\ tx[t].phase = "submitting"
  /\ Len(assessments) < MaxAssessments
  /\ LET snap == tx[t]
         form == Form(snap.questionnaire, snap.config)
         answers == NormalSheet(sheet)
         profile == Profile(form.rules, answers)
     IN /\ FormAvailable(snap.questionnaire, snap.config)
        /\ SameRevision(form, snap.revision)
        /\ AcceptedSheet(form.questions, form.rules, sheet)
        /\ Exist(ProfileReferences(profile))
        /\ assessments' = Append(assessments,
             [snapshot |-> form, shown |-> snap.revision, answers |-> answers,
              profile |-> profile, refs |-> ProfileReferences(profile)])
  /\ Finish(t)
  /\ UNCHANGED <<editVars, config, configRefs, taxonomy, fetched>>

\* ROLLBACK: a check or a statement failed, or the connection or the process died.
Rollback(t) ==
  /\ tx[t] # Idle
  /\ Finish(t)
  /\ UNCHANGED <<editVars, evalVars, taxonomy, fetched>>

-----------------------------------------------------------------------------
(* Edits of the questionnaire: one saved row each, without the lock.  What   *)
(* two edits can do to each other is not the subject of this module.         *)

Edit(qn) ==
  /\ edits < MaxEdits
  /\ edits' = edits + 1
  /\ questionnaire' = qn
  /\ UNCHANGED <<evalVars, taxonomy, fetched, lock, tx>>

\* updateQuestionnaire, deactivateQuestionnaire, updateOption and the wording
\* that updateQuestion saves.
Reword(wording, isActive) ==
  /\ Edit([questionnaire EXCEPT !.wording = wording, !.isActive = isActive])
  /\ UNCHANGED unused

\* updateQuestion: a question with options stays a choice question.
UpdateQuestion(q, type, isActive) ==
  /\ q \in DOMAIN questionnaire.questions
  /\ LET old == questionnaire.questions[q]
     IN type # old.type /\ type \notin ChoiceTypes => old.options = {}
  /\ Edit([questionnaire EXCEPT !.questions[q].type = type,
                                !.questions[q].isActive = isActive])
  /\ UNCHANGED unused

\* createQuestion until its first save; the options it then saves are visible
\* later, like those of createOption.
CreateQuestion(q, type) ==
  /\ q \in unused.questions
  /\ unused' = [unused EXCEPT !.questions = @ \ {q}]
  /\ Edit([questionnaire EXCEPT !.questions =
       [p \in DOMAIN questionnaire.questions \cup {q} |->
          IF p = q THEN [type |-> type, isActive |-> TRUE, options |-> {}]
          ELSE questionnaire.questions[p]]])

\* createOption, and the second save of createQuestion.
CreateOption(q, o) ==
  /\ q \in DOMAIN questionnaire.questions
  /\ questionnaire.questions[q].type \in ChoiceTypes
  /\ o \in unused.options
  /\ unused' = [unused EXCEPT !.options = @ \ {o}]
  /\ Edit([questionnaire EXCEPT !.questions[q].options = @ \cup {o}])

\* deleteOption.
DeleteOption(q, o) ==
  /\ q \in DOMAIN questionnaire.questions
  /\ o \in questionnaire.questions[q].options
  /\ Edit([questionnaire EXCEPT !.questions[q].options = @ \ {o}])
  /\ UNCHANGED unused

\* deleteTaxonomy, in a transaction of the catalog that holds the lock.  That
\* courses may also refer to the entry only removes steps; entries created later
\* are named by nothing yet.
DeleteTaxonomy(k, e) ==
  /\ lock = NoTx
  /\ e \in taxonomy[k] \ Referenced(k)
  /\ taxonomy' = [taxonomy EXCEPT ![k] = @ \ {e}]
  /\ UNCHANGED <<editVars, evalVars, fetched, lock, tx>>

EditQuestionnaire ==
  \/ \E w \in Wordings, b \in BOOLEAN : Reword(w, b)
  \/ \E q \in DOMAIN questionnaire.questions, b \in BOOLEAN :
       \E type \in EditTypes \cup {questionnaire.questions[q].type} :
         UpdateQuestion(q, type, b)
  \/ \E q \in unused.questions, type \in EditTypes : CreateQuestion(q, type)
  \/ \E q \in DOMAIN questionnaire.questions, o \in unused.options : CreateOption(q, o)
  \/ \E q \in DOMAIN questionnaire.questions :
       \E o \in questionnaire.questions[q].options : DeleteOption(q, o)

Next ==
  \/ \E t \in Tx : BeginConfigure(t) \/ GetLock(t) \/ Rollback(t)
  \/ \E t \in Tx, rules \in Definitions : CommitConfigure(t, rules)
  \/ \E s \in Students : GetForm(s)
  \/ \E t \in Tx, s \in Students : BeginSubmit(t, s)
  \/ \E t \in Tx, sheet \in Sheets : CommitSubmit(t, sheet)
  \/ EditQuestionnaire
  \/ \E k \in DOMAIN taxonomy : \E e \in taxonomy[k] : DeleteTaxonomy(k, e)

Spec == Init /\ [][Next]_vars

-----------------------------------------------------------------------------
(* Properties.                                                             *)

\* Every variable has its type, the lock is held by a configuration between its
\* lock and its end, and an unused id is the id of nothing.
TypeOK ==
  /\ questionnaire.isActive \in BOOLEAN
  /\ questionnaire.wording \in Wordings
  /\ \A q \in DOMAIN questionnaire.questions :
       /\ questionnaire.questions[q].type \in QuestionType
       /\ questionnaire.questions[q].isActive \in BOOLEAN
       /\ questionnaire.questions[q].options \cap unused.options = {}
  /\ unused.questions \cap DOMAIN questionnaire.questions = {}
  /\ config.version \in 0 .. MaxVersion
  /\ config.version > 0 => config.rules \in Definitions
  /\ \A k \in DOMAIN Entries : taxonomy[k] \subseteq Entries[k]
  /\ \A t \in Tx : tx[t].phase \in {"idle", "waiting", "locked", "submitting"}
  /\ \A t \in Tx : lock = t <=> tx[t].phase = "locked"
  /\ \A s \in Students : Cardinality(fetched[s]) <= 1

\* A stored assessment is what the student did: its profile is the evaluation of
\* its answers under the very form the student was shown, although the
\* questionnaire and the configuration may change before, while and after it is
\* submitted (docs/assessments.md: the copy is the state the transaction read,
\* later changes never recompute a profile).  The stored answers alone, without
\* the request, give the profile again.
ProfileMatchesFormShown ==
  \A i \in DOMAIN assessments :
    LET a == assessments[i]
    IN /\ ValidDefinition(a.shown.questions, a.shown.rules)
       /\ AcceptedSheet(a.shown.questions, a.shown.rules, a.answers)
       /\ a.profile = Profile(a.shown.rules, a.answers)
       /\ a.answers = NormalSheet(a.answers)

\* profileVersion identifies the rules a profile was computed with: neither two
\* assessments nor an assessment and the current configuration have one version
\* and different rules, whatever configurations ran at the same time.
VersionNamesOneDefinition ==
  \A i \in DOMAIN assessments :
    LET a == assessments[i].snapshot
    IN /\ \A j \in DOMAIN assessments :
            assessments[j].snapshot.version = a.version =>
              assessments[j].snapshot.rules = a.rules
       /\ a.version <= config.version
       /\ a.version = config.version => a.rules = config.rules

\* Catalog entries that the configuration or a stored profile names exist (the
\* comment on evaluation_taxonomy_refs), although the definitions and profiles
\* are JSON that no foreign key looks into, deletions may commit while they are
\* computed, and configurations that no longer name an entry release it.
NamedEntriesExist ==
  /\ config.version > 0 => Exist(TaxonomyReferences(config.rules))
  /\ \A i \in DOMAIN assessments :
       LET p == assessments[i].profile
       IN /\ p.categories \subseteq taxonomy.category
          /\ p.technologies \subseteq taxonomy.technology
          /\ \A s \in p.skills : s.technology \in taxonomy.technology

\* A profile states one level for every skill its form asks about, and none for
\* any other technology: no question's answer is counted for two skills, none is
\* lost, and two questions never answer for one.
OneLevelPerSkill ==
  \A i \in DOMAIN assessments :
    LET skills == assessments[i].profile.skills
        rules == assessments[i].snapshot.rules
        asked == UNION {rules[q].technology : q \in DOMAIN rules}
    IN /\ {s.technology : s \in skills} = asked
       /\ \A t \in asked : Cardinality({s \in skills : s.technology = t}) = 1

\* Versions count the accepted configurations: a step that changes the
\* configuration gives it the next version, so that none is overwritten by one
\* that had not seen it.
ConfigurationsNeverLost ==
  [][config' # config => config'.version = config.version + 1]_vars
=============================================================================
