-------------------------- MODULE AssessmentsProofs --------------------------
(***************************************************************************)
(* Assessments for any definitions, answer sheets, transactions and edits:    *)
(* what a stored assessment says stays true, and what it names exists.       *)
(***************************************************************************)
EXTENDS Assessments, SequenceTheorems, FiniteSetTheorems, TLAPS

Taxonomies == {"category", "technology"}

IsSequence(s) == \E S : s \in Seq(S)

\* A stored assessment, whatever the database holds by now.
AssessmentOK(a) ==
  /\ a.shown = a.snapshot
  /\ a.snapshot.rules \in Definitions
  /\ ValidDefinition(a.snapshot.questions, a.snapshot.rules)
  /\ AcceptedSheet(a.snapshot.questions, a.snapshot.rules, a.answers)
  /\ a.answers = NormalSheet(a.answers)
  /\ \A q \in DOMAIN a.answers :
       a.answers[q].is = "option" =>
         \E o \in a.answers[q].chosen : a.answers[q].chosen = {o}
  /\ a.profile = Profile(a.snapshot.rules, a.answers)
  /\ a.refs = ProfileReferences(a.profile)

\* A transaction, which has read a configuration that was committed.
TxOK(x) ==
  /\ x.phase \in {"idle", "waiting", "locked", "submitting"}
  /\ x.phase \in {"waiting", "locked"} =>
       x = [phase |-> x.phase, questionnaire |-> x.questionnaire, config |-> x.config,
            taxonomy |-> x.taxonomy]
  /\ x.phase # "idle" /\ x.config.version > 0 => x.config.rules \in Definitions

\* The configurations somebody has seen.
Seen ==
  {config} \cup {tx[t].config : t \in {u \in Tx : tx[u].phase # "idle"}}
    \cup {assessments[i].snapshot : i \in DOMAIN assessments}

VersionsOK ==
  /\ config.version \in Nat
  /\ \A c \in Seen : c.version \in Nat /\ c.version <= config.version
  /\ \A c, d \in Seen : c.version = d.version => c.rules = d.rules

ConfigOK ==
  config.version > 0 =>
    config.rules \in Definitions /\ configRefs = TaxonomyReferences(config.rules)

\* The foreign keys.
RefsOK ==
  /\ DOMAIN taxonomy = Taxonomies
  /\ \A k \in Taxonomies : configRefs[k] \subseteq taxonomy[k]
  /\ \A i \in DOMAIN assessments, k \in Taxonomies :
       assessments[i].refs[k] \subseteq taxonomy[k]

AssessmentsInv ==
  /\ IsSequence(assessments)
  /\ \A i \in DOMAIN assessments : AssessmentOK(assessments[i])
  /\ DOMAIN tx = Tx /\ \A t \in Tx : TxOK(tx[t])
  /\ VersionsOK /\ ConfigOK /\ RefsOK

-----------------------------------------------------------------------------
(* Normal answers.                                                         *)

LEMMA NormalAnswer ==
  ASSUME NEW v,
         v.is = "text" =>
           v = [is |-> "text", text |-> [body |-> v.text.body, size |-> v.text.size,
                                         blanks |-> v.text.blanks]]
  PROVE  /\ Normal(v).is = v.is
         /\ Normal(v).is = "text" => Normal(v).text.size = v.text.size
         /\ Normal(v).is # "text" => Normal(v) = v
         /\ Normal(Normal(v)) = Normal(v)
<1>1. CASE v.is # "text"
  BY <1>1 DEF Normal
<1>2. CASE v.is = "text"
  <2>1. PICK b, s, n : v = [is |-> "text", text |-> [body |-> b, size |-> s, blanks |-> n]]
    BY <1>2
  <2>2. Normal(v) = [is |-> "text", text |-> [body |-> b, size |-> s, blanks |-> 0]]
    BY <2>1 DEF Normal, Trim
  <2>3. Normal(Normal(v)) = Normal(v)
    BY <2>2 DEF Normal, Trim
  <2>. QED BY <1>2, <2>1, <2>2, <2>3
<1>. QED BY <1>1, <1>2

LEMMA NormalSheets ==
  ASSUME NEW sheet \in Sheets, NEW questions, NEW rules,
         AcceptedSheet(questions, rules, sheet)
  PROVE  /\ AcceptedSheet(questions, rules, NormalSheet(sheet))
         /\ NormalSheet(sheet) = NormalSheet(NormalSheet(sheet))
         /\ \A q \in DOMAIN NormalSheet(sheet) :
              NormalSheet(sheet)[q].is = "option" =>
                \E o \in NormalSheet(sheet)[q].chosen : NormalSheet(sheet)[q].chosen = {o}
<1>. DEFINE n == NormalSheet(sheet)
<1>1. DOMAIN n = DOMAIN sheet /\ \A q \in DOMAIN sheet : n[q] = Normal(sheet[q])
  BY DEF NormalSheet
<1>2. ASSUME NEW q \in DOMAIN sheet
      PROVE  /\ n[q].is = sheet[q].is
             /\ n[q].is = "text" => n[q].text.size = sheet[q].text.size
             /\ n[q].is # "text" => n[q] = sheet[q]
             /\ Normal(n[q]) = n[q]
  <2>1. sheet[q].is = "text" =>
          sheet[q] = [is |-> "text", text |-> [body |-> sheet[q].text.body,
                                               size |-> sheet[q].text.size,
                                               blanks |-> sheet[q].text.blanks]]
    BY AssessmentsAssumption
  <2>. QED BY <1>1, <2>1, NormalAnswer
<1>3. n = NormalSheet(n)
  <2>1. n = [q \in DOMAIN sheet |-> Normal(sheet[q])]
    BY DEF NormalSheet
  <2>2. NormalSheet(n) = [q \in DOMAIN sheet |-> Normal(n[q])]
    BY <1>1 DEF NormalSheet
  <2>. QED BY <1>1, <1>2, <2>1, <2>2
<1>4. \A q \in DOMAIN n : n[q].is = "option" => \E o \in n[q].chosen : n[q].chosen = {o}
  BY <1>1, <1>2, AssessmentsAssumption
<1>. HIDE DEF n
<1>5. ASSUME NEW q \in DOMAIN sheet, Accepted(questions[q], rules[q], sheet[q])
      PROVE  Accepted(questions[q], rules[q], n[q])
  BY <1>2, <1>5 DEF Accepted
<1>6. AcceptedSheet(questions, rules, n)
  BY <1>1, <1>5 DEF AcceptedSheet
<1>. QED BY <1>3, <1>4, <1>6 DEF n

\* A longer list of assessments.
LEMMA Appended ==
  ASSUME NEW s, IsSequence(s), NEW a
  PROVE  /\ IsSequence(Append(s, a))
         /\ \A i \in DOMAIN Append(s, a) :
              (i \in DOMAIN s /\ Append(s, a)[i] = s[i]) \/ Append(s, a)[i] = a
<1>1. PICK S : s \in Seq(S)
  BY DEF IsSequence
<1>2. s \in Seq(S \cup {a})
  BY <1>1
<1>3. Append(s, a) \in Seq(S \cup {a})
  BY <1>2
<1>4. \A i \in DOMAIN Append(s, a) :
        (i \in DOMAIN s /\ Append(s, a)[i] = s[i]) \/ Append(s, a)[i] = a
  BY <1>2
<1>. QED BY <1>3, <1>4 DEF IsSequence

-----------------------------------------------------------------------------
(* The steps.                                                              *)

\* A step that writes nothing an assessment depends on: it may begin or end a
\* transaction.
LEMMA QuietStep ==
  ASSUME AssessmentsInv, UNCHANGED <<evalVars, taxonomy>>,
         DOMAIN tx' = Tx, \A t \in Tx : TxOK(tx'[t]),
         \A t \in Tx : tx'[t].phase # "idle" =>
           \/ tx'[t].config = config
           \/ tx[t].phase # "idle" /\ tx'[t].config = tx[t].config
  PROVE  AssessmentsInv'
<1>1. UNCHANGED <<config, configRefs, assessments, taxonomy>>
  BY DEF evalVars
<1>2. Seen' \subseteq Seen
  BY <1>1 DEF Seen
<1>3. VersionsOK'
  BY <1>1, <1>2 DEF AssessmentsInv, VersionsOK
<1>4. ConfigOK' /\ RefsOK'
  BY <1>1 DEF AssessmentsInv, ConfigOK, RefsOK
<1>. QED BY <1>1, <1>3, <1>4 DEF AssessmentsInv

LEMMA IdleOK == TxOK(Idle) /\ Idle.phase = "idle"
BY DEF TxOK, Idle

\* One transaction begins, gets the lock or ends.
LEMMA OneTxChanges ==
  ASSUME AssessmentsInv, NEW t \in Tx, NEW x, tx' = [tx EXCEPT ![t] = x], TxOK(x),
         x.phase = "idle" \/ x.config = config
           \/ (tx[t].phase # "idle" /\ x.config = tx[t].config)
  PROVE  /\ DOMAIN tx' = Tx
         /\ \A u \in Tx : TxOK(tx'[u])
         /\ \A u \in Tx : tx'[u].phase # "idle" =>
              \/ tx'[u].config = config
              \/ tx[u].phase # "idle" /\ tx'[u].config = tx[u].config
BY DEF AssessmentsInv

LEMMA QuietTxStep ==
  ASSUME AssessmentsInv, NEW t \in Tx, NEW x, tx' = [tx EXCEPT ![t] = x], TxOK(x),
         x.phase = "idle" \/ x.config = config
           \/ (tx[t].phase # "idle" /\ x.config = tx[t].config),
         UNCHANGED <<evalVars, taxonomy>>
  PROVE  AssessmentsInv'
BY OneTxChanges, QuietStep

\* configure writes the version after the one it read, which is still the current
\* one: no configuration anybody has seen has the new version.
LEMMA CommitConfigureKeepsInv ==
  ASSUME AssessmentsInv, NEW t \in Tx, NEW rules \in Definitions, CommitConfigure(t, rules)
  PROVE  AssessmentsInv'
<1>1. /\ tx[t].config = config
      /\ config' = [version |-> config.version + 1, rules |-> rules]
      /\ configRefs' = TaxonomyReferences(rules)
      /\ Exist(TaxonomyReferences(rules))
      /\ UNCHANGED <<taxonomy, assessments>>
      /\ tx' = [tx EXCEPT ![t] = Idle]
  BY DEF CommitConfigure, RowUnchanged, Finish
<1>2. /\ DOMAIN tx' = Tx /\ \A u \in Tx : TxOK(tx'[u])
      /\ \A u \in Tx : tx'[u].phase # "idle" =>
           tx'[u].config = config \/ (tx[u].phase # "idle" /\ tx'[u].config = tx[u].config)
  BY <1>1, IdleOK, OneTxChanges
<1>3. Seen' \subseteq Seen \cup {config'}
  BY <1>1, <1>2 DEF Seen
<1>4. config.version \in Nat /\ config'.version = config.version + 1
  BY <1>1 DEF AssessmentsInv, VersionsOK
<1>5. VersionsOK'
  <2>1. \A c \in Seen : c.version \in Nat /\ c.version <= config.version
    BY DEF AssessmentsInv, VersionsOK
  <2>2. \A c \in Seen' : c.version \in Nat /\ c.version <= config'.version
    BY <1>3, <1>4, <2>1
  <2>3. \A c, d \in Seen' : c.version = d.version => c.rules = d.rules
    <3>1. \A c, d \in Seen : c.version = d.version => c.rules = d.rules
      BY DEF AssessmentsInv, VersionsOK
    <3>2. \A c \in Seen : c.version # config'.version
      BY <1>4, <2>1
    <3>. QED BY <1>3, <3>1, <3>2
  <2>. QED BY <1>4, <2>2, <2>3 DEF VersionsOK
<1>6. ConfigOK'
  BY <1>1 DEF ConfigOK
<1>7. RefsOK'
  BY <1>1 DEF AssessmentsInv, RefsOK, Exist, TaxonomyReferences, Taxonomies
<1>. QED BY <1>1, <1>2, <1>5, <1>6, <1>7 DEF AssessmentsInv

\* submit stores what it read in its first statement, with references that exist
\* when it commits.
LEMMA CommitSubmitKeepsInv ==
  ASSUME AssessmentsInv, NEW t \in Tx, NEW sheet \in Sheets, CommitSubmit(t, sheet)
  PROVE  AssessmentsInv'
<1>. DEFINE form == Form(tx[t].questionnaire, tx[t].config)
            answers == NormalSheet(sheet)
            profile == Profile(form.rules, answers)
            a == [snapshot |-> form, shown |-> tx[t].revision, answers |-> answers,
                  profile |-> profile, refs |-> ProfileReferences(profile)]
<1>1. /\ tx[t].phase = "submitting"
      /\ FormAvailable(tx[t].questionnaire, tx[t].config)
      /\ form = tx[t].revision
      /\ AcceptedSheet(form.questions, form.rules, sheet)
      /\ Exist(ProfileReferences(profile))
      /\ assessments' = Append(assessments, a)
      /\ UNCHANGED <<config, configRefs, taxonomy>>
      /\ tx' = [tx EXCEPT ![t] = Idle]
  BY DEF CommitSubmit, Finish, SameRevision
<1>2. /\ form.version = tx[t].config.version
      /\ form.rules = tx[t].config.rules
      /\ form.questions = ActiveQuestions(tx[t].questionnaire)
  BY DEF Form
<1>3. form.rules \in Definitions /\ ValidDefinition(form.questions, form.rules)
  BY <1>1, <1>2 DEF FormAvailable, AssessmentsInv, TxOK
<1>4. AssessmentOK(a)
  <2>1. /\ AcceptedSheet(form.questions, form.rules, answers)
        /\ answers = NormalSheet(answers)
        /\ \A q \in DOMAIN answers :
             answers[q].is = "option" => \E o \in answers[q].chosen : answers[q].chosen = {o}
    BY <1>1, NormalSheets
  <2>. HIDE DEF form, answers, profile
  <2>. QED BY <1>1, <1>3, <2>1 DEF AssessmentOK, profile
<1>. HIDE DEF a
<1>5. /\ IsSequence(assessments')
      /\ \A i \in DOMAIN assessments' :
           (i \in DOMAIN assessments /\ assessments'[i] = assessments[i]) \/ assessments'[i] = a
  BY <1>1, Appended DEF AssessmentsInv
<1>6. /\ DOMAIN tx' = Tx /\ \A u \in Tx : TxOK(tx'[u])
      /\ \A u \in Tx : tx'[u].phase # "idle" =>
           tx'[u].config = config \/ (tx[u].phase # "idle" /\ tx'[u].config = tx[u].config)
  BY <1>1, IdleOK, OneTxChanges
<1>7. a.snapshot = form /\ a.refs = ProfileReferences(profile)
  BY DEF a
<1>. HIDE DEF form, profile
<1>8. VersionsOK'
  <2>1. Seen' \subseteq Seen \cup {form}
    BY <1>1, <1>5, <1>6, <1>7 DEF Seen
  <2>2. tx[t].config \in Seen
    BY <1>1 DEF Seen
  <2>. QED BY <1>1, <1>2, <2>1, <2>2 DEF AssessmentsInv, VersionsOK
<1>9. RefsOK'
  <2>1. \A k \in Taxonomies : a.refs[k] \subseteq taxonomy[k]
    BY <1>1, <1>7 DEF Exist, ProfileReferences, Taxonomies
  <2>. QED BY <1>1, <1>5, <2>1 DEF AssessmentsInv, RefsOK
<1>10. ConfigOK'
  BY <1>1 DEF AssessmentsInv, ConfigOK
<1>. QED BY <1>4, <1>5, <1>6, <1>8, <1>9, <1>10 DEF AssessmentsInv

\* A deleted entry is one no reference row points at.
LEMMA DeleteTaxonomyKeepsInv ==
  ASSUME AssessmentsInv, NEW k \in DOMAIN taxonomy, NEW e \in taxonomy[k],
         DeleteTaxonomy(k, e)
  PROVE  AssessmentsInv'
<1>1. /\ UNCHANGED <<config, configRefs, assessments, tx>>
      /\ taxonomy' = [taxonomy EXCEPT ![k] = @ \ {e}]
      /\ e \notin Referenced(k)
  BY DEF DeleteTaxonomy, evalVars
<1>2. RefsOK'
  BY <1>1 DEF AssessmentsInv, RefsOK, Referenced
<1>3. VersionsOK' /\ ConfigOK'
  BY <1>1 DEF AssessmentsInv, VersionsOK, ConfigOK, Seen
<1>. QED BY <1>1, <1>2, <1>3 DEF AssessmentsInv

LEMMA StepKeepsInv == AssessmentsInv /\ [Next]_vars => AssessmentsInv'
<1>. SUFFICES ASSUME AssessmentsInv, [Next]_vars PROVE AssessmentsInv'
  OBVIOUS
<1>0. \A u \in Tx : TxOK(tx[u])
  BY DEF AssessmentsInv
<1>1. ASSUME NEW t \in Tx, BeginConfigure(t) PROVE AssessmentsInv'
  <2>. DEFINE x == [phase |-> "waiting", questionnaire |-> questionnaire,
                    config |-> config, taxonomy |-> taxonomy]
  <2>1. tx' = [tx EXCEPT ![t] = x] /\ UNCHANGED <<evalVars, taxonomy>>
    BY <1>1 DEF BeginConfigure
  <2>2. TxOK(x) /\ x.config = config
    BY DEF TxOK, AssessmentsInv, ConfigOK
  <2>. QED BY <2>1, <2>2, QuietTxStep
<1>2. ASSUME NEW t \in Tx, GetLock(t) PROVE AssessmentsInv'
  <2>. DEFINE x == [tx[t] EXCEPT !.phase = "locked"]
  <2>1. /\ tx[t].phase = "waiting" /\ tx' = [tx EXCEPT ![t] = x]
        /\ UNCHANGED <<evalVars, taxonomy>>
    BY <1>2 DEF GetLock
  <2>2. TxOK(x) /\ x.config = tx[t].config
    <3>1. PICK qn, cf, entries :
            tx[t] = [phase |-> "waiting", questionnaire |-> qn, config |-> cf,
                     taxonomy |-> entries]
      BY <1>0, <2>1 DEF TxOK
    <3>2. x = [phase |-> "locked", questionnaire |-> qn, config |-> cf,
               taxonomy |-> entries]
      BY <3>1
    <3>3. tx[t].config.version > 0 => tx[t].config.rules \in Definitions
      BY <1>0, <2>1 DEF TxOK
    <3>. HIDE DEF x
    <3>. QED BY <3>1, <3>2, <3>3 DEF TxOK
  <2>. QED BY <2>1, <2>2, QuietTxStep
<1>3. ASSUME NEW t \in Tx, Rollback(t) PROVE AssessmentsInv'
  BY <1>3, IdleOK, QuietTxStep DEF Rollback, Finish
<1>4. ASSUME NEW t \in Tx, NEW s \in Students, BeginSubmit(t, s) PROVE AssessmentsInv'
  <2>1. PICK form \in fetched[s] :
          /\ tx' = [tx EXCEPT ![t] =
               [phase |-> "submitting", revision |-> form,
                questionnaire |-> questionnaire, config |-> config]]
          /\ UNCHANGED <<evalVars, taxonomy>>
    BY <1>4 DEF BeginSubmit
  <2>. DEFINE x == [phase |-> "submitting", revision |-> form,
                    questionnaire |-> questionnaire, config |-> config]
  <2>2. TxOK(x) /\ x.config = config
    BY DEF TxOK, AssessmentsInv, ConfigOK
  <2>. QED BY <2>1, <2>2, QuietTxStep
<1>5. ASSUME UNCHANGED <<evalVars, taxonomy, tx>> PROVE AssessmentsInv'
  BY <1>0, <1>5, QuietStep DEF AssessmentsInv
<1>6. ASSUME NEW s \in Students, GetForm(s) PROVE AssessmentsInv'
  BY <1>5, <1>6 DEF GetForm
<1>7. CASE EditQuestionnaire
  <2>1. UNCHANGED evalVars /\ UNCHANGED taxonomy /\ UNCHANGED tx
    BY <1>7 DEF EditQuestionnaire, Reword, UpdateQuestion, CreateQuestion,
                CreateOption, DeleteOption, Edit
  <2>. QED BY <1>5, <2>1
<1>8. CASE UNCHANGED vars
  BY <1>5, <1>8 DEF vars, evalVars
<1>. QED BY <1>1, <1>2, <1>3, <1>4, <1>6, <1>7, <1>8, CommitConfigureKeepsInv,
            CommitSubmitKeepsInv, DeleteTaxonomyKeepsInv DEF Next

LEMMA InitEstablishesInv == Init => AssessmentsInv
<1>. SUFFICES ASSUME Init PROVE AssessmentsInv
  OBVIOUS
<1>1. config = [version |-> 0, rules |-> << >>] /\ tx = [t \in Tx |-> Idle]
  BY DEF Init
<1>2. assessments = << >> /\ DOMAIN assessments = {} /\ IsSequence(assessments)
  <2>1. assessments = << >> /\ assessments \in Seq({})
    BY DEF Init
  <2>. QED BY <2>1 DEF IsSequence
<1>3. Seen = {config}
  BY <1>1, <1>2, IdleOK DEF Seen
<1>4. VersionsOK /\ ConfigOK
  BY <1>1, <1>3 DEF VersionsOK, ConfigOK
<1>5. RefsOK
  <2>1. taxonomy = Entries /\ configRefs = [k \in DOMAIN Entries |-> {}]
    BY DEF Init
  <2>2. DOMAIN Entries = Taxonomies
    BY AssessmentsAssumption DEF Taxonomies
  <2>. QED BY <1>2, <2>1, <2>2 DEF RefsOK
<1>. QED BY <1>1, <1>2, <1>4, <1>5, IdleOK DEF AssessmentsInv

LEMMA InvHolds == Spec => []AssessmentsInv
BY InitEstablishesInv, StepKeepsInv, PTL DEF Spec

-----------------------------------------------------------------------------
(* The theorems.                                                           *)

\* submit (assessments.service.ts): a stored assessment is the evaluation of its
\* answers under the form the student was shown, whatever was edited meanwhile.
THEOREM ProfilesMatchForms == Spec => []ProfileMatchesFormShown
<1>1. AssessmentsInv => ProfileMatchesFormShown
  BY DEF AssessmentsInv, AssessmentOK, ProfileMatchesFormShown
<1>. QED BY <1>1, InvHolds, PTL

\* profileVersion and configure: one version is one definition.
THEOREM VersionsNameDefinitions == Spec => []VersionNamesOneDefinition
<1>1. AssessmentsInv => VersionNamesOneDefinition
  <2>. SUFFICES ASSUME AssessmentsInv PROVE VersionNamesOneDefinition
    OBVIOUS
  <2>1. config \in Seen /\ \A i \in DOMAIN assessments : assessments[i].snapshot \in Seen
    BY DEF Seen
  <2>. QED BY <2>1 DEF AssessmentsInv, VersionsOK, VersionNamesOneDefinition
<1>. QED BY <1>1, InvHolds, PTL

\* evaluation_taxonomy_refs: what a definition or a profile names in its JSON is
\* not deleted.
THEOREM NamedEntriesStay == Spec => []NamedEntriesExist
<1>1. AssessmentsInv => NamedEntriesExist
  <2>. SUFFICES ASSUME AssessmentsInv PROVE NamedEntriesExist
    OBVIOUS
  <2>1. config.version > 0 => Exist(TaxonomyReferences(config.rules))
    BY DEF AssessmentsInv, ConfigOK, RefsOK, Exist, TaxonomyReferences, Taxonomies
  <2>2. ASSUME NEW i \in DOMAIN assessments
        PROVE  LET p == assessments[i].profile
               IN /\ p.categories \subseteq taxonomy.category
                  /\ p.technologies \subseteq taxonomy.technology
                  /\ \A s \in p.skills : s.technology \in taxonomy.technology
    <3>1. /\ ProfileReferences(assessments[i].profile)["category"] \subseteq taxonomy["category"]
          /\ ProfileReferences(assessments[i].profile)["technology"]
               \subseteq taxonomy["technology"]
      BY DEF AssessmentsInv, AssessmentOK, RefsOK, Taxonomies
    <3>. QED BY <3>1 DEF ProfileReferences
  <2>. QED BY <2>1, <2>2 DEF NamedEntriesExist
<1>. QED BY <1>1, InvHolds, PTL

\* configure: no configuration is overwritten by one that had not seen it.
THEOREM ConfigurationsStay == Spec => ConfigurationsNeverLost
<1>1. [Next]_vars => [config' # config => config'.version = config.version + 1]_vars
  <2>. SUFFICES ASSUME [Next]_vars, config' # config
                PROVE  config'.version = config.version + 1
    OBVIOUS
  <2>1. ASSUME NEW t \in Tx, NEW rules \in Definitions, CommitConfigure(t, rules)
        PROVE  config'.version = config.version + 1
    BY <2>1 DEF CommitConfigure, RowUnchanged
  <2>2. CASE EditQuestionnaire
    BY <2>2 DEF EditQuestionnaire, Reword, UpdateQuestion, CreateQuestion,
                CreateOption, DeleteOption, Edit, evalVars
  <2>. QED BY <2>1, <2>2 DEF Next, vars, evalVars, BeginConfigure, GetLock, Rollback,
             GetForm, BeginSubmit, CommitSubmit, DeleteTaxonomy
<1>. QED BY <1>1, PTL DEF Spec, ConfigurationsNeverLost

\* validateDefinition and evaluate: no skill a form asks about is left out of a
\* profile or gets two levels, and no other skill gets one.
THEOREM SkillsHaveOneLevel == Spec => []OneLevelPerSkill
<1>1. ASSUME NEW a, AssessmentOK(a), NEW q \in DOMAIN a.snapshot.rules,
             NEW t \in a.snapshot.rules[q].technology
      PROVE  Cardinality({s \in a.profile.skills : s.technology = t}) = 1
  <2>. DEFINE rules == a.snapshot.rules
              Values(p) == IF p \in DOMAIN a.answers
                           THEN {rules[p].options[o] : o \in Chosen(rules, a.answers, p)}
                           ELSE {[is |-> "null"]}
              found == {s \in Skills(rules, a.answers) : s.technology = t}
  <2>1. /\ rules \in Definitions
        /\ ValidDefinition(a.snapshot.questions, rules)
        /\ AcceptedSheet(a.snapshot.questions, rules, a.answers)
        /\ a.profile.skills = Skills(rules, a.answers)
    BY <1>1 DEF AssessmentOK, Profile
  <2>2. \A p \in DOMAIN rules : t \in rules[p].technology => rules[p].technology = {t}
    BY <2>1, AssessmentsAssumption
  <2>3. ASSUME NEW p \in DOMAIN rules, t \in rules[p].technology
        PROVE  p \in SkillQuestions(rules) /\ p = q
    <3>1. \A r \in DOMAIN rules : t \in rules[r].technology => r \in SkillQuestions(rules)
      BY <2>1 DEF ValidDefinition, ValidRule, SkillQuestions
    <3>2. rules[p].technology = rules[q].technology
      BY <2>2, <2>3
    <3>. QED BY <2>1, <2>3, <3>1, <3>2 DEF ValidDefinition
  <2>4. a.snapshot.questions[q].type = "single_choice" /\ rules[q].kind = "self_reported_skill"
    BY <2>1, <2>3 DEF ValidDefinition, ValidRule, SkillQuestions
  <2>5. \E v : Values(q) = {v}
    <3>1. CASE q \notin DOMAIN a.answers
      BY <3>1
    <3>2. CASE q \in DOMAIN a.answers
      <4>1. a.answers[q].is = "option"
        BY <2>1, <2>4, <3>2 DEF AcceptedSheet, ValidDefinition, Accepted
      <4>2. PICK o \in a.answers[q].chosen : a.answers[q].chosen = {o}
        BY <1>1, <3>2, <4>1 DEF AssessmentOK
      <4>3. Chosen(rules, a.answers, q) = {o}
        BY <2>4, <4>1, <4>2 DEF Chosen
      <4>4. Values(q) = {rules[q].options[o]}
        BY <3>2, <4>3
      <4>. QED BY <4>4
    <3>. QED BY <3>1, <3>2
  <2>6. Skills(rules, a.answers) =
          UNION {{[technology |-> u, level |-> v] : u \in rules[p].technology, v \in Values(p)} :
                   p \in SkillQuestions(rules)}
    BY DEF Skills
  <2>7. q \in SkillQuestions(rules) /\ SkillQuestions(rules) \subseteq DOMAIN rules
    BY <2>3 DEF SkillQuestions
  <2>8. PICK v : Values(q) = {v}
    BY <2>5
  <2>. HIDE DEF Values, rules
  <2>9. found = {[technology |-> t, level |-> v]}
    <3>1. [technology |-> t, level |-> v] \in found
      BY <2>6, <2>7, <2>8 DEF rules
    <3>2. ASSUME NEW s \in found PROVE s = [technology |-> t, level |-> v]
      <4>1. PICK p \in SkillQuestions(rules) :
              \E u \in rules[p].technology, w \in Values(p) : s = [technology |-> u, level |-> w]
        BY <2>6
      <4>2. t \in rules[p].technology
        BY <4>1
      <4>3. p = q
        BY <2>3, <2>7, <4>2 DEF rules
      <4>. QED BY <2>8, <4>1, <4>2, <4>3
    <3>. QED BY <3>1, <3>2
  <2>. QED BY <2>1, <2>9, FS_Singleton
<1>3. ASSUME NEW a, AssessmentOK(a), NEW s \in a.profile.skills
      PROVE  \E q \in DOMAIN a.snapshot.rules : s.technology \in a.snapshot.rules[q].technology
  <2>. DEFINE rules == a.snapshot.rules
              Values(p) == IF p \in DOMAIN a.answers
                           THEN {rules[p].options[o] : o \in Chosen(rules, a.answers, p)}
                           ELSE {[is |-> "null"]}
  <2>1. a.profile.skills = Skills(rules, a.answers)
    BY <1>3 DEF AssessmentOK, Profile
  <2>2. Skills(rules, a.answers) =
          UNION {{[technology |-> u, level |-> v] : u \in rules[p].technology, v \in Values(p)} :
                   p \in SkillQuestions(rules)}
    BY DEF Skills
  <2>. HIDE DEF Values, rules
  <2>3. PICK p \in SkillQuestions(rules) :
          \E u \in rules[p].technology, w \in Values(p) : s = [technology |-> u, level |-> w]
    BY <1>3, <2>1, <2>2
  <2>4. s.technology \in rules[p].technology
    BY <2>3
  <2>5. p \in DOMAIN rules
    BY <2>3 DEF SkillQuestions
  <2>. QED BY <2>4, <2>5 DEF rules
<1>2. AssessmentsInv => OneLevelPerSkill
  <2>. SUFFICES ASSUME AssessmentsInv, NEW i \in DOMAIN assessments
                PROVE  LET skills == assessments[i].profile.skills
                           rules == assessments[i].snapshot.rules
                           asked == UNION {rules[q].technology : q \in DOMAIN rules}
                       IN  /\ {s.technology : s \in skills} = asked
                           /\ \A t \in asked :
                                Cardinality({s \in skills : s.technology = t}) = 1
    BY DEF OneLevelPerSkill
  <2>. DEFINE skills == assessments[i].profile.skills
              rules == assessments[i].snapshot.rules
              asked == UNION {rules[q].technology : q \in DOMAIN rules}
  <2>1. AssessmentOK(assessments[i])
    BY DEF AssessmentsInv
  <2>2. \A t \in asked : Cardinality({s \in skills : s.technology = t}) = 1
    BY <1>1, <2>1
  <2>3. \A s \in skills : s.technology \in asked
    BY <1>3, <2>1
  <2>4. ASSUME NEW t \in asked PROVE \E s \in skills : s.technology = t
    <3>1. {s \in skills : s.technology = t} # {}
      BY <2>2, FS_EmptySet
    <3>. QED BY <3>1
  <2>. HIDE DEF skills, asked
  <2>5. {s.technology : s \in skills} = asked
    BY <2>3, <2>4
  <2>. QED BY <2>2, <2>5 DEF skills, asked
<1>. QED BY <1>2, InvHolds, PTL

-----------------------------------------------------------------------------
(* Types.                                                                  *)

\* A questionnaire and the ids that are free for its edits.
QuestionOK(question, free) ==
  \E type \in QuestionType, active \in BOOLEAN :
    /\ question = [type |-> type, isActive |-> active, options |-> question.options]
    /\ question.options \cap free = {}

FormOK(qn, un) ==
  \E active \in BOOLEAN, wording \in Wordings :
    /\ qn = [isActive |-> active, wording |-> wording, questions |-> qn.questions]
    /\ qn.questions = [q \in DOMAIN qn.questions |-> qn.questions[q]]
    /\ \A q \in DOMAIN qn.questions : QuestionOK(qn.questions[q], un.options)
    /\ un = [questions |-> un.questions, options |-> un.options]
    /\ un.questions \cap DOMAIN qn.questions = {}

LockOK ==
  /\ lock \in Tx \cup {NoTx}
  /\ \A t \in Tx : lock = t <=> tx[t].phase = "locked"

FetchedOK == DOMAIN fetched = Students /\ \A s \in Students : \A f, g \in fetched[s] : f = g

TypeInv ==
  /\ FormOK(questionnaire, unused)
  /\ config.version \in 0 .. MaxVersion
  /\ DOMAIN taxonomy = DOMAIN Entries
  /\ \A k \in DOMAIN Entries : taxonomy[k] \subseteq Entries[k]
  /\ LockOK /\ FetchedOK

LEMMA QuestionParts ==
  ASSUME NEW question, NEW free, QuestionOK(question, free)
  PROVE  /\ question.type \in QuestionType /\ question.isActive \in BOOLEAN
         /\ question = [type |-> question.type, isActive |-> question.isActive,
                        options |-> question.options]
         /\ question.options \cap free = {}
<1>1. PICK t \in QuestionType, b \in BOOLEAN :
        question = [type |-> t, isActive |-> b, options |-> question.options]
  BY DEF QuestionOK
<1>2. question.type = t /\ question.isActive = b
  BY <1>1
<1>. QED BY <1>1, <1>2 DEF QuestionOK

\* A change of one question.
LEMMA QuestionChanges ==
  ASSUME NEW qn, NEW un, NEW free, FormOK(qn, un), free \subseteq un.options,
         NEW q \in DOMAIN qn.questions, NEW new, QuestionOK(new, free)
  PROVE  FormOK([qn EXCEPT !.questions = [@ EXCEPT ![q] = new]], [un EXCEPT !.options = free])
<1>1. PICK active \in BOOLEAN, wording \in Wordings :
        qn = [isActive |-> active, wording |-> wording, questions |-> qn.questions]
  BY DEF FormOK
<1>2. PICK f : f = qn.questions
  OBVIOUS
<1>3. PICK ids, options : un = [questions |-> ids, options |-> options]
  BY DEF FormOK
<1>4. /\ DOMAIN f = DOMAIN qn.questions /\ ids \cap DOMAIN f = {}
      /\ \A p \in DOMAIN f : QuestionOK(f[p], options)
      /\ f = [p \in DOMAIN f |-> f[p]]
  BY <1>2, <1>3 DEF FormOK
<1>. DEFINE g == [f EXCEPT ![q] = new]
<1>5. /\ [qn EXCEPT !.questions = [@ EXCEPT ![q] = new]]
           = [isActive |-> active, wording |-> wording, questions |-> g]
      /\ [un EXCEPT !.options = free] = [questions |-> ids, options |-> free]
  BY <1>1, <1>2, <1>3
<1>6. /\ DOMAIN g = DOMAIN f /\ g = [p \in DOMAIN g |-> g[p]]
      /\ \A p \in DOMAIN g : g[p] = IF p = q THEN new ELSE f[p]
  BY <1>2, <1>4
<1>7. \A p \in DOMAIN f : QuestionOK(f[p], free)
  BY <1>3, <1>4 DEF QuestionOK
<1>. HIDE DEF g
<1>. QED BY <1>4, <1>5, <1>6, <1>7 DEF FormOK

LEMMA EditKeepsForm ==
  ASSUME FormOK(questionnaire, unused), EditQuestionnaire,
         EditTypes \subseteq QuestionType
  PROVE  FormOK(questionnaire', unused')
<1>. DEFINE qn == questionnaire
<1>1. PICK active \in BOOLEAN, wording \in Wordings :
        qn = [isActive |-> active, wording |-> wording, questions |-> qn.questions]
  BY DEF FormOK
<1>2. PICK ids, options : unused = [questions |-> ids, options |-> options]
  BY DEF FormOK
<1>3. /\ \A p \in DOMAIN qn.questions : QuestionOK(qn.questions[p], options)
      /\ ids \cap DOMAIN qn.questions = {}
      /\ qn.questions = [p \in DOMAIN qn.questions |-> qn.questions[p]]
  BY <1>2 DEF FormOK
<1>4. ASSUME NEW w \in Wordings, NEW b \in BOOLEAN, Reword(w, b)
      PROVE  FormOK(questionnaire', unused')
  <2>1. questionnaire' = [qn EXCEPT !.wording = w, !.isActive = b] /\ unused' = unused
    BY <1>4 DEF Reword, Edit
  <2>2. PICK f : f = qn.questions
    OBVIOUS
  <2>3. questionnaire' = [isActive |-> b, wording |-> w, questions |-> f]
    BY <1>1, <2>1, <2>2
  <2>. QED BY <1>2, <1>3, <2>1, <2>2, <2>3 DEF FormOK
<1>5. ASSUME NEW q \in DOMAIN qn.questions, NEW type \in QuestionType, NEW b \in BOOLEAN,
             UpdateQuestion(q, type, b)
      PROVE  FormOK(questionnaire', unused')
  <2>1. questionnaire' = [qn EXCEPT !.questions[q].type = type,
                                    !.questions[q].isActive = b] /\ unused' = unused
    BY <1>5 DEF UpdateQuestion, Edit
  <2>2. PICK t0, b0, o0 : qn.questions[q] = [type |-> t0, isActive |-> b0, options |-> o0]
                          /\ o0 \cap options = {}
    <3>1. QuestionOK(qn.questions[q], options)
      BY <1>3, <1>5
    <3>2. PICK r : r = qn.questions[q]
      OBVIOUS
    <3>3. /\ r.type \in QuestionType /\ r.isActive \in BOOLEAN
          /\ r = [type |-> r.type, isActive |-> r.isActive, options |-> r.options]
          /\ r.options \cap options = {}
      BY <3>1, <3>2, QuestionParts
    <3>. QED BY <3>2, <3>3
  <2>. DEFINE new == [type |-> type, isActive |-> b, options |-> o0]
  <2>3. PICK f : f = qn.questions
    OBVIOUS
  <2>4. questionnaire' = [qn EXCEPT !.questions = [@ EXCEPT ![q] = new]]
    <3>. DEFINE g == [f EXCEPT ![q].type = type, ![q].isActive = b]
    <3>2. questionnaire' = [isActive |-> active, wording |-> wording, questions |-> g]
      <4>1. PICK a, w : qn = [isActive |-> a, wording |-> w, questions |-> f]
                        /\ a = active /\ w = wording
        BY <1>1, <2>3
      <4>. HIDE DEF qn
      <4>. QED BY <4>1, <2>1
    <3>3. g = [f EXCEPT ![q] = [[f[q] EXCEPT !.type = type] EXCEPT !.isActive = b]]
      BY <1>3, <2>3
    <3>4. [[f[q] EXCEPT !.type = type] EXCEPT !.isActive = b] = new
      <4>1. PICK r : r = f[q]
        OBVIOUS
      <4>2. r = [type |-> t0, isActive |-> b0, options |-> o0]
        BY <2>2, <2>3, <4>1
      <4>3. [r EXCEPT !.type = type] = [type |-> type, isActive |-> b0, options |-> o0]
        BY <4>2
      <4>4. [[type |-> type, isActive |-> b0, options |-> o0] EXCEPT !.isActive = b] = new
        OBVIOUS
      <4>. QED BY <4>1, <4>3, <4>4
    <3>1. questionnaire' = [isActive |-> active, wording |-> wording,
                            questions |-> [f EXCEPT ![q] = new]]
      BY <3>2, <3>3, <3>4
    <3>. QED BY <1>1, <2>3, <3>1
  <2>5. QuestionOK(new, options) /\ [unused EXCEPT !.options = options] = unused'
        /\ options \subseteq unused.options
    BY <1>2, <2>1, <2>2 DEF QuestionOK
  <2>. HIDE DEF new
  <2>. QED BY <2>4, <2>5, QuestionChanges
<1>6. ASSUME NEW q \in unused.questions, NEW type \in QuestionType, CreateQuestion(q, type)
      PROVE  FormOK(questionnaire', unused')
  <2>. DEFINE new == [type |-> type, isActive |-> TRUE, options |-> {}]
              g == [p \in DOMAIN qn.questions \cup {q} |->
                      IF p = q THEN new ELSE qn.questions[p]]
  <2>1. /\ questionnaire' = [qn EXCEPT !.questions = g]
        /\ unused' = [unused EXCEPT !.questions = @ \ {q}]
    BY <1>6 DEF CreateQuestion, Edit
  <2>2. QuestionOK(new, options)
    BY DEF QuestionOK
  <2>3. /\ DOMAIN g = DOMAIN qn.questions \cup {q} /\ g = [p \in DOMAIN g |-> g[p]]
        /\ \A p \in DOMAIN g : g[p] = IF p = q THEN new ELSE qn.questions[p]
    OBVIOUS
  <2>. HIDE DEF g, new
  <2>4. /\ questionnaire' = [isActive |-> active, wording |-> wording, questions |-> g]
        /\ unused' = [questions |-> ids \ {q}, options |-> options]
    BY <1>1, <1>2, <2>1
  <2>. QED BY <1>2, <1>3, <2>2, <2>3, <2>4 DEF FormOK
<1>7. ASSUME NEW q \in DOMAIN qn.questions, NEW o, NEW free, free \subseteq options,
             NEW chosen, chosen \cap free = {},
             questionnaire' = [qn EXCEPT !.questions[q].options = chosen],
             unused' = [unused EXCEPT !.options = free]
      PROVE  FormOK(questionnaire', unused')
  <2>1. PICK t0, b0, o0 : /\ t0 \in QuestionType /\ b0 \in BOOLEAN
                          /\ qn.questions[q] = [type |-> t0, isActive |-> b0, options |-> o0]
    <3>1. QuestionOK(qn.questions[q], options)
      BY <1>3, <1>7
    <3>2. PICK r : r = qn.questions[q]
      OBVIOUS
    <3>3. /\ r.type \in QuestionType /\ r.isActive \in BOOLEAN
          /\ r = [type |-> r.type, isActive |-> r.isActive, options |-> r.options]
          /\ r.options \cap options = {}
      BY <3>1, <3>2, QuestionParts
    <3>. QED BY <3>2, <3>3
  <2>. DEFINE new == [type |-> t0, isActive |-> b0, options |-> chosen]
  <2>2. PICK f : f = qn.questions
    OBVIOUS
  <2>3. questionnaire' = [qn EXCEPT !.questions = [@ EXCEPT ![q] = new]]
    <3>1. questionnaire' = [isActive |-> active, wording |-> wording,
                            questions |-> [f EXCEPT ![q] = new]]
      BY <1>1, <1>7, <2>1, <2>2
    <3>. QED BY <1>1, <2>2, <3>1
  <2>4. QuestionOK(new, free) /\ free \subseteq unused.options
    <3>1. new.options \cap free = {} /\ new = [type |-> t0, isActive |-> b0, options |-> new.options]
      BY <1>7
    <3>2. QuestionOK(new, free)
      BY <2>1, <3>1 DEF QuestionOK
    <3>. QED BY <1>2, <1>7, <3>2
  <2>. HIDE DEF new
  <2>. QED BY <1>7, <2>3, <2>4, QuestionChanges
<1>8. ASSUME NEW q \in DOMAIN qn.questions, NEW o \in unused.options, CreateOption(q, o)
      PROVE  FormOK(questionnaire', unused')
  <2>. DEFINE chosen == qn.questions[q].options \cup {o}
              free == unused.options \ {o}
  <2>1. /\ questionnaire' = [qn EXCEPT !.questions[q].options = chosen]
        /\ unused' = [unused EXCEPT !.options = free]
    BY <1>8 DEF CreateOption, Edit
  <2>2. chosen \cap free = {} /\ free \subseteq options
    BY <1>2, <1>3, QuestionParts
  <2>. HIDE DEF chosen, free
  <2>. QED BY <1>7, <2>1, <2>2
<1>9. ASSUME NEW q \in DOMAIN qn.questions, NEW o, DeleteOption(q, o)
      PROVE  FormOK(questionnaire', unused')
  <2>. DEFINE chosen == qn.questions[q].options \ {o}
  <2>1. /\ questionnaire' = [qn EXCEPT !.questions[q].options = chosen]
        /\ unused' = unused
    BY <1>9 DEF DeleteOption, Edit
  <2>2. chosen \cap options = {} /\ [unused EXCEPT !.options = options] = unused
    BY <1>2, <1>3, QuestionParts
  <2>. HIDE DEF chosen
  <2>. QED BY <1>7, <2>1, <2>2
<1>10. \A q \in DOMAIN qn.questions : qn.questions[q].type \in QuestionType
  BY <1>3, QuestionParts
<1>. QED BY <1>4, <1>5, <1>6, <1>8, <1>9, <1>10 DEF EditQuestionnaire

LEMMA TypesInit == Init => TypeInv
<1>. SUFFICES ASSUME Init PROVE TypeInv
  OBVIOUS
<1>1. FormOK(questionnaire, unused)
  <2>1. PICK wording \in Wordings :
          questionnaire = [isActive |-> TRUE, wording |-> wording,
                           questions |-> InitialQuestions]
    BY DEF Init
  <2>2. /\ unused = [questions |-> NewQuestions, options |-> NewOptions]
        /\ InitialQuestions = [q \in DOMAIN InitialQuestions |-> InitialQuestions[q]]
        /\ NewQuestions \cap DOMAIN InitialQuestions = {}
    BY AssessmentsAssumption DEF Init
  <2>3. \A q \in DOMAIN InitialQuestions : QuestionOK(InitialQuestions[q], NewOptions)
    BY AssessmentsAssumption DEF QuestionOK
  <2>. QED BY <2>1, <2>2, <2>3 DEF FormOK
<1>2. LockOK
  BY AssessmentsAssumption DEF Init, LockOK, Idle
<1>. QED BY <1>1, <1>2, AssessmentsAssumption DEF Init, TypeInv, FetchedOK

LEMMA TypesNext == AssessmentsInv /\ TypeInv /\ [Next]_vars => TypeInv'
<1>. SUFFICES ASSUME AssessmentsInv, TypeInv, [Next]_vars PROVE TypeInv'
  OBVIOUS
<1>0. DOMAIN tx = Tx /\ \A t \in Tx : TxOK(tx[t])
  BY DEF AssessmentsInv
<1>1. FormOK(questionnaire', unused')
  <2>1. EditTypes \subseteq QuestionType
    BY AssessmentsAssumption
  <2>2. CASE UNCHANGED <<questionnaire, unused>>
    BY <2>2 DEF TypeInv
  <2>. QED BY <2>1, <2>2, EditKeepsForm DEF TypeInv, Next, vars, editVars, BeginConfigure, GetLock,
             Rollback, CommitConfigure, GetForm, BeginSubmit, CommitSubmit, DeleteTaxonomy
<1>2. config'.version \in 0 .. MaxVersion
  <2>1. ASSUME NEW t \in Tx, NEW rules \in Definitions, CommitConfigure(t, rules)
        PROVE  config'.version \in 0 .. MaxVersion
    <3>1. config' = [version |-> config.version + 1, rules |-> rules]
          /\ config.version < MaxVersion
      BY <2>1 DEF CommitConfigure, RowUnchanged
    <3>. QED BY <3>1, AssessmentsAssumption DEF TypeInv
  <2>2. CASE UNCHANGED config
    BY <2>2 DEF TypeInv
  <2>3. EditQuestionnaire => UNCHANGED config
    BY DEF EditQuestionnaire, Reword, UpdateQuestion, CreateQuestion, CreateOption,
           DeleteOption, Edit, evalVars
  <2>. QED BY <2>1, <2>2, <2>3 DEF Next, vars, evalVars, BeginConfigure, GetLock, Rollback,
             GetForm, BeginSubmit, CommitSubmit, DeleteTaxonomy
<1>3. DOMAIN taxonomy' = DOMAIN Entries /\ \A k \in DOMAIN Entries : taxonomy'[k] \subseteq Entries[k]
  <2>1. ASSUME NEW k \in DOMAIN taxonomy, NEW e \in taxonomy[k], DeleteTaxonomy(k, e)
        PROVE  DOMAIN taxonomy' = DOMAIN Entries
               /\ \A j \in DOMAIN Entries : taxonomy'[j] \subseteq Entries[j]
    BY <2>1 DEF DeleteTaxonomy, TypeInv
  <2>2. CASE UNCHANGED taxonomy
    BY <2>2 DEF TypeInv
  <2>3. EditQuestionnaire => UNCHANGED taxonomy
    BY DEF EditQuestionnaire, Reword, UpdateQuestion, CreateQuestion, CreateOption,
           DeleteOption, Edit
  <2>. QED BY <2>1, <2>2, <2>3 DEF Next, vars, BeginConfigure, GetLock, Rollback,
             CommitConfigure, GetForm, BeginSubmit, CommitSubmit
<1>4. LockOK'
  <2>. USE DEF LockOK
  <2>1. ASSUME NEW t \in Tx, Finish(t) PROVE LockOK'
    BY <1>0, <2>1, AssessmentsAssumption DEF Finish, Idle, TypeInv
  <2>2. ASSUME NEW t \in Tx, BeginConfigure(t) PROVE LockOK'
    BY <1>0, <2>2 DEF BeginConfigure, Idle, TypeInv
  <2>3. ASSUME NEW t \in Tx, GetLock(t) PROVE LockOK'
    <3>1. tx[t].phase = "waiting" /\ tx' = [tx EXCEPT ![t].phase = "locked"]
          /\ lock = NoTx /\ lock' = t
      BY <2>3 DEF GetLock
    <3>2. PICK q, c, e : tx[t] = [phase |-> "waiting", questionnaire |-> q, config |-> c,
                                  taxonomy |-> e]
      BY <1>0, <3>1 DEF TxOK
    <3>3. tx'[t].phase = "locked" /\ \A u \in Tx \ {t} : tx'[u] = tx[u]
      BY <1>0, <3>1, <3>2
    <3>. QED BY <3>1, <3>3, AssessmentsAssumption DEF TypeInv
  <2>4. ASSUME NEW t \in Tx, NEW s \in Students, BeginSubmit(t, s) PROVE LockOK'
    BY <1>0, <2>4 DEF BeginSubmit, Idle, TypeInv
  <2>5. CASE UNCHANGED <<lock, tx>>
    BY <2>5 DEF TypeInv
  <2>6. EditQuestionnaire => UNCHANGED lock /\ UNCHANGED tx
    BY DEF EditQuestionnaire, Reword, UpdateQuestion, CreateQuestion, CreateOption,
           DeleteOption, Edit
  <2>. QED BY <2>1, <2>2, <2>3, <2>4, <2>5, <2>6 DEF Next, vars, Rollback, CommitConfigure,
             CommitSubmit, GetForm, DeleteTaxonomy
<1>5. FetchedOK'
  <2>1. ASSUME NEW s \in Students, GetForm(s) PROVE FetchedOK'
    BY <2>1 DEF GetForm, FetchedOK, TypeInv
  <2>2. CASE UNCHANGED fetched
    BY <2>2 DEF FetchedOK, TypeInv
  <2>3. EditQuestionnaire => UNCHANGED fetched
    BY DEF EditQuestionnaire, Reword, UpdateQuestion, CreateQuestion, CreateOption,
           DeleteOption, Edit
  <2>. QED BY <2>1, <2>2, <2>3 DEF Next, vars, BeginConfigure, GetLock, Rollback,
             CommitConfigure, BeginSubmit, CommitSubmit, DeleteTaxonomy
<1>. QED BY <1>1, <1>2, <1>3, <1>4, <1>5 DEF TypeInv

\* The lock is held by a configuration from its lock to its end, an id is used
\* once, and no version is above the bound.
THEOREM AssessmentsTyped == Spec => []TypeOK
<1>1. AssessmentsInv /\ TypeInv => TypeOK
  <2>. SUFFICES ASSUME AssessmentsInv, TypeInv PROVE TypeOK
    OBVIOUS
  <2>1. /\ questionnaire.isActive \in BOOLEAN /\ questionnaire.wording \in Wordings
        /\ unused.questions \cap DOMAIN questionnaire.questions = {}
    BY DEF TypeInv, FormOK
  <2>2. ASSUME NEW q \in DOMAIN questionnaire.questions
        PROVE  /\ questionnaire.questions[q].type \in QuestionType
               /\ questionnaire.questions[q].isActive \in BOOLEAN
               /\ questionnaire.questions[q].options \cap unused.options = {}
    <3>1. QuestionOK(questionnaire.questions[q], unused.options)
      BY DEF TypeInv, FormOK
    <3>. QED BY <3>1 DEF QuestionOK
  <2>3. ASSUME NEW s \in Students PROVE Cardinality(fetched[s]) <= 1
    <3>1. fetched[s] = {} \/ \E f : fetched[s] = {f}
      BY DEF TypeInv, FetchedOK
    <3>2. CASE fetched[s] = {}
      BY <3>2, FS_EmptySet
    <3>3. ASSUME NEW f, fetched[s] = {f} PROVE Cardinality(fetched[s]) <= 1
      <4>1. Cardinality({f}) = 1
        BY FS_Singleton
      <4>. QED BY <3>3, <4>1
    <3>. QED BY <3>1, <3>2, <3>3
  <2>. QED BY <2>1, <2>2, <2>3 DEF TypeOK, TypeInv, LockOK, AssessmentsInv, ConfigOK, TxOK
<1>. QED BY <1>1, TypesInit, TypesNext, InvHolds, PTL DEF Spec
=============================================================================
