------------------------- MODULE QuestionnairesProofs -------------------------
(***************************************************************************)
(* The adaptive rules for any questions, options, rules and edits: serial     *)
(* edits keep them, and a form that is served shows every active question.    *)
(***************************************************************************)
EXTENDS Questionnaires, TLAPS

Table == [Questions -> Row \cup {Unset}]
OptionTable(opts) == opts = [q \in Questions |-> opts[q]]

\* An edit knows which question it is about, and what it will write is a row.
JobTyped(j) ==
  /\ j.step \in {"insert", "check", "save"} => j.row \in Row
  /\ j.step \in {"check", "save", "options", "remove"} => j.question \in Questions

\* What a serial edit checked is still so when it writes to the form qs, opts.
JobOK(j, qs, opts) ==
  /\ j.step = "insert" =>
       \A q \in Questions : qs[q] = Unset => ValidQuestions([qs EXCEPT ![q] = j.row], opts)
  /\ j.step = "check" => j.options = opts[j.question]
  /\ j.step = "save" => ValidQuestions([qs EXCEPT ![j.question] = j.row], opts)
  /\ j.step = "remove" =>
       ValidQuestions(qs, [opts EXCEPT ![j.question] = @ \ {j.option}])

QTypeOK ==
  /\ question \in Table /\ OptionTable(options)
  /\ DOMAIN task = Tasks
  /\ \A t \in Tasks : JobTyped(task[t])

Alone(t) == \A u \in Tasks \ {t} : task[u] = Idle

SerialInv ==
  /\ ValidQuestions(question, options)
  /\ \A t \in Tasks : JobOK(task[t], question, options)
  /\ \A t \in Tasks : task[t] # Idle => Alone(t)

QuestionnairesInv == QTypeOK /\ (serial => SerialInv)

-----------------------------------------------------------------------------
(* The rules.                                                              *)

\* A condition names a question and an option.
LEMMA ConditionNames ==
  ASSUME NEW qs \in Table, NEW q \in Questions, qs[q] # Unset,
         qs[q].rules.showWhen # Unset
  PROVE  /\ qs[q].rules.showWhen \in Questions \X Options
         /\ qs[q].rules.showWhen[1] \in Questions
         /\ qs[q].rules.showWhen[2] \in Options
<1>1. qs[q] \in Row
  BY DEF Table
<1>2. qs[q].rules \in Rules
  BY <1>1 DEF Row
<1>3. qs[q].rules.showWhen \in {Unset} \cup (Questions \X Options)
  BY <1>2 DEF Rules
<1>. QED BY <1>3

\* A question without an id yet is as good under any of the free ids.
LEMMA AnyFreshId ==
  ASSUME NEW qs \in Table, NEW opts, NEW row \in Row, ValidQuestions(qs, opts),
         NEW a \in Questions, qs[a] = Unset, ValidQuestions([qs EXCEPT ![a] = row], opts),
         NEW b \in Questions, qs[b] = Unset
  PROVE  ValidQuestions([qs EXCEPT ![b] = row], opts)
<1>. DEFINE qa == [qs EXCEPT ![a] = row]
            qb == [qs EXCEPT ![b] = row]
<1>1. /\ qa \in Table /\ qb \in Table /\ qa[a] = row /\ qb[b] = row
      /\ \A x \in Questions : (x # a => qa[x] = qs[x]) /\ (x # b => qb[x] = qs[x])
  BY DEF Table
<1>. HIDE DEF qa, qb
<1>2. ASSUME NEW x \in Questions, x # b, qb[x] # Unset, qb[x].active
      PROVE  ValidQuestion(qb, opts, x)
  <2>1. qb[x] = qs[x] /\ ValidQuestion(qs, opts, x)
    BY <1>1, <1>2 DEF ValidQuestions
  <2>2. ASSUME qs[x].rules.showWhen # Unset PROVE AnswerableParent(qb, opts, x)
    <3>1. qs[x].rules.showWhen[1] \in Questions
      BY <2>1, <2>2, <1>2, ConditionNames
    <3>2. AnswerableParent(qs, opts, x)
      BY <2>1, <2>2 DEF ValidQuestion
    <3>. QED BY <3>1, <3>2, <2>1, <1>1 DEF AnswerableParent
  <2>. QED BY <2>1, <2>2 DEF ValidQuestion
<1>3. ASSUME row # Unset, row.active PROVE ValidQuestion(qb, opts, b)
  <2>1. ValidQuestion(qa, opts, a)
    BY <1>1, <1>3 DEF ValidQuestions, qa
  <2>2. ASSUME row.rules.showWhen # Unset PROVE AnswerableParent(qb, opts, b)
    <3>1. row.rules.showWhen[1] \in Questions
      BY <1>1, <1>3, <2>2, ConditionNames
    <3>2. AnswerableParent(qa, opts, a)
      BY <2>1, <2>2, <1>1 DEF ValidQuestion
    <3>. QED BY <3>1, <3>2, <1>1 DEF AnswerableParent
  <2>. QED BY <2>1, <2>2, <1>1 DEF ValidQuestion
<1>4. ValidQuestions(qb, opts)
  BY <1>1, <1>2, <1>3 DEF ValidQuestions
<1>. QED BY <1>4 DEF qb

\* One more option breaks no rule.
LEMMA MoreOptions ==
  ASSUME NEW qs \in Table, NEW opts, OptionTable(opts), ValidQuestions(qs, opts),
         NEW q \in Questions, NEW o
  PROVE  ValidQuestions(qs, [opts EXCEPT ![q] = @ \cup {o}])
<1>. DEFINE more == [opts EXCEPT ![q] = @ \cup {o}]
<1>1. \A p \in Questions : opts[p] \subseteq more[p]
  BY DEF OptionTable
<1>. HIDE DEF more
<1>2. ASSUME NEW x \in Questions, qs[x] # Unset, qs[x].active
      PROVE  ValidQuestion(qs, more, x)
  <2>1. ValidQuestion(qs, opts, x)
    BY <1>2 DEF ValidQuestions
  <2>2. ASSUME qs[x].rules.showWhen # Unset PROVE AnswerableParent(qs, more, x)
    <3>1. qs[x].rules.showWhen[1] \in Questions
      BY <1>2, <2>2, ConditionNames
    <3>. QED BY <3>1, <2>1, <2>2, <1>1 DEF ValidQuestion, AnswerableParent
  <2>. QED BY <2>1, <2>2 DEF ValidQuestion
<1>3. ValidQuestions(qs, more)
  BY <1>2 DEF ValidQuestions
<1>. QED BY <1>3 DEF more

LEMMA IdleJob == ASSUME NEW qs, NEW opts PROVE JobTyped(Idle) /\ JobOK(Idle, qs, opts)
BY DEF JobTyped, JobOK, Idle

-----------------------------------------------------------------------------
(* The edits.                                                              *)

\* An edit begins: serial edits find nobody else at work.
LEMMA BeginKeepsInv ==
  ASSUME QuestionnairesInv, NEW t \in Tasks, NEW job, JobTyped(job),
         UNCHANGED <<question, options>>, Begin(t, job),
         serial => JobOK(job, question, options)
  PROVE  QuestionnairesInv'
<1>1. /\ QTypeOK /\ task' = [task EXCEPT ![t] = job] /\ serial' = serial
      /\ serial => \A u \in Tasks : task[u] = Idle
  BY DEF Begin, QuestionnairesInv
<1>2. /\ DOMAIN task' = Tasks /\ task'[t] = job
      /\ \A u \in Tasks : u # t => task'[u] = task[u]
  BY <1>1 DEF QTypeOK
<1>3. QTypeOK'
  BY <1>1, <1>2 DEF QTypeOK
<1>4. ASSUME serial PROVE SerialInv'
  <2>1. \A u \in Tasks : u # t => task'[u] = Idle
    BY <1>1, <1>2, <1>4
  <2>2. ASSUME NEW u \in Tasks PROVE JobOK(task'[u], question', options')
    BY <1>2, <1>4, <2>1, IdleJob
  <2>3. ASSUME NEW u \in Tasks, task'[u] # Idle PROVE Alone(u)'
    BY <2>1, <2>3 DEF Alone
  <2>4. ValidQuestions(question', options')
    BY <1>4 DEF QuestionnairesInv, SerialInv
  <2>. QED BY <2>2, <2>3, <2>4 DEF SerialInv
<1>. QED BY <1>1, <1>3, <1>4 DEF QuestionnairesInv

\* An edit goes on: nobody else is at work in between.
LEMMA ProceedKeepsInv ==
  ASSUME QuestionnairesInv, NEW t \in Tasks, task[t] # Idle, NEW job, JobTyped(job),
         question' \in Table, OptionTable(options'), Proceed(t, job),
         serial => /\ ValidQuestions(question', options')
                   /\ JobOK(job, question', options')
  PROVE  QuestionnairesInv'
<1>1. QTypeOK /\ task' = [task EXCEPT ![t] = job] /\ serial' = serial
  BY DEF Proceed, QuestionnairesInv
<1>2. /\ DOMAIN task' = Tasks /\ task'[t] = job
      /\ \A u \in Tasks : u # t => task'[u] = task[u]
  BY <1>1 DEF QTypeOK
<1>3. QTypeOK'
  BY <1>1, <1>2 DEF QTypeOK
<1>4. ASSUME serial PROVE SerialInv'
  <2>1. \A u \in Tasks : u # t => task'[u] = Idle
    BY <1>2, <1>4 DEF QuestionnairesInv, SerialInv, Alone
  <2>2. ASSUME NEW u \in Tasks PROVE JobOK(task'[u], question', options')
    BY <1>2, <1>4, <2>1, IdleJob
  <2>3. ASSUME NEW u \in Tasks, task'[u] # Idle PROVE Alone(u)'
    BY <2>1, <2>3 DEF Alone
  <2>. QED BY <1>4, <2>2, <2>3 DEF SerialInv
<1>. QED BY <1>1, <1>3, <1>4 DEF QuestionnairesInv
\* Facts each edit starts from.
LEMMA QInvFacts ==
  ASSUME QuestionnairesInv
  PROVE  /\ question \in Table /\ OptionTable(options)
         /\ \A t \in Tasks : JobTyped(task[t])
         /\ serial => /\ ValidQuestions(question, options)
                      /\ \A t \in Tasks : JobOK(task[t], question, options)
BY DEF QuestionnairesInv, QTypeOK, SerialInv

LEMMA CreateQuestionBegins ==
  ASSUME QuestionnairesInv, NEW t \in Tasks, BeginCreateQuestion(t)
  PROVE  QuestionnairesInv'
<1>1. PICK q \in Questions \ Existing, type \in Type, rules \in RuleSets, n \in 0 .. 1 :
        LET row == [type |-> type, active |-> TRUE, rules |-> rules]
        IN  /\ ValidQuestions([question EXCEPT ![q] = row], options)
            /\ Begin(t, [step |-> "insert", row |-> row, options |-> n])
  BY DEF BeginCreateQuestion
<1>. DEFINE row == [type |-> type, active |-> TRUE, rules |-> rules]
            job == [step |-> "insert", row |-> row, options |-> n]
<1>2. row \in Row /\ q \in Questions /\ question[q] = Unset
  BY QuestionnairesAssumption DEF Row, Existing
<1>3. /\ ValidQuestions([question EXCEPT ![q] = row], options)
      /\ Begin(t, job)
  BY <1>1
<1>. HIDE DEF row
<1>4. JobTyped(job)
  BY <1>2 DEF JobTyped
<1>5. ASSUME serial PROVE JobOK(job, question, options)
  <2>1. \A b \in Questions : question[b] = Unset =>
          ValidQuestions([question EXCEPT ![b] = row], options)
    BY <1>2, <1>3, <1>5, QInvFacts, AnyFreshId
  <2>. QED BY <2>1 DEF JobOK
<1>. HIDE DEF job
<1>6. question' = question /\ options' = options
  BY DEF BeginCreateQuestion, form
<1>. QED BY <1>3, <1>4, <1>5, <1>6, BeginKeepsInv

LEMMA QuestionInserted ==
  ASSUME QuestionnairesInv, NEW t \in Tasks, InsertQuestion(t)
  PROVE  QuestionnairesInv'
<1>1. PICK q \in Questions \ Existing :
        /\ question' = [question EXCEPT ![q] = task[t].row]
        /\ Proceed(t, IF task[t].options = 0 THEN Idle ELSE [step |-> "options", question |-> q])
  BY DEF InsertQuestion
<1>. DEFINE job == IF task[t].options = 0 THEN Idle ELSE [step |-> "options", question |-> q]
<1>2. task[t].step = "insert" /\ options' = options /\ task[t] # Idle
  BY DEF InsertQuestion, Idle
<1>3. q \in Questions /\ question[q] = Unset /\ task[t].row \in Row
  BY <1>2, QInvFacts DEF Existing, JobTyped
<1>4. question' \in Table /\ OptionTable(options')
  BY <1>1, <1>2, <1>3, QInvFacts DEF Table
<1>5. JobTyped(job) /\ JobOK(job, question', options')
  <2>1. /\ JobTyped([step |-> "options", question |-> q])
        /\ JobOK([step |-> "options", question |-> q], question', options')
    BY <1>3 DEF JobTyped, JobOK
  <2>. QED BY <2>1, IdleJob
<1>6. serial => ValidQuestions(question', options')
  BY <1>1, <1>2, <1>3, QInvFacts DEF JobOK
<1>7. Proceed(t, job)
  BY <1>1
<1>. HIDE DEF job
<1>. QED BY <1>2, <1>4, <1>5, <1>6, <1>7, ProceedKeepsInv

LEMMA OptionInserted ==
  ASSUME QuestionnairesInv, NEW t \in Tasks, InsertOption(t)
  PROVE  QuestionnairesInv'
<1>1. PICK o \in unused : options' = [options EXCEPT ![task[t].question] = @ \cup {o}]
  BY DEF InsertOption
<1>2. /\ task[t].question \in Questions /\ task[t] # Idle
      /\ question' = question /\ Proceed(t, Idle)
  BY QInvFacts DEF InsertOption, JobTyped, Idle, End
<1>3. question' \in Table /\ OptionTable(options')
  BY <1>1, <1>2, QInvFacts DEF OptionTable
<1>4. serial => ValidQuestions(question', options')
  BY <1>1, <1>2, QInvFacts, MoreOptions
<1>. QED BY <1>2, <1>3, <1>4, IdleJob, ProceedKeepsInv

LEMMA UpdateQuestionBegins ==
  ASSUME QuestionnairesInv, NEW t \in Tasks, BeginUpdateQuestion(t)
  PROVE  QuestionnairesInv'
<1>1. PICK q \in Existing, type \in Type \cup {Unset}, on \in BOOLEAN \cup {Unset},
           rules \in RuleSets \cup {Unset} :
        Begin(t, [step |-> "check", question |-> q, options |-> options[q],
                  row |-> [type |-> IF type = Unset THEN question[q].type ELSE type,
                           active |-> IF on = Unset THEN question[q].active ELSE on,
                           rules |-> IF rules = Unset THEN question[q].rules ELSE rules]])
  BY DEF BeginUpdateQuestion
<1>. DEFINE row == [type |-> IF type = Unset THEN question[q].type ELSE type,
                    active |-> IF on = Unset THEN question[q].active ELSE on,
                    rules |-> IF rules = Unset THEN question[q].rules ELSE rules]
            job == [step |-> "check", question |-> q, options |-> options[q], row |-> row]
<1>2. q \in Questions /\ question[q] \in Row
  BY QInvFacts DEF Existing, Table
<1>3. row \in Row
  BY <1>2, QuestionnairesAssumption DEF Row
<1>4. Begin(t, job) /\ question' = question /\ options' = options
  BY <1>1 DEF BeginUpdateQuestion, form
<1>. HIDE DEF row
<1>5. JobTyped(job) /\ JobOK(job, question, options)
  BY <1>2, <1>3 DEF JobTyped, JobOK
<1>. HIDE DEF job
<1>. QED BY <1>4, <1>5, BeginKeepsInv

LEMMA QuestionChecked ==
  ASSUME QuestionnairesInv, NEW t \in Tasks, CheckQuestion(t)
  PROVE  QuestionnairesInv'
<1>. DEFINE q == task[t].question
            row == task[t].row
            next == [step |-> "save", question |-> q, row |-> row]
            job == IF ValidQuestions([question EXCEPT ![q] = row],
                                     [options EXCEPT ![q] = task[t].options])
                   THEN next ELSE Idle
<1>1. /\ Proceed(t, job) /\ question' = question /\ options' = options
      /\ task[t].step = "check" /\ task[t] # Idle
  BY DEF CheckQuestion, form, Idle
<1>2. q \in Questions /\ row \in Row
  BY <1>1, QInvFacts DEF JobTyped
<1>3. JobTyped(next) /\ JobTyped(job)
  BY <1>2, IdleJob DEF JobTyped
<1>4. ASSUME serial PROVE JobOK(job, question, options)
  <2>1. task[t].options = options[q]
    BY <1>1, <1>4, QInvFacts DEF JobOK
  <2>2. [options EXCEPT ![q] = task[t].options] = options
    BY <2>1, <1>2, QInvFacts DEF OptionTable
  <2>3. ValidQuestions([question EXCEPT ![q] = row], options) => JobOK(next, question, options)
    BY DEF JobOK
  <2>. QED BY <2>2, <2>3, IdleJob
<1>. HIDE DEF job, next
<1>. QED BY <1>1, <1>3, <1>4, QInvFacts, ProceedKeepsInv

LEMMA QuestionSaved ==
  ASSUME QuestionnairesInv, NEW t \in Tasks, SaveQuestion(t)
  PROVE  QuestionnairesInv'
<1>1. /\ Proceed(t, Idle) /\ options' = options /\ task[t].step = "save" /\ task[t] # Idle
      /\ question' = [question EXCEPT ![task[t].question] = task[t].row]
  BY DEF SaveQuestion, End, Idle
<1>2. task[t].question \in Questions /\ task[t].row \in Row
  BY <1>1, QInvFacts DEF JobTyped
<1>3. question' \in Table
  BY <1>1, <1>2, QInvFacts DEF Table
<1>4. serial => ValidQuestions(question', options')
  BY <1>1, QInvFacts DEF JobOK
<1>. QED BY <1>1, <1>3, <1>4, QInvFacts, IdleJob, ProceedKeepsInv

LEMMA OptionEditBegins ==
  ASSUME QuestionnairesInv, NEW t \in Tasks, BeginCreateOption(t) \/ BeginDeleteOption(t)
  PROVE  QuestionnairesInv'
<1>1. question' = question /\ options' = options
  BY DEF BeginCreateOption, BeginDeleteOption, form
<1>2. CASE BeginCreateOption(t)
  <2>1. PICK q \in Questions : Begin(t, [step |-> "options", question |-> q])
    BY <1>2 DEF BeginCreateOption, Existing
  <2>2. /\ JobTyped([step |-> "options", question |-> q])
        /\ JobOK([step |-> "options", question |-> q], question, options)
    BY DEF JobTyped, JobOK
  <2>. QED BY <1>1, <2>1, <2>2, BeginKeepsInv
<1>3. CASE BeginDeleteOption(t)
  <2>1. PICK q \in Questions : \E o \in options[q] :
          /\ ValidQuestions(question, [options EXCEPT ![q] = @ \ {o}])
          /\ Begin(t, [step |-> "remove", question |-> q, option |-> o])
    BY <1>3 DEF BeginDeleteOption, Existing
  <2>2. PICK o \in options[q] :
          /\ ValidQuestions(question, [options EXCEPT ![q] = @ \ {o}])
          /\ Begin(t, [step |-> "remove", question |-> q, option |-> o])
    BY <2>1
  <2>3. /\ JobTyped([step |-> "remove", question |-> q, option |-> o])
        /\ JobOK([step |-> "remove", question |-> q, option |-> o], question, options)
    BY <2>2 DEF JobTyped, JobOK
  <2>. QED BY <1>1, <2>2, <2>3, BeginKeepsInv
<1>. QED BY <1>2, <1>3

LEMMA OptionRemoved ==
  ASSUME QuestionnairesInv, NEW t \in Tasks, RemoveOption(t)
  PROVE  QuestionnairesInv'
<1>1. /\ Proceed(t, Idle) /\ question' = question /\ task[t].step = "remove" /\ task[t] # Idle
      /\ options' = [options EXCEPT ![task[t].question] = @ \ {task[t].option}]
  BY DEF RemoveOption, End, Idle
<1>2. question' \in Table /\ OptionTable(options')
  BY <1>1, QInvFacts DEF OptionTable
<1>3. serial => ValidQuestions(question', options')
  BY <1>1, QInvFacts DEF JobOK
<1>. QED BY <1>1, <1>2, <1>3, IdleJob, ProceedKeepsInv

-----------------------------------------------------------------------------

LEMMA QuestionnairesInitially == QuestionnairesInit => QuestionnairesInv
<1>. SUFFICES ASSUME QuestionnairesInit PROVE QuestionnairesInv
  OBVIOUS
<1>1. /\ question \in Table /\ OptionTable(options)
      /\ task = [t \in Tasks |-> Idle]
      /\ serial => ValidQuestions(question, options)
  BY QuestionnairesAssumption DEF QuestionnairesInit, Table, OptionTable
<1>2. QTypeOK /\ \A t \in Tasks : JobOK(task[t], question, options)
  BY <1>1, IdleJob DEF QTypeOK
<1>3. \A t \in Tasks : task[t] = Idle
  BY <1>1
<1>. QED BY <1>1, <1>2, <1>3 DEF QuestionnairesInv, SerialInv

LEMMA QuestionnairesStep == QuestionnairesInv /\ [QuestionnairesNext]_vars => QuestionnairesInv'
<1>. SUFFICES ASSUME QuestionnairesInv, [QuestionnairesNext]_vars PROVE QuestionnairesInv'
  OBVIOUS
<1>1. ASSUME NEW t \in Tasks, Edit(t) PROVE QuestionnairesInv'
  <2>1. CASE BeginCreateQuestion(t) \/ InsertQuestion(t) \/ InsertOption(t)
    BY <2>1, CreateQuestionBegins, QuestionInserted, OptionInserted
  <2>2. CASE BeginUpdateQuestion(t) \/ CheckQuestion(t) \/ SaveQuestion(t)
    BY <2>2, UpdateQuestionBegins, QuestionChecked, QuestionSaved
  <2>3. CASE BeginCreateOption(t) \/ BeginDeleteOption(t) \/ RemoveOption(t)
    BY <2>3, OptionEditBegins, OptionRemoved
  <2>4. CASE SetActive(t)
    BY <2>4, IdleJob, BeginKeepsInv DEF SetActive
  <2>5. CASE Fail(t)
    BY <2>5, IdleJob, QInvFacts, ProceedKeepsInv DEF Fail, End, form
  <2>. QED BY <1>1, <2>1, <2>2, <2>3, <2>4, <2>5 DEF Edit
<1>2. CASE UNCHANGED vars
  BY <1>2 DEF vars, QuestionnairesInv, QTypeOK, SerialInv, Alone
<1>. QED BY <1>1, <1>2 DEF QuestionnairesNext

LEMMA QuestionnairesAlways == QuestionnairesSpec => []QuestionnairesInv
BY QuestionnairesInitially, QuestionnairesStep, PTL DEF QuestionnairesSpec

\* Serial edits keep the adaptive rules.
THEOREM SerialEditsAreSafe == QuestionnairesSpec => []SerialEditsKeepRules
<1>1. QuestionnairesInv => SerialEditsKeepRules
  BY DEF QuestionnairesInv, SerialInv, SerialEditsKeepRules
<1>. QED BY <1>1, QuestionnairesAlways, PTL

\* A served form shows every active question to somebody, even after races.
THEOREM ServedFormsAreReachable == QuestionnairesSpec => []ServedQuestionsReachable
<1>1. QuestionnairesInv => ServedQuestionsReachable
  <2>. DEFINE Answerable == {answer \in Questions \X Options :
                               Visible(answer[1], {}) /\ answer[2] \in options[answer[1]]}
  <2>. SUFFICES ASSUME QuestionnairesInv, Served,
                       NEW q \in Existing, question[q].active, ~Visible(q, {})
                PROVE  \E answer \in Answerable : Visible(q, {answer})
    BY DEF ServedQuestionsReachable
  <2>. DEFINE answer == question[q].rules.showWhen
  <2>1. q \in Questions /\ question[q] # Unset /\ question \in Table
    BY QInvFacts DEF Existing
  <2>2. answer # Unset
    BY <2>1 DEF Visible
  <2>3. answer \in Questions \X Options /\ answer[1] \in Questions
    BY <2>1, <2>2, ConditionNames
  <2>4. AnswerableParent(question, options, q)
    BY <2>1, <2>2 DEF Served, ValidQuestions, ValidQuestion
  <2>5. Visible(answer[1], {}) /\ answer[2] \in options[answer[1]]
    BY <2>4 DEF AnswerableParent, Visible
  <2>6. Visible(q, {answer})
    BY <2>1, <2>4 DEF AnswerableParent, Visible
  <2>. QED BY <2>3, <2>5, <2>6
<1>. QED BY <1>1, QuestionnairesAlways, PTL
=============================================================================
