---------------------------- MODULE Questionnaires ----------------------------
(***************************************************************************)
(* QuestionsService for one questionnaire: administrators edit questions and *)
(* options by reading, checking the adaptive rules on what they read, and    *)
(* writing, without a lock or a transaction; learners read the active form,  *)
(* which checks the rules again.                                            *)
(*                                                                         *)
(* Abstracted data: texts, sort orders and "required" are left out; the type *)
(* "text" stands for the types without options.                             *)
(***************************************************************************)
EXTENDS Naturals, FiniteSets

CONSTANTS Questions,    \* ids a question can get
          Options,      \* ids an answer option can get
          Unset,        \* undefined: not in the request, or no condition
          RuleSets,     \* rules a request may give
          Forms,        \* questionnaires earlier requests have left
          Tasks,        \* edits in progress at once
          MaxEdits      \* bound on the edits

Type == {"single_choice", "multiple_choice", "text"}
Rules == [maxSelections : BOOLEAN, allowDetails : BOOLEAN,
          showWhen : {Unset} \cup (Questions \X Options)]
Row == [type : Type, active : BOOLEAN, rules : Rules]

ASSUME QuestionnairesAssumption ==
  /\ Unset \notin Questions /\ Unset \notin Type /\ Unset \notin BOOLEAN
  /\ RuleSets \subseteq Rules
  /\ Forms \subseteq [active : BOOLEAN, question : [Questions -> Row \cup {Unset}],
                      options : [Questions -> SUBSET Options]]
  /\ MaxEdits \in Nat

VARIABLES active,     \* isActive of the questionnaire
          question,   \* question[q]: its row
          options,    \* options[q]: its answer options
          unused,     \* option ids not given yet
          task,       \* task[t]: what an edit has read so far
          edits,      \* edits begun
          serial      \* this behaviour has had, and has, one edit at a time

form == <<active, question, options, unused>>
vars == <<active, question, options, unused, task, edits, serial>>

Idle == [step |-> "idle"]
Existing == {q \in Questions : question[q] # Unset}
ChoiceTypes == {"single_choice", "multiple_choice"}

-----------------------------------------------------------------------------
(* The rules.                                                              *)

\* Faulty variant: the parent may be inactive.
AnswerableParentOfAnyState(qs, opts, q) ==
  LET p == qs[q].rules.showWhen[1]
      o == qs[q].rules.showWhen[2]
  IN  /\ qs[p] # Unset /\ p # q
      /\ qs[p].rules.showWhen = Unset
      /\ qs[p].type \in ChoiceTypes
      /\ o \in opts[p]

\* q's condition names an option of another active choice question that has no
\* condition itself.
AnswerableParent(qs, opts, q) ==
  LET p == qs[q].rules.showWhen[1]
      o == qs[q].rules.showWhen[2]
  IN  /\ qs[p] # Unset /\ p # q
      /\ qs[p].active
      /\ qs[p].rules.showWhen = Unset
      /\ qs[p].type \in ChoiceTypes
      /\ o \in opts[p]

\* validateAdaptiveQuestions for one active question.
ValidQuestion(qs, opts, q) ==
  /\ qs[q].rules.maxSelections => qs[q].type = "multiple_choice"
  /\ qs[q].rules.allowDetails => qs[q].type = "single_choice"
  /\ qs[q].rules.showWhen # Unset => AnswerableParent(qs, opts, q)

\* validateAdaptiveQuestions.
ValidQuestions(qs, opts) ==
  \A q \in Questions : qs[q] # Unset => (qs[q].active => ValidQuestion(qs, opts, q))

\* The start is any form, or one that keeps the rules if all edits are serial.
QuestionnairesInit ==
  /\ \E f \in Forms : active = f.active /\ question = f.question /\ options = f.options
  /\ unused = {o \in Options : \A q \in Questions : o \notin options[q]}
  /\ task = [t \in Tasks |-> Idle]
  /\ edits = 0
  /\ serial \in BOOLEAN
  /\ serial => ValidQuestions(question, options)

\* isQuestionVisible, for answers given as pairs <<question, option>>.
Visible(q, answers) ==
  /\ question[q] # Unset /\ question[q].active
  /\ LET condition == question[q].rules.showWhen
     IN  condition = Unset
         \/ /\ question[condition[1]] # Unset /\ question[condition[1]].active
            /\ condition[2] \in options[condition[1]]
            /\ condition \in answers

\* What getActiveQuestionnaire needs to answer.
Served ==
  /\ active
  /\ \A q \in Existing :
       question[q].active /\ question[q].type \in ChoiceTypes => options[q] # {}
  /\ ValidQuestions(question, options)

-----------------------------------------------------------------------------
(* The edits.                                                              *)

Begin(t, job) ==
  /\ task[t] = Idle
  /\ serial => \A u \in Tasks : task[u] = Idle
  /\ edits < MaxEdits
  /\ edits' = edits + 1
  /\ task' = [task EXCEPT ![t] = job]
  /\ UNCHANGED serial

Proceed(t, job) ==
  /\ task' = [task EXCEPT ![t] = job]
  /\ UNCHANGED <<edits, serial>>

End(t) == Proceed(t, Idle)

\* createQuestion: the rules hold with the new question, whose id nobody knows.
BeginCreateQuestion(t) ==
  /\ \E q \in Questions \ Existing, type \in Type, rules \in RuleSets, n \in 0 .. 1 :
       LET row == [type |-> type, active |-> TRUE, rules |-> rules]
       IN  /\ type \in ChoiceTypes \/ n = 0
           /\ ValidQuestions([question EXCEPT ![q] = row], options)
           /\ Begin(t, [step |-> "insert", row |-> row, options |-> n])
  /\ UNCHANGED form

InsertQuestion(t) ==
  /\ task[t].step = "insert"
  /\ \E q \in Questions \ Existing :
       /\ question' = [question EXCEPT ![q] = task[t].row]
       /\ Proceed(t, IF task[t].options = 0 THEN Idle
                     ELSE [step |-> "options", question |-> q])
  /\ UNCHANGED <<active, options, unused>>

\* The options of a new question, or the one of createOption.
InsertOption(t) ==
  /\ task[t].step = "options"
  /\ \E o \in unused :
       /\ options' = [options EXCEPT ![task[t].question] = @ \cup {o}]
       /\ unused' = unused \ {o}
  /\ End(t)
  /\ UNCHANGED <<active, question>>

\* updateQuestion: the question is read, and changed in memory.
BeginUpdateQuestion(t) ==
  /\ \E q \in Existing :
     \E type \in Type \cup {Unset}, on \in BOOLEAN \cup {Unset}, rules \in RuleSets \cup {Unset} :
       \* One field at a time is enough to reach every row.
       /\ Cardinality({f \in {1, 2, 3} : <<type, on, rules>>[f] # Unset}) = 1
       /\ (type = "text" /\ question[q].type # "text") => options[q] = {}
       /\ Begin(t, [step |-> "check", question |-> q, options |-> options[q],
                    row |-> [type |-> IF type = Unset THEN question[q].type ELSE type,
                             active |-> IF on = Unset THEN question[q].active ELSE on,
                             rules |-> IF rules = Unset THEN question[q].rules ELSE rules]])
  /\ UNCHANGED form

\* Faulty variant: only the question itself is checked.
CheckOneQuestion(t) ==
  /\ task[t].step = "check"
  /\ LET q == task[t].question
         qs == [question EXCEPT ![q] = task[t].row]
     IN  Proceed(t, IF ~qs[q].active \/ ValidQuestion(qs, options, q)
                    THEN [step |-> "save", question |-> q, row |-> task[t].row]
                    ELSE Idle)
  /\ UNCHANGED form

\* The questionnaire is read and checked, with the question as it was read before.
CheckQuestion(t) ==
  /\ task[t].step = "check"
  /\ LET q == task[t].question
     IN  Proceed(t, IF ValidQuestions([question EXCEPT ![q] = task[t].row],
                                      [options EXCEPT ![q] = task[t].options])
                    THEN [step |-> "save", question |-> q, row |-> task[t].row]
                    ELSE Idle)
  /\ UNCHANGED form

\* save writes every column, the ones others changed since included.
SaveQuestion(t) ==
  /\ task[t].step = "save"
  /\ question' = [question EXCEPT ![task[t].question] = task[t].row]
  /\ End(t)
  /\ UNCHANGED <<active, options, unused>>

\* createOption.
BeginCreateOption(t) ==
  /\ \E q \in Existing :
       /\ question[q].type \in ChoiceTypes
       /\ Begin(t, [step |-> "options", question |-> q])
  /\ UNCHANGED form

\* deleteOption: the questionnaire is read, and checked without the option.
BeginDeleteOption(t) ==
  /\ \E q \in Existing : \E o \in options[q] :
       /\ ValidQuestions(question, [options EXCEPT ![q] = @ \ {o}])
       /\ Begin(t, [step |-> "remove", question |-> q, option |-> o])
  /\ UNCHANGED form

RemoveOption(t) ==
  /\ task[t].step = "remove"
  /\ options' = [options EXCEPT ![task[t].question] = @ \ {task[t].option}]
  /\ End(t)
  /\ UNCHANGED <<active, question, unused>>

\* updateQuestionnaire and deactivateQuestionnaire.
SetActive(t) ==
  /\ active' \in BOOLEAN
  /\ Begin(t, Idle)
  /\ UNCHANGED <<question, options, unused>>

\* The database refuses a statement, or the process ends.
Fail(t) ==
  /\ task[t] # Idle
  /\ End(t)
  /\ UNCHANGED form

Edit(t) ==
  \/ BeginCreateQuestion(t) \/ InsertQuestion(t) \/ InsertOption(t)
  \/ BeginUpdateQuestion(t) \/ CheckQuestion(t) \/ SaveQuestion(t)
  \/ BeginCreateOption(t)
  \/ BeginDeleteOption(t) \/ RemoveOption(t)
  \/ SetActive(t)
  \/ Fail(t)

QuestionnairesNext == \E t \in Tasks : Edit(t)

QuestionnairesSpec == QuestionnairesInit /\ [][QuestionnairesNext]_vars

-----------------------------------------------------------------------------
(* Properties.                                                             *)

\* Edits made one at a time never leave a questionnaire that breaks the rules,
\* whatever their order and wherever one of them fails halfway: deactivating a
\* parent, making it conditional or deleting an option in use is refused.
SerialEditsKeepRules == serial => ValidQuestions(question, options)

\* Even after edits that raced, a learner is never served a form with a question
\* that no answers reveal: what validateAdaptiveQuestions accepts is what
\* isQuestionVisible can show, by answering a question that is visible itself.
ServedQuestionsReachable ==
  LET Answerable == {answer \in Questions \X Options :
                    Visible(answer[1], {}) /\ answer[2] \in options[answer[1]]}
  IN  Served =>
        \A q \in Existing : question[q].active =>
          Visible(q, {}) \/ \E answer \in Answerable : Visible(q, {answer})
=============================================================================
