# A TLA+ model of the learning-path backend

The backend (NestJS, TypeORM, PostgreSQL) keeps a catalog of courses with prerequisites,
lets administrators edit and publish it or import it from files, and lets students
answer questionnaires, have a language model plan a roadmap for them, and save roadmaps:
ordered lists of published courses with a progress each. Accounts log in with a password
or with Discord. This directory holds TLA+ modules for the parts in which requests can
interfere with each other, the TLC configurations that check them on small instances,
and TLAPS proofs of what matters most for every size.

`PROJECT.json` lists components, runs, mutants, the source lines every definition
stands for, the disagreements found, the hazards, and the theorems.

## The system

| Component | State | Operations | Shares | What makes it correct |
| --- | --- | --- | --- | --- |
| Catalog (`catalog.service.ts`, `publication.ts`) | categories, technologies, courses, three join tables | create, edit, publish, draft, archive a course; save and delete a taxonomy entry | advisory lock 1789600000 | prerequisites acyclic; published courses complete and closed under prerequisites; no dangling row |
| Saved roadmaps (`roadmaps.service.ts`) | `roadmaps`, `roadmap_courses` | create, replace the list, rename, save a progress, remove | the lock; the catalog through another connection | a saved roadmap has one accepted list entire; memberships leave or move only on request; no progress is lost, and nothing removed comes back, except to a stale load |
| Roadmap generation (`roadmap-generation.service.ts`, `select-candidates.ts`, `plan-roadmap.ts`, `openai-client.ts`) | none of its own | profile, candidates, at most two model calls, check and save under the lock | the lock, the profile, the language model | the model can always answer acceptably; what is saved was valid when saved; every request ends |
| Assessments (`assessments.service.ts`, `evaluation.ts`) | evaluation configs, assessments, answers, taxonomy references | configure, read the form, submit | the lock and REPEATABLE READ snapshots; the questionnaire | versions never repeat; an assessment is evaluated against one committed form, the one its revision names |
| Questionnaires (`questions.service.ts`, `adaptive-questions.ts`) | questionnaires, questions, options | create, edit, deactivate, delete an option; serve the active form | no lock, no transaction | the adaptive rules stay valid; no question is served that nobody can reach |
| User accounts (`user.service.ts`) | users | create, edit, deactivate, change the password, link Discord | two unique indexes | one account per e-mail and per Discord identity |
| Sessions and Discord login (`auth.service.ts`, guards, `jwt.strategy.ts`, `oauth-state.ts`) | tokens and cookies in clients, used tickets in memory | register, log in, change password, Discord redirect and callback, exchange a ticket | users | no full session before the owner has a password of its own; an identity opens only its own account; a ticket is used once |
| Audit buffer (`audit-log.service.ts`) | events in memory, one flush in flight | record, flush by timer or size, flush at shutdown | the database | no event disappears unaccounted for or overtakes another |
| Rate limit (`rate-limit.guard.ts`) | one counter per client and route | allow or refuse, prune | the clock | admissions bounded, refusals earned |
| Content importer (`seed/content`) | marker rows | preview; import, fill, publish in passes | the lock | completes and never overrules; publishes only what the catalog would, and what its preview says |
| Two-factor, encryption, logging, serializers, configuration, migrations | | | | no concurrent state, or not reachable (two-factor: its routes are not published) |

Interaction. Catalog writes, roadmap lists, generation, the configuration of an
evaluation and the importer all begin a transaction with
`pg_advisory_xact_lock(1789600000)`, which PostgreSQL releases with the transaction.
Requests run in any number of processes; inside one process every `await` lets another
request go on, and all of them share one connection pool. Roadmaps call the catalog
service directly, and that call uses another connection than the transaction it is made
from. Accounts and questionnaires are edited without any transaction: each `await` is a
statement of its own. The rate limit, the used login tickets and the audit buffer live
in the memory of one process.

What is hard here: checks made on data read before another request's commit;
entities loaded, changed in memory and saved as a whole; what holds a lock while it
waits for a connection; transactions that fail half way; long legal sequences of
catalog edits; two people claiming one e-mail or one Discord identity; a process that
stops or dies with something in memory; answers of a language model or of the database
that are late, lost or useless. `PROJECT.json` lists each hazard at its line.

## The modules

| Module | Models |
| --- | --- |
| `Catalog` | the catalog writes as atomic steps: the abstract specification |
| `CatalogTx` | the same writes as database transactions: lock, load, check, commit or roll back, interleaved |
| `Roadmaps` | one user's saved roadmaps as handlers of several statements, with the catalog changing under them (it uses the operators and atomic writes of `Catalog`) |
| `ConnectionPool` | the connections and the advisory lock that the requests of one process share |
| `Evaluation` | the pure rules of `evaluation.ts`: which definitions fit a questionnaire, which answers fit a definition, and the profile they give |
| `Assessments` | configuring, fetching a form and submitting for one questionnaire, as REPEATABLE READ transactions, while the questionnaire and the catalog change (it extends `Evaluation`) |
| `CatalogLock` | the catalog of `Catalog` with the advisory lock and its holders |
| `RoadmapGeneration` | generating a roadmap: candidates, the two attempts, the check and the save |
| `ContentImport` | the preview and the import of a file of courses |
| `CatalogClients` | the composition: administrators' writes of `Catalog`, `RoadmapGeneration` and `ContentImport` on one database and one lock |
| `Accounts` | accounts, sessions, Discord login and tickets, each request split at its awaits |
| `Questionnaires` | the edits of one questionnaire with their stale reads, and what a learner is served |
| `RateLimit` | the guard and its map of windows |
| `AuditBuffer` | the buffer of audit events, its flushes and the shutdown |
| `Process` | the composition: one API process whose requests pass `RateLimit` and end in `AuditBuffer`, with stops, crashes and restarts |
| `MCCatalog`, `MCCatalogTx`, `MCRoadmaps`, `MCConnectionPool`, `MCAssessments`, `MCCatalogClients`, `MCAccounts`, `MCQuestionnaires`, `MCProcess` | the instances TLC checks |
| `CatalogProofs`, `CatalogTxProofs`, `RoadmapsProofs`, `AssessmentsProofs`, `ConnectionPoolProofs`, `AccountsProofs`, `QuestionnairesProofs`, `ProcessProofs` | the theorems |

Operators called "faulty variant" are bugs the code does not have. Replacing the
operator they follow by one of them makes a property fail; `PROJECT.json` says
which, for each property of each passing run.

### Catalog

`status`, `filled`, `tags` and `prereqs` are the course rows and the join tables,
`taxonomy` the categories and technologies. `filled` stands for the six scalar
columns `publicationBlockers` requires; titles and names are left out, and with
them the unique-name errors. Each action is one accepted request: its guard is the
conjunction of every check of the method, and a rejected request changes nothing.
`UpdateCourse` takes the values after the request; a value equal to the stored one
includes the request that omits the field, for which the code skips the check.
`Reachable` is the recursive query of `assign`, written as the least closed set so
that the module can be used in proofs. A category that an evaluation refers to
cannot be deleted either; that only removes steps, and belongs to the assessments.

### CatalogTx

Each transaction takes the lock, loads a course object (`entity`, with the
prerequisites whose loaded status was not published in `unmet`), checks the loaded
object and writes it back as a whole; `Rollback` may end it at any point, which
covers failed checks, refused statements and a dead process. A creation or edit
commits what the entity holds, not what the catalog held: without the lock the
checks would be stale. `ImplementsCatalog` says that to everyone else each
transaction is one step of `Catalog`; the state mapping is the identity on the
committed variables.

### Roadmaps

A handler has a control point (`phase`) and what it loaded (`mem`). Creating and
replacing hold the lock from before the load until the commit; progress and rename
hold nothing, and `SaveProgress` and `SaveRename` are what `repository.save` does
with an entity that the database has meanwhile changed or lost: update what
differs, insert again what is gone, fail on a constraint. A row's key is never
reused, so the number of the list it was inserted with stands for it. The rows a
`save` reads to compute the difference and the statements it then runs are one
step: what could come between is a later change, which the unconditional update
overwrites just the same. `lists` is the history of the lists that were committed, with
their roadmap, by which the properties say whose list a membership is of. Nothing
restricts which requests overlap: any number of them may be at work on one roadmap.

### ConnectionPool

Requests queue for a connection, then for the lock; a request that creates or
replaces a list needs, while it holds both, another connection for each of two
reads. The pool serves its queue in order and has no timeout: `databaseOptions`
sets none, nor a size, so the driver's default of ten connections and no limit
applies.

### Evaluation and Assessments

A questionnaire and a definition are functions from question ids, an answer sheet
another one; lists that name an id twice, which the code refuses, are therefore not
represented. Texts keep only what trimming and the length limits look at.
`Assessments` has the three requests. Each transaction keeps, as `tx[t]`, the part of
the database it read at its first statement; its commit computes from that
snapshot and writes to the database as it then is. What fails there is what
PostgreSQL refuses and `mapWriteError` answers with 409: a configuration row that
changed since the snapshot (`RowUnchanged`: 40001 or 23505) and a reference to an entry
that is gone (`Exist`: 23503). Before its commit nobody sees a write of the
transaction, and whoever touches the same row waits for its end, so one step is
enough for all its statements. The snapshot of `configure` is the one its lock
statement takes, before the wait. `form = revision` stands for the equality of two
SHA-256 values. The edits of the questionnaire are the rows `QuestionsService` saves,
at any time and without the lock.

Administrators' edits of the questionnaire's structure are in `Questionnaires`.

### RoadmapGeneration, ContentImport and CatalogClients

All three extend `CatalogLock`. `CatalogTx` shows that an administrator's write is one
atomic step for everybody else, so in `CatalogClients` it is the action of `Catalog`,
taken while the lock is free (`AdminWrite`); the other two holders are modelled
statement by statement.

`gen[g]` is what one call of `generate` has computed. Reading the profile and the
catalog and choosing the candidates are one step, because everything comes from one
query of the catalog; the ranking of `selectCandidates` depends on levels and scores
that the catalog here leaves out, so every ranking is allowed. `SelectCandidates` and
`Coerced` are the loops of `select-candidates.ts` and `plan-roadmap.ts`, as recursive
functions. An answer of the model is whether it is JSON, whether its texts are texts,
and its course ids, among them unknown and repeated ones. `FormatRejected` is the second
call, with plain parameters, to a local server that rejects the strict format;
`DatabaseFails` is a statement, a connection or a commit that fails before, or inside,
the transaction that stores.

`imp` is the import's transaction: its options, the file and the position in it, what
it has written (`work`, visible to nobody before the commit), and the loop of the
publication passes. `Promises` is `planImportContent` with `--publish-ready`, evaluated
when the import begins. A source of a file stands for its URL and the key derived from
it. `FilledAfter` allows both outcomes when the file has some of the missing values and
which of them were missing is not represented.

### Accounts

`user` is the table, `task[t]` a request between two of its statements, `sessions` the
tokens clients hold by purpose, `cookies` the signed sessions of a Discord redirect,
`tickets` the login tickets issued and `consumed` the used ones that the process
remembers. Every action is what a request does up to its next `await`; `Writable` is the
pair of unique indexes; `LoadUser` and `SaveUser` are the entity that `update` loads,
changes and saves as a whole. `Fail` ends a request between any two statements and
`Restart` empties the memory. `changed`, `attached` and `uses` are history variables.
A password is only whether there is one and whether `change-password` has stored one,
not whose it is: an administrator's PATCH may set another one without asking for a change. Roles, owners and names are left out, so every
administrator's request is one that the role checks let through; the state and PKCE
checks of OAuth tie a callback to the browser that began it and are taken as given.

### Questionnaires

A task is one edit with what it has read: it reads, checks `ValidQuestions` on that, and
writes in later statements, with neither lock nor transaction. `Served` is what
`getActiveQuestionnaire` requires before it answers, `Visible` is `isQuestionVisible`.
`serial` is chosen at the start of a behaviour: in the serial ones an edit begins when
the last has ended, in the others they race. Starting forms that break the rules are
ones that races can leave; only racing behaviours start from them.

### RateLimit, AuditBuffer and Process

`storage` is the guard's map; `admitted` is a history of the times at which each key was
let through. `Flush`, `Record`, `TimerFlush`, `InsertAnswers` and `InsertRejects` are
`audit-log.service.ts` between two awaits: a flush in flight takes nothing more, a
refused batch is tried once again and then logged and dropped. `InsertRejects` may also
be an answer that is lost after the insert committed. In `Process` a request is counted,
then handled, and recorded when it ends; refused requests are recorded by the exception
filter; an orderly stop waits for the requests, then runs the hooks; a crash may come
anywhere.

## What the runs check

| Run | Instance | Result |
| --- | --- | --- |
| `catalog` | 3 courses, 1 entry per taxonomy | 24 575 states; all six invariants hold |
| `catalog_tx` | 2 courses, 1 entry, 2 transactions | about 24 000 states; type, `LoadedStillCurrent`, refinement hold |
| `roadmaps` | 2 courses, 1 roadmap, 2 handlers, progress 0 and 100, 2 lists | 478 559 states up to symmetry; all hold |
| `lost_progress` | the same | `ReplaceKeepsProgress` violated |
| `rename_restores` | the same | `RenameOnlyRenames` violated |
| `draft_hides_roadmap` | the same; one request at a time is enough | `ListedCoursesVisible` violated |
| `assessments` | 1 student, 2 transactions, 4 definitions, 4 answer sheets, 1 edit, 2 versions, 2 assessments | about 668 000 states; all hold |
| `catalog_clients` | 3 courses, 2 entries, 3 sources, 4 files, 1 generation, 1 import, 1 administrator's write, 3 starting databases | 85 168 states; all five invariants hold and every request ends |
| `accounts` | 2 accounts, e-mails, identities and concurrent requests, 4 requests, 1 ticket living 2 ticks, clock to 2, any table of up to 2 accounts | 208 926 states; all hold |
| `questionnaires` | 3 questions, 2 options, 2 concurrent edits, 3 edits, 3 starting forms | 137 929 states; both hold |
| `process` | 2 keys (1 and 2 requests in 2 ticks), clock to 2, buffer of 2, 4 events, pruning from 1 entry | 430 204 states; all three invariants hold and every event settles |
| `connection_pool` | 2 list requests, 1 catalog write, 2 reads, 4 connections | 7 640 states; safety and liveness hold |

Why the bounds are enough. Three courses give chains, diamonds without the top and
cycles of every length up to three, so the recursion of the cycle query matters
(looking one level deep is caught); one entry per taxonomy already gives empty and
non-empty tags and deletion races. Two transactions are enough to interleave
because each acts on its own entity and the rest share the lock; the proofs remove
the bound. For roadmaps, two handlers give every pair of requests on one roadmap, and two
lists let it be created and replaced while the other handler still has what it loaded
before; requests on different roadmaps meet only at the lock and in the numbering of the
lists. (Two roadmaps, 1 983 271 states, hold too but take longer.) The proofs remove the bound.
Progress only matters as complete or not, and
as changed or not. In the pool, three requests that take the lock and four
connections are the largest load that is still safe; with three connections TLC
reports that `HolderCanGoOn` fails and the requests wait for each other for ever:
two wait for the lock with a connection each, and the holder, with the third, waits
for a connection.

For assessments, two transactions give two configurations, two submissions and one of
each; the four definitions ask for an area, a technology, one skill and twice the same
skill, so that reconfiguring releases an entry that a profile still names; one edit at
any moment is enough to make a form, a snapshot or a definition stale, because each is
only compared with what was read once; the edits include a new wording, an option
that goes away and a choice that becomes multiple.

For the clients of the catalog, one generation, one import and one write are each pair
and the triple that can interleave; three courses make a chain that passes through the
publication loop more than once in the wrong order of the file (`SinglePass` is caught),
and a candidate limit of two cuts a chain of three. The four files name a chain in both
orders, a source that is linked instead of created, incomplete records, and nothing; the
starting databases have a published chain, imported drafts, and a course of an
administrator at the URL of a source. For accounts, two requests race for one e-mail or
one identity, and four are enough for a creation, a login, a change of password and an
edit; a ticket that lives two ticks expires, and is purged, within the clock's bound. For
questionnaires, three questions make a parent, a child and a third one, and three edits
suffice for two that race and one that repairs. For the process, pruning from the first
entry makes it happen on every request, and four events overflow a buffer of two
while a flush is in flight. The clock's bound lets each key open a second window, so that a
span straddles the two: the key of two requests in two ticks is admitted at 0, 1, 2 and 2,
three times within less than its window, which is the most that `AdmissionsBounded`
allows; one admission less in its bound is violated.

The three violations are disagreements between the documentation and the code:

* `lost_progress`: the rewritten list carries the progress read when the
  replacement began, and overwrites one saved since.
* `rename_restores`: renaming saves the loaded memberships too, so it can restore an
  old progress or a removed roadmap.
* `draft_hides_roadmap`: only published dependents keep a course from returning to
  draft; a roadmap that lists it can then not be read, nor the list it is in.

The first two need two simultaneous requests for the same roadmap, which nothing in the
code prevents. `roadmaps` shows, for the same requests, the most such a race can do: a
progress is lost only to a request that loaded the list before (`ProgressLostOnlyToStaleLoad`),
a removed roadmap returns only by a rename that loaded it (`OnlyStaleRenameRevives`), an
old membership may return beside the new list, and no list is mixed, cut or reordered
(`SavedListIsWhole`, `ListsChangeOnRequest`).

Not a violation of any documented claim, but worth knowing: ten simultaneous
requests that take the lock, one of which creates or replaces a roadmap, stop a
process with the default pool.

Deadlock is checked where the system never has to stop (catalog, roadmaps,
assessments, the pool). In `catalog_clients`, `accounts`, `questionnaires` and `process`
the bounds on requests, events and the clock end the behaviours, and their
configurations say so.

### Fairness

* `ConnectionPool`: weak fairness of `Connect` and `GetLock` is the pool serving its queue
  and the database granting a free lock, both first come, first served; weak fairness of
  a request's own steps is the event loop running a handler whose statement has
  returned. Nothing is assumed of arrivals.
* `RoadmapGeneration`: weak fairness of an answer or a failure, because the client's
  timeout ends every call; strong fairness of `BeginSave`, because PostgreSQL queues the
  waiters of an advisory lock; weak fairness of the check and the save.
* `ContentImport`: weak fairness of a step of the transaction. A failure is allowed at
  any point and never required.
* `Process`: weak fairness of the timer, which fires again and again, of the settlement
  of an insert, since the pool answers or rejects every query, and of the exit of a
  process whose hooks have ended. No request has to arrive and no crash to happen.

## What is proved

The proofs hold for every value of the constants. What they assume of them is stated in
each module: `NoTx \notin Tx` in `CatalogTx`; in `PoolAssumption` a finite set of
requests, a positive pool and disjoint kinds of requests; in `RoadmapsAssumption` a
finite set of courses and markers that are no id; in `AssessmentsAssumption` a marker
that is no transaction, entries in two taxonomies, at most one technology in a rule (its
id is optional), one option in the answer to a single choice, and texts as `Trim` reads
them; in `AccountsAssumption` a starting table that is typed and obeys the unique
indexes, and a positive life of the tickets; in `QuestionnairesAssumption` typed
starting forms; in `RateLimitAssumption` and `AuditAssumption` positive limits, windows
and buffer. In the modules of the clients: holders of the lock that are distinct, a
`NoCourse` that is no course, positive limits of candidates and courses, files whose
entries have distinct keys (`parseCourseSource` refuses others), and starting databases
that are `Lawful`: typed, within the foreign keys, finite, acyclic, with published
courses complete and closed under prerequisites. That is what any sequence of
administrators' writes leaves, by the first part of `CatalogProofs`; `EmptyIsLawful`
shows that the migrations' empty database is one, so that the assumption can be met, and
`LawIsKept` that generations and imports keep it, so that a behaviour may begin where
another one stopped. The database of the run, with courses, prerequisites and markers,
satisfies it too: TLC evaluates the assumption.

* `CatalogProofs`: `TypeOK`, `NoDanglingReference`, `PrerequisitesAcyclic`,
  `PublishedClosed`, `PublishedComplete` are invariants. `PrerequisitesAcyclic` is not
  inductive alone: a creation adds edges out of a course that nothing may point at yet,
  which is `NoDanglingReference`, and an edit adds edges from `c` into `Reachable(P)`,
  which is closed and does not contain `c` (`RedirectKeepsAcyclic`).
  `PublishedSelectable` adds that finitely many courses exist: the published ones, being
  finite, closed and acyclic, can be listed so that each comes after what it requires
  (`OrderedAreSelectable`), and the list up to a course is a selection that ends in it.
  The induction is over a set of numbers (`LeastNumber`, `Reaches`) or of subsets, from
  the well-foundedness of the strict subsets of a finite set, because the library's
  induction theorems take a predicate.
* `CatalogProofs`, for the composition `CatalogClients`: one inductive invariant,
  `ClientsInv`, and from it `CatalogRulesHold`, `PlanIsSelection`,
  `CandidatesAnswerable`, `ImportOnlyCompletes` and `PlanNeverOverpromises`. It says
  what is true between any two statements:
  * `Lawful(Committed)`: the rules of the catalog, which `CatalogRulesHold` is part of;
  * `LockHeld`: the lock's holder is the one transaction open under it. Without it an
    administrator's write could come between the import's read and its commit;
  * `GenOK`: a request that asks has a candidate without prerequisites among its
    candidates (they are closed, finite and acyclic), from which `CandidatesAnswerable`
    follows; a fallback or a plan it keeps is accepted for the catalog it was computed
    from, whatever the answers were; and a plan checked under the lock is valid for the
    catalog as it is;
  * `ImportOK`, for the open import: its `work` is lawful, although nobody sees it, as
    it will be what is committed; it differs from the committed database only by
    completions (`Completes`), which is `ImportOnlyCompletes`; a course is waiting for
    publication only if the file made or marked it (`PendingOK`); nothing is written for
    entries to come (`Ahead`), so that the preview's reading of them still holds when
    the loop reaches them; every promise was made knowing the earlier ones
    (`PromisesMade`) and its course is complete, waiting or published, and requires only
    published or promised courses (`PromisesKept`); and what a pass without progress has
    gone over cannot be published (`PassOK`).

  `PlanNeverOverpromises` then follows from the first promise of the file that is
  broken: its course waits, all its prerequisites are published because promises before
  it are kept, so the last pass would have published it. The loops of the code
  (`SelectCandidates`, `Coerced`, the promises of the preview) are recursive
  functions over numbers; what a proof needs of them is shown by the same induction over
  sets of numbers.
* `CatalogTxProofs`: `TxTypeOK` and `LoadedStillCurrent` are invariants, and
  `TxSpec => Catalog!Spec`. The inductive invariant adds that only the lock holder
  is inside a transaction and that an entity that has been checked is acceptable to
  the catalog as it is now (`CheckedAccepted`); with it, each commit is one of the
  atomic writes.
* `ConnectionPoolProofs`: if fewer requests take the lock than there are connections,
  `HolderCanGoOn` is an invariant, by counting: while the holder waits for its
  second connection each request has at most one. `TypeOK` holds with no such condition.
* `RoadmapsProofs`: for any requests, `TypeOK` and `CheckedSelectionStaysValid` are
  invariants: a checked selection belongs to a handler that holds the lock, and the
  catalog only changes while nobody does. `SavedListIsWhole`, `ProgressLostOnlyToStaleLoad`,
  `OnlyStaleRenameRevives` and `ListsChangeOnRequest` hold for any interleaving, although
  what a handler loaded may be stale. `ListsInv` says what stays true of it nevertheless: a
  membership, stored or loaded, is a row of the list it names in the history (`RowOf`), and
  the same key always stands for the same course and position; a roadmap that is saved
  has one list entire (`Stored`); and what a rename or a replacement loaded was, when it
  loaded it, the whole of a saved roadmap (`LoadedOK`), so that writing it back is lawful
  again. A rename whose load lacks a row that is stored is refused by the database.
* `AssessmentsProofs`: `ProfileMatchesFormShown`, `VersionNamesOneDefinition`,
  `NamedEntriesExist`, `OneLevelPerSkill` and `ConfigurationsNeverLost`, for any
  transactions, edits and deletions. `AssessmentsInv` collects every configuration
  somebody has seen, stored in the row, read by an open transaction or copied into an
  assessment (`Seen`), and says that none has a version above the row's and that two
  with one version have the same rules: a configuration that commits finds the row it
  read, so its version is new to all of them. `TypeOK` needs `TypeInv` beside it, the
  types of what transactions read. The references of a profile are what its JSON names
  (`AssessmentOK`), and references exist (`RefsOK`), so what the JSON names exists.
* `AccountsProofs`: the four properties of the run. `AccountsInv` says what each request
  between two statements may have in memory (`JobOK`): an entity loaded by an edit keeps
  `mustChange` unless the owner has stored a password by then, and writes an identity
  that is attached. `SessionsOK`, `CookiesOK` and `TicketsOK` relate what clients hold to
  the table and the history; a used ticket is remembered until it has expired, which is
  what `TicketUsedOnce` rests on.
* `QuestionnairesProofs`: both properties of the run. In a serial behaviour at most one
  task is at work, so what it checked is still what is stored when it writes; a served
  form passes `ValidQuestions` itself, and `ServedQuestionsReachable` follows from what a
  valid condition says of its parent.
* `ProcessProofs`: `AdmissionsBounded`, `RefusalsEarned` and `EventsAccounted`. `LimitInv`
  says that an entry counts the last requests admitted and that all earlier ones belong to
  windows that have ended, so that of any `2 * Limit` consecutive admissions the first
  and the last are a window apart. It is an invariant of
  `RateLimitSpec`, the guard alone, and `ProcessLimits` shows that the process implements
  it, with its stops and restarts; `AuditInv` orders stored, inserting and waiting events.

Every safety invariant, action property and refinement that a passing run checks is
stated by one of these theorems. The runs came first: TLC looks for the counterexample
on a small instance before a proof is attempted, the parts of `ClientsInv` included, and
the mutants show that each property depends on the code.

Only model-checked: what must eventually happen (`EveryRequestAnswered`,
`EveryRequestEnds`, `EventsSettle`). Liveness under fairness and `ENABLED` are beyond
the prover. What the violation runs show is a counterexample and needs no theorem.

## What modelling found besides

None of these contradicts a property above; they are written down for whoever changes the
code next.

* Questionnaires: `docs/questions.md` says that deactivating a parent or deleting an
  option in use is refused. Two edits that race can still leave such a form; the
  learner's read then answers an error, and after two such races no single edit of a
  question repairs it, because each is checked against all the others.
* Accounts: a PATCH saves the entity it loaded, so it can undo a deactivation, a link or a
  change of role that another request made in between. Two links racing on one account
  both succeed and the last one stays. The link of an inactive account is stored before
  the refusal. Listing users has no `ORDER BY`, so pages may overlap.
* Tickets: `docs/auth.md` calls a login ticket single use; used tickets are remembered in
  memory, so after a restart, or in another process, one can be exchanged again until it
  expires.
* Rate limit: "120 peticiones por minuto" (`docs/common.md:12`) is the limit of a fixed
  window; a minute that straddles two windows admits up to 239. Counters are
  per process.
* Audit: events that arrive while the flush that a stop finds in flight is being inserted
  are not written. A batch whose answer is lost is inserted again, or logged as dropped
  although it is stored. The `catch` of `flushBufferedLogs` that puts events back is never
  reached, because `insertBatch` does not reject.
* Import: the preview says "blocked" of a course that `--fill-missing --publish-ready`
  would complete and publish; it lists no fills for archived courses, which the import
  fills; and it says "link" where the import stops because the course was imported from
  another source. It never promises a publication that does not happen, which is what
  `PlanNeverOverpromises` checks.

## What is left

An abstract specification of the import, one step from a committed database to a
completed one, with `CatalogClients` shown to implement it; `ImportOnlyCompletes` and
`CatalogRulesHold` are its two halves today. That the recursive functions which model
the loops return the same list as a closed definition would say more than the properties
proved of them.

## Not modelled

Formatting of requests and answers, pagination, logging, the HTTP layer's guards beyond
what a model says, roles and ownership, the cryptography, environment parsing, the
deployment script, a clock that goes back, and two-factor authentication, whose
controller is not registered and whose requirement is switched off in the code. Reads
that change no state appear only where a property is about what they answer. Nested
faults of the database (a commit whose answer is lost) are seen as either outcome.

## Running

`tlc -config MCCatalog.cfg MCCatalog.tla` and likewise for the other
configurations (`MCRoadmapsRename.cfg` and the other violation configurations use
`MCRoadmaps.tla`); `tlapm CatalogProofs.tla` and likewise for the other proof modules.
