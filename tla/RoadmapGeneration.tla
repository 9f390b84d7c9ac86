-------------------------- MODULE RoadmapGeneration --------------------------
(***************************************************************************)
(* RoadmapGenerationService.generate: read the published catalog, choose     *)
(* candidate courses for a profile, ask a language model for a plan (twice   *)
(* at most), and store the plan as a roadmap under the catalog lock.  The    *)
(* catalog may change at any time until the lock is taken.                   *)
(*                                                                         *)
(* Abstracted data: an answer of the model is whether it is JSON, whether    *)
(* title and rationale are texts, and its courseIds; the score that ranks    *)
(* candidates depends on levels this catalog leaves out, so any ranking is   *)
(* allowed.                                                                 *)
(***************************************************************************)
EXTENDS CatalogLock

CONSTANTS Requests,            \* generation requests
          Profiles,            \* assessment profiles: [Kind -> SUBSET Entries]
          Answers,             \* answers the model may give
          MaxCandidateCourses, \* MAX_CANDIDATE_COURSES
          MaxRoadmapCourses,   \* MAX_ROADMAP_COURSES
          CustomServer         \* openai.baseURL is configured

ASSUME GenerationAssumption ==
  /\ Requests \subseteq Holders
  /\ Profiles \subseteq [Kind -> SUBSET Entries]
  /\ MaxCandidateCourses \in Nat \ {0}
  /\ MaxRoadmapCourses \in Nat \ {0}
  /\ CustomServer \in BOOLEAN
  /\ \A a \in Answers : a.ids \in Seq({a.ids[i] : i \in DOMAIN a.ids})

VARIABLE gen    \* gen[g]: what request g has computed so far

Fresh == [phase |-> "start", candidates |-> {}, needs |-> << >>,
          attempt |-> 0, plain |-> FALSE, fallback |-> << >>, plan |-> << >>]

GenInit == gen = [g \in Requests |-> Fresh]

-----------------------------------------------------------------------------
(* Choosing candidates.                                                    *)

\* The technologies of a profile are the ones it is interested in and the ones
\* it reports a skill in.
Matches(c, p) == \E k \in Kind : tags[c][k] \cap p[k] # {}

\* Every order in which the matching courses may be ranked.
Rankings(S) ==
  {r \in [1..Cardinality(S) -> S] : \A i, j \in DOMAIN r : i # j => r[i] # r[j]}

\* Faulty variant: leaves the prerequisites of a match out.
NotClosedOverPrerequisites(S) == S

\* S and the published courses its members require, directly or not.
ClosedOverPrerequisites(S) ==
  {x \in Published : \A T \in SUBSET Published :
     S \subseteq T /\ (\A y \in T : prereqs[y] \cap Published \subseteq T) => x \in T}

\* The loop over the ranked courses: a course joins with its prerequisites if
\* they all fit, the first one always.
SelectCandidates(ranked) ==
  LET chosen[i \in 0 .. Len(ranked)] ==
        IF i = 0 THEN {}
        ELSE LET next == ClosedOverPrerequisites(chosen[i - 1] \cup {ranked[i]})
             IN  IF chosen[i - 1] = {} \/ Cardinality(next) <= MaxCandidateCourses
                 THEN next
                 ELSE chosen[i - 1]
  IN chosen[Len(ranked)]

-----------------------------------------------------------------------------
(* Reading the model's answer against the candidates of request r.          *)

\* selectionError finds nothing.
SelectionAccepted(r, ids) ==
  /\ ids # << >>
  /\ Len(ids) <= MaxRoadmapCourses
  /\ \A i \in DOMAIN ids :
       /\ ids[i] \in r.candidates
       /\ \A j \in 1 .. (i - 1) : ids[j] # ids[i]
       /\ r.needs[ids[i]] \subseteq {ids[j] : j \in 1 .. (i - 1)}

\* readDraft returns a plan.
DraftAccepted(r, a) == a.json /\ a.texts /\ SelectionAccepted(r, a.ids)

\* coerceDraft: what can be kept of a rejected answer, up to the limit.
Coerced(r, ids) ==
  LET kept[i \in 0 .. Len(ids)] ==
        IF i = 0 THEN << >>
        ELSE LET k == kept[i - 1]
                 available == {k[j] : j \in DOMAIN k}
             IN  IF /\ Len(k) < MaxRoadmapCourses
                    /\ ids[i] \in r.candidates \ available
                    /\ r.needs[ids[i]] \subseteq available
                 THEN Append(k, ids[i])
                 ELSE k
  IN kept[Len(ids)]

-----------------------------------------------------------------------------
(* The request.                                                            *)

Become(g, r) == gen' = [gen EXCEPT ![g] = r]

\* getProfileForUser, getPublishedCatalog and selectCandidates; 409 when no
\* published course matches.
ReadCatalog(g) ==
  /\ gen[g].phase = "start"
  /\ \E p \in Profiles : \E ranked \in Rankings({c \in Published : Matches(c, p)}) :
       LET chosen == SelectCandidates(ranked)
       IN  Become(g, IF chosen = {}
                     THEN [Fresh EXCEPT !.phase = "refused"]
                     ELSE [Fresh EXCEPT !.phase = "asking", !.attempt = 1,
                                        !.candidates = chosen,
                                        !.needs = [c \in chosen |-> prereqs[c]]])
  /\ UNCHANGED <<vars, lock>>

\* A local server that rejects the strict response format is asked once more
\* with plain parameters, within the same attempt.
FormatRejected(g) ==
  /\ gen[g].phase = "asking"
  /\ CustomServer /\ ~gen[g].plain
  /\ Become(g, [gen[g] EXCEPT !.plain = TRUE])
  /\ UNCHANGED <<vars, lock>>

\* Timeout, error status or empty completion, after the client's own retry: 502.
CallFails(g) ==
  /\ gen[g].phase = "asking"
  /\ Become(g, [Fresh EXCEPT !.phase = "refused"])
  /\ UNCHANGED <<vars, lock>>

\* One turn of planRoadmap's loop.  "last" survives an answer that is not JSON,
\* so what the first answer leaves can become the plan after the second.
AnswerArrives(g) ==
  /\ gen[g].phase = "asking"
  /\ \E a \in Answers :
       LET r == gen[g]
           rest == IF a.json THEN Coerced(r, a.ids) ELSE r.fallback
       IN  Become(g,
             IF DraftAccepted(r, a)
             THEN [r EXCEPT !.phase = "planned", !.plan = a.ids, !.fallback = << >>]
             ELSE IF r.attempt = 1
             THEN [r EXCEPT !.attempt = 2, !.plain = FALSE, !.fallback = rest]
             ELSE IF rest = << >>
             THEN [Fresh EXCEPT !.phase = "refused"]
             ELSE [r EXCEPT !.phase = "planned", !.plan = rest, !.fallback = << >>])
  /\ UNCHANGED <<vars, lock>>

\* Faulty variant: stores the roadmap without the catalog lock.
BeginWithoutLock(g) ==
  /\ gen[g].phase = "planned"
  /\ Become(g, [gen[g] EXCEPT !.phase = "locked"])
  /\ UNCHANGED <<vars, lock>>

\* withCatalogLock.
BeginSave(g) ==
  /\ gen[g].phase = "planned"
  /\ TakeLock(g)
  /\ Become(g, [gen[g] EXCEPT !.phase = "locked"])
  /\ UNCHANGED vars

\* validatedSelection on the catalog as it is now; 409 and ROLLBACK otherwise.
CheckPlan(g) ==
  /\ gen[g].phase = "locked"
  /\ IF ValidSelection(gen[g].plan, {})
     THEN Become(g, [gen[g] EXCEPT !.phase = "checked"]) /\ UNCHANGED lock
     ELSE Become(g, [Fresh EXCEPT !.phase = "refused"]) /\ ReleaseLock(g)
  /\ UNCHANGED vars

\* The roadmap and its rows are inserted and COMMIT releases the lock.
StoreRoadmap(g) ==
  /\ gen[g].phase = "checked"
  /\ Become(g, [Fresh EXCEPT !.phase = "saved"])
  /\ ReleaseLock(g)
  /\ UNCHANGED vars

\* A statement, the connection or the COMMIT fails while nothing is asked of the
\* model: 500, and ROLLBACK if the transaction had begun.
DatabaseFails(g) ==
  /\ \/ gen[g].phase \in {"start", "planned"} /\ UNCHANGED lock
     \/ gen[g].phase \in {"locked", "checked"} /\ ReleaseLock(g)
  /\ Become(g, [Fresh EXCEPT !.phase = "refused"])
  /\ UNCHANGED vars

Generate(g) ==
  \/ ReadCatalog(g) \/ FormatRejected(g) \/ CallFails(g) \/ AnswerArrives(g)
  \/ BeginSave(g) \/ CheckPlan(g) \/ StoreRoadmap(g) \/ DatabaseFails(g)

\* The client's timeout ends every call, and PostgreSQL queues the waiters of an
\* advisory lock.
GenFairness ==
  \A g \in Requests :
    /\ WF_gen(AnswerArrives(g) \/ CallFails(g))
    /\ SF_gen(BeginSave(g))
    /\ WF_gen(CheckPlan(g) \/ StoreRoadmap(g))

-----------------------------------------------------------------------------
(* Properties.                                                             *)

\* What request r read of its candidates is still so.
StillCurrent(r) ==
  /\ r.candidates \subseteq Published
  /\ \A c \in r.candidates : prereqs[c] = r.needs[c]

\* The planner and the catalog agree on what a roadmap is: a plan, accepted or
\* put together from rejected answers, is a selection the catalog accepts unless
\* a candidate changed since it was read; and once the save has checked it, it
\* stays one until it is stored, whatever administrators and the import do.
PlanIsSelection ==
  \A g \in Requests :
    /\ gen[g].phase \in {"planned", "locked"} /\ StillCurrent(gen[g])
         => ValidSelection(gen[g].plan, {})
    /\ gen[g].phase = "checked" => ValidSelection(gen[g].plan, {})

\* The model is never asked for the impossible: whatever the ranking and the
\* prompt budget cut, some answer made of the offered courses is acceptable.
CandidatesAnswerable ==
  \A g \in Requests : gen[g].phase = "asking" =>
    \E c \in gen[g].candidates : SelectionAccepted(gen[g], <<c>>)

\* Every request that has asked the model ends: with a roadmap or an error.
EveryRequestEnds ==
  \A g \in Requests : gen[g].phase = "asking" ~> gen[g].phase \in {"saved", "refused"}
=============================================================================
