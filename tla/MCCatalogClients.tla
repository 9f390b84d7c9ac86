-------------------------- MODULE MCCatalogClients --------------------------
(* Model-checking instance of CatalogClients: three courses, two entries and   *)
(* three sources; the starting databases are a published chain, an unpublished *)
(* chain that was imported, and a course of an administrator with a source's   *)
(* URL next to an imported draft.                                             *)
EXTENDS CatalogClients, TLC

MCCourses == 1 .. 3
Tagged(e) == [k \in Kind |-> {e}]

Chain ==
  [taxonomy |-> [k \in Kind |-> {"e1", "e2"}],
   status |-> [c \in MCCourses |-> "published"],
   filled |-> [c \in MCCourses |-> TRUE],
   tags |-> <<Tagged("e1"), Tagged("e1"), Tagged("e2")>>,
   prereqs |-> <<{}, {1}, {2}>>,
   url |-> [c \in MCCourses |-> "none"],
   marker |-> [s \in {"s1", "s2", "s3"} |-> 0],
   form |-> NoTags]

ImportedDrafts ==
  [Chain EXCEPT !.status = <<"draft", "draft", "absent">>,
                !.filled = <<TRUE, FALSE, FALSE>>,
                !.tags = <<Tagged("e1"), [Tagged("e1") EXCEPT !["technologies"] = {}], NoTags>>,
                !.prereqs = <<{}, {1}, {}>>,
                !.url = <<"s1", "s2", "none">>,
                !.marker = [@ EXCEPT !["s1"] = 1, !["s2"] = 2],
                !.form = Tagged("e1")]

Mixed ==
  [ImportedDrafts EXCEPT !.filled = <<TRUE, TRUE, FALSE>>,
                         !.taxonomy = Tagged("e1"),
                         !.tags = <<Tagged("e1"), Tagged("e1"), NoTags>>,
                         !.marker["s1"] = 0,
                         !.form = NoTags]

MCCatalogs == {Chain, ImportedDrafts, Mixed}

Source(key, technologies, curated) ==
  [key |-> key, category |-> "e1", technologies |-> technologies, curated |-> curated]

MCFiles == {<<Source("s1", {"e2"}, TRUE), Source("s2", {"e2"}, TRUE)>>,
            <<Source("s2", {"e1"}, FALSE), Source("s1", {}, TRUE)>>,
            <<Source("s3", {"e2"}, TRUE), Source("s2", {}, TRUE)>>,
            << >>}

MCProfiles == {[k \in Kind |-> {e}] : e \in {"e1", "e2"}}

Answer(ids) == [json |-> TRUE, texts |-> TRUE, ids |-> ids]

MCAnswers == {Answer(ids) : ids \in {<<1>>, <<1, 2>>, <<2, 1>>, <<9, 1, 1, 2>>, <<1, 2, 3>>, << >>}}
             \cup {[Answer(<<1, 2>>) EXCEPT !.texts = FALSE], [Answer(<< >>) EXCEPT !.json = FALSE]}

MCEditedTags == {Tagged("e1"), Tagged("e2")}
=============================================================================
