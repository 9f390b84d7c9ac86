----------------------------- MODULE MCAccounts -----------------------------
(* Model-checking instance of Accounts.  Accounts, e-mails, identities and     *)
(* requests are interchangeable; so are the tables the instance starts from:   *)
(* empty, with one account, or with two.                                      *)
EXTENDS Accounts, TLC

Person(e, managed) ==
  [email |-> e, discord |-> Nothing, password |-> TRUE, active |-> TRUE, mustChange |-> managed]

People == {Person(e, managed) : e \in Emails, managed \in BOOLEAN}

MCTables ==
  {T \in [Accounts -> People \cup {Nothing}] :
     \A a, b \in Accounts : a # b /\ T[a] # Nothing /\ T[b] # Nothing => T[a].email # T[b].email}

NoEdit == [email |-> Nothing, active |-> Nothing, password |-> FALSE]
MCEdits ==
  {NoEdit, [NoEdit EXCEPT !.password = TRUE]}
  \cup {[NoEdit EXCEPT !.email = e] : e \in Emails}
  \cup {[NoEdit EXCEPT !.active = b] : b \in BOOLEAN}

MCProfiles ==
  [id : Identities, email : Emails, verified : {TRUE}]
  \cup [id : Identities, email : Emails \cup {Nothing}, verified : {FALSE}]

Symmetry == Permutations(Accounts) \cup Permutations(Emails)
            \cup Permutations(Identities) \cup Permutations(Tasks)
=============================================================================
