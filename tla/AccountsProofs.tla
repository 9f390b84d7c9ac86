---------------------------- MODULE AccountsProofs ----------------------------
(***************************************************************************)
(* One inductive invariant for the accounts, and what follows from it for any *)
(* accounts, e-mails, identities, edits, number of requests and bounds.       *)
(***************************************************************************)
EXTENDS Accounts, TLAPS

Ticket == [account : Accounts, identity : Identities, expires : Nat]

\* The accounts of a table u.
Has(u) == {a \in Accounts : u[a] # Nothing}

\* A users table u, the owners C who stored a password and the attachments A.
TableOK(u, C, A) ==
  /\ u \in [Accounts -> Row \cup {Nothing}]
  /\ A \subseteq Has(u) \X Identities
  /\ \A a \in Has(u) :
       /\ ~u[a].mustChange => a \in C
       /\ u[a].discord # Nothing => <<a, u[a].discord>> \in A
  /\ \A a, b \in Has(u) : a # b =>
       /\ u[a].email # u[b].email
       /\ u[a].discord = Nothing \/ u[a].discord # u[b].discord

\* What a request has computed is still worth something to the accounts E.
JobOK(j, E, C, A) ==
  /\ j.step = "insert" =>
       /\ j.row \in Row /\ j.row.discord = Nothing
       /\ j.answer # Nothing /\ j.answer = "access" => ~j.row.mustChange
  /\ j.step \in {"open", "clear"} => j.account \in E /\ j.account \in C
  /\ j.step \in {"password", "load", "finalize"} => j.account \in E
  /\ j.step = "load" => j.edit \in Edits
  /\ j.step = "save" =>
       /\ j.account \in E /\ j.password \in BOOLEAN /\ j.entity \in Row
       /\ ~j.entity.mustChange => j.account \in C
       /\ j.entity.discord # Nothing => <<j.account, j.entity.discord>> \in A
  /\ j.step \in {"by_email", "create"} => j.profile \in VerifiedProfiles
  /\ j.step \in {"claim", "link"} =>
       j \in [step : {"claim", "link"}, account : E, identity : Identities, active : BOOLEAN]

\* Tickets T, how often each was used U, and the used ones K remembered at time n.
TicketsOK(T, K, U, n, A) ==
  /\ T \in Seq(Ticket) /\ U \in Seq(Nat) /\ Len(U) = Len(T) /\ n \in Nat
  /\ \A k \in 1 .. Len(T) :
       /\ <<T[k].account, T[k].identity>> \in A
       /\ T[k].expires <= n + TicketLife
       /\ U[k] <= 1
       /\ U[k] = 1 => \/ T[k].expires <= n
                      \/ k \in DOMAIN K /\ K[k] \in Nat /\ T[k].expires <= K[k]

SessionsOK == \A a \in Accounts : <<a, "access">> \in sessions => a \in changed
CookiesOK == \A s \in cookies : s.intent = "link" => s.account \in Existing

AccountsInv ==
  /\ TableOK(user, changed, attached)
  /\ DOMAIN task = Tasks
  /\ \A t \in Tasks : JobOK(task[t], Existing, changed, attached)
  /\ SessionsOK /\ CookiesOK
  /\ TicketsOK(tickets, consumed, uses, now, attached)

-----------------------------------------------------------------------------
(* The parts of the invariant.                                             *)

LEMMA WrittenExists ==
  ASSUME TableOK(user, changed, attached), NEW a \in Accounts, NEW row \in Row,
         NEW u, u = [user EXCEPT ![a] = row]
  PROVE  Has(u) = Existing \cup {a}
BY AccountsAssumption DEF TableOK, Existing, Has

\* Writing a row the unique indexes let through.
LEMMA WriteRow ==
  ASSUME NEW C, NEW A, TableOK(user, changed, attached),
         NEW a \in Accounts, NEW row \in Row, Writable(a, row),
         changed \subseteq C, attached \subseteq A,
         A \subseteq (Existing \cup {a}) \X Identities,
         ~row.mustChange => a \in C,
         row.discord # Nothing => <<a, row.discord>> \in A,
         NEW u, u = [user EXCEPT ![a] = row]
  PROVE  TableOK(u, C, A)
<1>1. /\ user \in [Accounts -> Row \cup {Nothing}] /\ Nothing \notin Row
      /\ Existing = Has(user)
  BY AccountsAssumption DEF TableOK, Existing, Has
<1>2. /\ u \in [Accounts -> Row \cup {Nothing}] /\ u[a] = row
      /\ \A b \in Accounts : b # a => u[b] = user[b]
  BY <1>1
<1>3. Has(u) = Existing \cup {a}
  BY WrittenExists
<1>4. ASSUME NEW b \in Has(u)
      PROVE  /\ ~u[b].mustChange => b \in C
             /\ u[b].discord # Nothing => <<b, u[b].discord>> \in A
  <2>1. CASE b = a
    BY <2>1, <1>2
  <2>2. CASE b # a
    BY <2>2, <1>1, <1>2, <1>3 DEF TableOK, Has
  <2>. QED BY <2>1, <2>2
<1>5. ASSUME NEW b \in Existing, b # a
      PROVE  /\ user[b].email # row.email
             /\ user[b].discord = Nothing \/ user[b].discord # row.discord
  BY <1>5 DEF Writable, WithEmail, WithIdentity
<1>6. ASSUME NEW b \in Has(u), NEW c \in Has(u), b # c
      PROVE  /\ u[b].email # u[c].email
             /\ u[b].discord = Nothing \/ u[b].discord # u[c].discord
  <2>1. CASE b = a
    BY <2>1, <1>2, <1>3, <1>5, <1>6 DEF Has
  <2>2. CASE c = a
    BY <2>2, <1>2, <1>3, <1>5, <1>6 DEF Has
  <2>3. CASE b # a /\ c # a
    BY <2>3, <1>1, <1>2, <1>3, <1>6 DEF TableOK, Has
  <2>. QED BY <2>1, <2>2, <2>3
<1>. QED BY <1>2, <1>3, <1>4, <1>6 DEF TableOK

\* A row that keeps the e-mail and the identity of its account.
LEMMA SameKeysWritable ==
  ASSUME TableOK(user, changed, attached), NEW a \in Existing, NEW row \in Row,
         row.email = user[a].email, row.discord = user[a].discord
  PROVE  Writable(a, row)
BY DEF TableOK, Has, Existing, Writable, WithEmail, WithIdentity

\* A table that only grows spoils no request.
LEMMA JobsLater ==
  ASSUME NEW j, NEW E, NEW C, NEW A, NEW E2, NEW C2, NEW A2, JobOK(j, E, C, A),
         E \subseteq E2, C \subseteq C2, A \subseteq A2
  PROVE  JobOK(j, E2, C2, A2)
BY DEF JobOK

LEMMA IdleOK == ASSUME NEW E, NEW C, NEW A PROVE JobOK(Idle, E, C, A)
BY DEF JobOK, Idle

\* A step of one request.
LEMMA StepKeepsInv ==
  ASSUME AccountsInv, NEW t \in Tasks, NEW job, task' = [task EXCEPT ![t] = job],
         TableOK(user', changed', attached'),
         Existing \subseteq Existing', changed \subseteq changed', attached \subseteq attached',
         JobOK(job, Existing', changed', attached'),
         \A a \in Accounts : <<a, "access">> \in sessions' \ sessions => a \in changed',
         \A s \in cookies' \ cookies : s.intent = "link" => s.account \in Existing,
         TicketsOK(tickets', consumed', uses', now', attached')
  PROVE  AccountsInv'
<1>1. DOMAIN task = Tasks /\ \A s \in Tasks : JobOK(task[s], Existing, changed, attached)
  BY DEF AccountsInv
<1>2. DOMAIN task' = Tasks
  BY <1>1
<1>3. ASSUME NEW s \in Tasks PROVE JobOK(task'[s], Existing', changed', attached')
  <2>1. CASE s = t
    BY <2>1, <1>1
  <2>2. CASE s # t
    <3>1. task'[s] = task[s] /\ JobOK(task[s], Existing, changed, attached)
      BY <2>2, <1>1
    <3>. QED BY <3>1, JobsLater
  <2>. QED BY <2>1, <2>2
<1>4. SessionsOK' /\ CookiesOK'
  BY DEF AccountsInv, SessionsOK, CookiesOK
<1>. QED BY <1>2, <1>3, <1>4 DEF AccountsInv

\* ... that leaves the table alone.
LEMMA ReadKeepsInv ==
  ASSUME AccountsInv, NEW t \in Tasks, NEW job, task' = [task EXCEPT ![t] = job],
         UNCHANGED table, JobOK(job, Existing, changed, attached),
         \A a \in Accounts : <<a, "access">> \in sessions' \ sessions => a \in changed,
         \A s \in cookies' \ cookies : s.intent = "link" => s.account \in Existing,
         TicketsOK(tickets', consumed', uses', now', attached)
  PROVE  AccountsInv'
<1>1. /\ user' = user /\ changed' = changed /\ attached' = attached /\ Existing' = Existing
      /\ TableOK(user, changed, attached)
  BY DEF table, Existing, AccountsInv
<1>. QED BY <1>1, StepKeepsInv

\* ... and everything else.
LEMMA ThinkKeepsInv ==
  ASSUME AccountsInv, NEW t \in Tasks, NEW job, task' = [task EXCEPT ![t] = job],
         UNCHANGED <<table, sessions, cookies, tickets, memory, now>>,
         JobOK(job, Existing, changed, attached)
  PROVE  AccountsInv'
<1>1. TicketsOK(tickets', consumed', uses', now', attached)
  BY DEF AccountsInv, memory
<1>2. sessions' = sessions /\ cookies' = cookies
  OBVIOUS
<1>. QED BY <1>1, <1>2, ReadKeepsInv
-----------------------------------------------------------------------------
(* Tickets.                                                                *)

LEMMA TicketsExpire ==
  ASSUME NEW T \in Seq(Ticket), NEW k \in 1 .. Len(T) PROVE T[k].expires \in Nat
<1>1. T[k] \in Ticket
  OBVIOUS
<1>. QED BY <1>1 DEF Ticket

\* A ticket for an account the identity is attached to.
LEMMA IssueKeepsTickets ==
  ASSUME TicketsOK(tickets, consumed, uses, now, attached), NEW A, attached \subseteq A,
         NEW a \in Accounts, NEW d \in Identities, <<a, d>> \in A, IssueTicket(a, d)
  PROVE  TicketsOK(tickets', consumed', uses', now, A)
<1>. DEFINE new == [account |-> a, identity |-> d, expires |-> now + TicketLife]
<1>1. /\ tickets \in Seq(Ticket) /\ uses \in Seq(Nat) /\ Len(uses) = Len(tickets)
      /\ now \in Nat /\ TicketLife \in Nat /\ now + TicketLife \in Nat
  BY AccountsAssumption DEF TicketsOK
<1>2. /\ new \in Ticket /\ <<new.account, new.identity>> = <<a, d>>
      /\ new.expires = now + TicketLife
  BY <1>1 DEF Ticket
<1>. HIDE DEF new
<1>3. /\ tickets' = Append(tickets, new) /\ uses' = Append(uses, 0)
      /\ consumed' = consumed
  BY DEF IssueTicket, new
<1>4. /\ tickets' \in Seq(Ticket) /\ uses' \in Seq(Nat)
      /\ Len(tickets') = Len(tickets) + 1 /\ Len(uses') = Len(tickets')
      /\ tickets'[Len(tickets')] = new /\ uses'[Len(tickets')] = 0
      /\ \A k \in 1 .. Len(tickets) : tickets'[k] = tickets[k] /\ uses'[k] = uses[k]
  BY <1>1, <1>2, <1>3
<1>5. ASSUME NEW k \in 1 .. Len(tickets')
      PROVE  /\ <<tickets'[k].account, tickets'[k].identity>> \in A
             /\ tickets'[k].expires <= now + TicketLife
             /\ uses'[k] <= 1
             /\ uses'[k] = 1 => \/ tickets'[k].expires <= now
                                \/ /\ k \in DOMAIN consumed' /\ consumed'[k] \in Nat
                                   /\ tickets'[k].expires <= consumed'[k]
  <2>1. CASE k = Len(tickets')
    <3>1. tickets'[k] = new /\ uses'[k] = 0
      BY <2>1, <1>4
    <3>2. <<tickets'[k].account, tickets'[k].identity>> \in A
      BY <3>1, <1>2
    <3>3. tickets'[k].expires <= now + TicketLife
      BY <3>1, <1>1, <1>2
    <3>. QED BY <3>1, <3>2, <3>3
  <2>2. CASE k # Len(tickets')
    <3>1. k \in 1 .. Len(tickets) /\ tickets'[k] = tickets[k] /\ uses'[k] = uses[k]
      BY <2>2, <1>1, <1>4
    <3>. QED BY <3>1, <1>3 DEF TicketsOK
  <2>. QED BY <2>1, <2>2
<1>. QED BY <1>1, <1>4, <1>5 DEF TicketsOK

\* A used ticket is purged only when it has expired.
LEMMA ExchangeKeepsTickets ==
  ASSUME TicketsOK(tickets, consumed, uses, now, attached),
         NEW k \in DOMAIN tickets, now < tickets[k].expires,
         NEW kept, kept = {u \in DOMAIN consumed : consumed[u] > now}, k \notin kept,
         consumed' = [u \in kept \cup {k} |-> IF u = k THEN ForgottenAt ELSE consumed[u]],
         uses' = [uses EXCEPT ![k] = @ + 1]
  PROVE  TicketsOK(tickets, consumed', uses', now, attached)
<1>1. /\ tickets \in Seq(Ticket) /\ uses \in Seq(Nat) /\ Len(uses) = Len(tickets)
      /\ now \in Nat /\ TicketLife \in Nat /\ now + TicketLife \in Nat
      /\ k \in 1 .. Len(tickets) /\ k \in 1 .. Len(uses)
  BY AccountsAssumption DEF TicketsOK
<1>2. \A i \in 1 .. Len(tickets) : tickets[i].expires \in Nat /\ uses[i] \in Nat
  BY <1>1, TicketsExpire
<1>3. uses[k] = 0
  <2>1. uses[k] = 1 => \/ tickets[k].expires <= now
                       \/ /\ k \in DOMAIN consumed /\ consumed[k] \in Nat
                          /\ tickets[k].expires <= consumed[k]
    BY <1>1 DEF TicketsOK
  <2>2. ~(tickets[k].expires <= now)
    BY <1>1, <1>2
  <2>3. k \in DOMAIN consumed /\ consumed[k] \in Nat => ~(tickets[k].expires <= consumed[k])
    BY <1>1, <1>2
  <2>4. uses[k] <= 1 /\ uses[k] \in Nat
    BY <1>1, <1>2 DEF TicketsOK
  <2>. QED BY <2>1, <2>2, <2>3, <2>4
<1>4. /\ uses' \in Seq(Nat) /\ Len(uses') = Len(tickets) /\ uses'[k] = 1
      /\ \A i \in 1 .. Len(tickets) : i # k => uses'[i] = uses[i]
  BY <1>1, <1>3
<1>5. ASSUME NEW i \in 1 .. Len(tickets), i # k, uses'[i] = 1
      PROVE  \/ tickets[i].expires <= now
             \/ /\ i \in DOMAIN consumed' /\ consumed'[i] \in Nat
                /\ tickets[i].expires <= consumed'[i]
  <2>1. uses[i] = 1
    BY <1>4, <1>5
  <2>2. CASE tickets[i].expires <= now
    BY <2>2
  <2>3. CASE /\ i \in DOMAIN consumed /\ consumed[i] \in Nat
             /\ tickets[i].expires <= consumed[i] /\ ~(tickets[i].expires <= now)
    <3>1. i \in kept
      BY <2>3, <1>1, <1>2
    <3>. QED BY <3>1, <2>3, <1>5
  <2>. QED BY <2>1, <2>2, <2>3 DEF TicketsOK
<1>6. k \in DOMAIN consumed' /\ consumed'[k] \in Nat /\ tickets[k].expires <= consumed'[k]
  BY <1>1 DEF ForgottenAt, TicketsOK
<1>7. ASSUME NEW i \in 1 .. Len(tickets)
      PROVE  /\ uses'[i] <= 1
             /\ uses'[i] = 1 => \/ tickets[i].expires <= now
                                \/ /\ i \in DOMAIN consumed' /\ consumed'[i] \in Nat
                                   /\ tickets[i].expires <= consumed'[i]
  <2>1. CASE i = k
    BY <2>1, <1>4, <1>6
  <2>2. CASE i # k
    BY <2>2, <1>4, <1>5 DEF TicketsOK
  <2>. QED BY <2>1, <2>2
<1>. QED BY <1>1, <1>4, <1>7 DEF TicketsOK

\* Time passes.
LEMMA TickKeepsTickets ==
  ASSUME TicketsOK(tickets, consumed, uses, now, attached)
  PROVE  TicketsOK(tickets, consumed, uses, now + 1, attached)
<1>1. /\ tickets \in Seq(Ticket) /\ uses \in Seq(Nat) /\ Len(uses) = Len(tickets)
      /\ now \in Nat /\ TicketLife \in Nat
  BY AccountsAssumption DEF TicketsOK
<1>2. ASSUME NEW k \in 1 .. Len(tickets)
      PROVE  /\ tickets[k].expires <= now + 1 + TicketLife
             /\ tickets[k].expires <= now => tickets[k].expires <= now + 1
  <2>1. tickets[k].expires \in Nat
    BY <1>1, TicketsExpire
  <2>2. tickets[k].expires <= now + TicketLife
    BY DEF TicketsOK
  <2>. QED BY <2>1, <2>2, <1>1
<1>3. now + 1 \in Nat
  BY <1>1
<1>4. ASSUME NEW k \in 1 .. Len(tickets)
      PROVE  /\ <<tickets[k].account, tickets[k].identity>> \in attached
             /\ uses[k] <= 1
             /\ uses[k] = 1 => \/ tickets[k].expires <= now
                               \/ /\ k \in DOMAIN consumed /\ consumed[k] \in Nat
                                  /\ tickets[k].expires <= consumed[k]
  BY DEF TicketsOK
<1>. QED BY <1>1, <1>2, <1>3, <1>4 DEF TicketsOK

\* Another process has used no ticket yet.
LEMMA RestartKeepsTickets ==
  ASSUME TicketsOK(tickets, consumed, uses, now, attached), NEW K
  PROVE  TicketsOK(tickets, K, [k \in DOMAIN uses |-> 0], now, attached)
<1>. DEFINE none == [k \in DOMAIN uses |-> 0]
<1>1. uses \in Seq(Nat) /\ Len(uses) = Len(tickets) /\ Len(uses) \in Nat
  BY DEF TicketsOK
<1>2. /\ none \in Seq(Nat) /\ Len(none) = Len(tickets)
      /\ \A k \in 1 .. Len(tickets) : none[k] = 0
  BY <1>1
<1>. HIDE DEF none
<1>3. TicketsOK(tickets, K, none, now, attached)
  BY <1>2 DEF TicketsOK
<1>. QED BY <1>3 DEF none
-----------------------------------------------------------------------------
(* The steps.                                                              *)

LEMMA AccountsInitially == AccountsInit => AccountsInv
<1>. SUFFICES ASSUME AccountsInit PROVE AccountsInv
  OBVIOUS
<1>1. /\ user \in [Accounts -> Row \cup {Nothing}] /\ Existing = Has(user)
      /\ \A a, b \in Has(user) : a # b =>
           /\ user[a].email # user[b].email
           /\ user[a].discord = Nothing \/ user[a].discord # user[b].discord
  BY AccountsAssumption DEF AccountsInit, Existing, Has
<1>2. /\ changed = {a \in Existing : ~user[a].mustChange}
      /\ attached = {link \in Existing \X Identities : user[link[1]].discord = link[2]}
  BY DEF AccountsInit
<1>3. ASSUME NEW a \in Has(user), user[a].discord # Nothing
      PROVE  <<a, user[a].discord>> \in attached
  <2>1. user[a] \in Row
    BY <1>1 DEF Has
  <2>2. user[a].discord \in Identities
    BY <2>1, <1>3 DEF Row
  <2>. QED BY <2>2, <1>1, <1>2
<1>4. TableOK(user, changed, attached)
  BY <1>1, <1>2, <1>3 DEF TableOK
<1>5. DOMAIN task = Tasks /\ \A t \in Tasks : JobOK(task[t], Existing, changed, attached)
  BY IdleOK DEF AccountsInit
<1>6. TicketsOK(tickets, consumed, uses, now, attached)
  BY DEF AccountsInit, TicketsOK
<1>7. SessionsOK /\ CookiesOK
  BY DEF AccountsInit, SessionsOK, CookiesOK
<1>. QED BY <1>4, <1>5, <1>6, <1>7 DEF AccountsInv

\* What the steps below use of the invariant.
LEMMA InvFacts ==
  ASSUME AccountsInv
  PROVE  /\ user \in [Accounts -> Row \cup {Nothing}]
         /\ Existing = Has(user) /\ Existing \subseteq Accounts
         /\ \A a \in Existing : user[a] \in Row
         /\ attached \subseteq Existing \X Identities
         /\ \A a \in Existing :
              /\ ~user[a].mustChange => a \in changed
              /\ user[a].discord # Nothing => <<a, user[a].discord>> \in attached
         /\ TableOK(user, changed, attached)
         /\ TicketsOK(tickets, consumed, uses, now, attached)
         /\ \A t \in Tasks : JobOK(task[t], Existing, changed, attached)
         /\ DOMAIN task = Tasks
BY DEF AccountsInv, TableOK, Existing, Has

-----------------------------------------------------------------------------

LEMMA CreationBegins ==
  ASSUME AccountsInv, NEW t \in Tasks, NEW self \in BOOLEAN, NEW answer,
         answer # Nothing /\ answer = "access" => self, BeginCreation(t, self, answer)
  PROVE  AccountsInv'
<1>1. PICK e \in Emails :
        task' = [task EXCEPT ![t] =
          [step |-> "insert", answer |-> answer,
           row |-> [email |-> e, discord |-> Nothing, password |-> TRUE,
                    active |-> TRUE, mustChange |-> ~self]]]
  BY DEF BeginCreation, Begin
<1>. DEFINE row == [email |-> e, discord |-> Nothing, password |-> TRUE,
                    active |-> TRUE, mustChange |-> ~self]
            job == [step |-> "insert", answer |-> answer, row |-> row]
<1>2. row \in Row /\ row.discord = Nothing
  BY DEF Row
<1>3. answer # Nothing /\ answer = "access" => ~row.mustChange
  OBVIOUS
<1>. HIDE DEF row
<1>4. JobOK(job, Existing, changed, attached)
  BY <1>2, <1>3 DEF JobOK
<1>. QED BY <1>1, <1>4, ThinkKeepsInv DEF row, BeginCreation

LEMMA AccountInserted ==
  ASSUME AccountsInv, NEW t \in Tasks, InsertAccount(t)
  PROVE  AccountsInv'
<1>. DEFINE row == task[t].row
            answer == task[t].answer
<1>1. /\ row \in Row /\ row.discord = Nothing
      /\ answer # Nothing /\ answer = "access" => ~row.mustChange
  BY InvFacts DEF InsertAccount, JobOK
<1>2. task' = [task EXCEPT ![t] = Idle] /\ UNCHANGED <<cookies, tickets, memory, now>>
  BY DEF InsertAccount, End, Proceed
<1>3. CASE UNCHANGED <<table, sessions>>
  BY <1>2, <1>3, IdleOK, ThinkKeepsInv
<1>4. ASSUME NEW a \in Accounts \ Existing, Writable(a, row),
             user' = [user EXCEPT ![a] = row],
             changed' = IF row.mustChange THEN changed ELSE changed \cup {a},
             sessions' = IF answer = Nothing THEN sessions ELSE sessions \cup {<<a, answer>>},
             attached' = attached
      PROVE  AccountsInv'
  <2>. HIDE DEF row, answer
  <2>1. changed \subseteq changed' /\ (~row.mustChange => a \in changed')
    BY <1>4
  <2>2. TableOK(user, changed, attached) /\ attached \subseteq Existing \X Identities
    BY InvFacts
  <2>3. TableOK(user', changed', attached) /\ Existing' = Existing \cup {a}
    <3>1. attached \subseteq (Existing \cup {a}) \X Identities
      BY <2>2
    <3>2. TableOK(user', changed', attached)
      BY <1>1, <1>4, <2>1, <2>2, <3>1, WriteRow
    <3>3. Has(user') = Existing \cup {a}
      BY <1>1, <1>4, <2>2, WrittenExists
    <3>4. Existing' = Has(user')
      BY DEF Existing, Has
    <3>. QED BY <1>4, <3>2, <3>3, <3>4
  <2>4. \A b \in Accounts : <<b, "access">> \in sessions' \ sessions => b \in changed'
    BY <1>1, <1>4, <2>1
  <2>5. TicketsOK(tickets', consumed', uses', now', attached') /\ cookies' = cookies
    BY <1>2, <1>4, InvFacts DEF memory
  <2>. QED BY <1>2, <1>4, <2>1, <2>3, <2>4, <2>5, IdleOK, StepKeepsInv
<1>. QED BY <1>3, <1>4 DEF InsertAccount

LEMMA LoginBegins ==
  ASSUME AccountsInv, NEW t \in Tasks, BeginLogin(t)
  PROVE  AccountsInv'
<1>1. /\ UNCHANGED <<table, cookies, tickets, memory, now>>
      /\ TicketsOK(tickets', consumed', uses', now', attached) /\ cookies' = cookies
  BY InvFacts DEF BeginLogin, memory
<1>2. PICK a \in Existing :
        IF user[a].mustChange
        THEN /\ sessions' = sessions \cup {<<a, "password_change">>}
             /\ task' = [task EXCEPT ![t] = Idle]
        ELSE /\ UNCHANGED sessions
             /\ task' = [task EXCEPT ![t] = [step |-> "open", account |-> a]]
  BY DEF BeginLogin, Begin
<1>3. CASE user[a].mustChange
  <2>1. \A b \in Accounts : <<b, "access">> \notin sessions' \ sessions
    BY <1>2, <1>3
  <2>. QED BY <1>1, <1>2, <1>3, <2>1, IdleOK, ReadKeepsInv
<1>4. CASE ~user[a].mustChange
  <2>1. JobOK([step |-> "open", account |-> a], Existing, changed, attached)
    BY <1>4, InvFacts DEF JobOK
  <2>. QED BY <1>1, <1>2, <1>4, <2>1, ReadKeepsInv
<1>. QED BY <1>3, <1>4

LEMMA SessionOpened ==
  ASSUME AccountsInv, NEW t \in Tasks, OpenSession(t)
  PROVE  AccountsInv'
<1>1. /\ UNCHANGED <<table, cookies, tickets, memory, now>>
      /\ TicketsOK(tickets', consumed', uses', now', attached) /\ cookies' = cookies
      /\ task' = [task EXCEPT ![t] = Idle]
      /\ sessions' = sessions \cup {<<task[t].account, "access">>}
  BY InvFacts DEF OpenSession, End, Proceed, memory
<1>2. task[t].account \in changed
  BY InvFacts DEF OpenSession, JobOK
<1>3. \A b \in Accounts : <<b, "access">> \in sessions' \ sessions => b \in changed
  BY <1>1, <1>2
<1>. QED BY <1>1, <1>3, IdleOK, ReadKeepsInv

LEMMA PasswordChangeBegins ==
  ASSUME AccountsInv, NEW t \in Tasks, BeginChangePassword(t)
  PROVE  AccountsInv'
<1>1. PICK a \in Existing : task' = [task EXCEPT ![t] = [step |-> "password", account |-> a]]
  BY DEF BeginChangePassword, Begin
<1>2. JobOK([step |-> "password", account |-> a], Existing, changed, attached)
  BY DEF JobOK
<1>. QED BY <1>1, <1>2, ThinkKeepsInv DEF BeginChangePassword

\* One column of an account is written; the owner has stored a password.
LEMMA ColumnWritten ==
  ASSUME AccountsInv, NEW t \in Tasks, NEW job, NEW a \in Existing, NEW row \in Row,
         row.email = user[a].email, row.discord = user[a].discord,
         user' = [user EXCEPT ![a] = row], task' = [task EXCEPT ![t] = job],
         changed' \in {changed, changed \cup {a}}, ~row.mustChange => a \in changed',
         UNCHANGED <<attached, sessions, cookies, tickets, memory, now>>,
         JobOK(job, Existing, changed', attached)
  PROVE  AccountsInv'
<1>1. /\ a \in Accounts /\ Existing \cup {a} = Existing
      /\ TableOK(user, changed, attached) /\ attached \subseteq Existing \X Identities
      /\ user[a].discord # Nothing => <<a, user[a].discord>> \in attached
  BY InvFacts
<1>2. Writable(a, row)
  BY <1>1, SameKeysWritable
<1>3. TableOK(user', changed', attached) /\ Existing' = Existing
  <2>1. /\ changed \subseteq changed'
        /\ attached \subseteq (Existing \cup {a}) \X Identities
        /\ row.discord # Nothing => <<a, row.discord>> \in attached
    BY <1>1
  <2>2. TableOK(user', changed', attached)
    BY <1>1, <1>2, <2>1, WriteRow
  <2>3. Has(user') = Existing \cup {a}
    BY <1>1, WrittenExists
  <2>4. Existing' = Has(user')
    BY DEF Existing, Has
  <2>. QED BY <1>1, <2>2, <2>3, <2>4
<1>4. TicketsOK(tickets', consumed', uses', now', attached)
  BY InvFacts DEF memory
<1>5. sessions' = sessions /\ cookies' = cookies /\ attached' = attached
  OBVIOUS
<1>. QED BY <1>3, <1>4, <1>5, StepKeepsInv

LEMMA PasswordStored ==
  ASSUME AccountsInv, NEW t \in Tasks, StorePassword(t)
  PROVE  AccountsInv'
<1>. DEFINE a == task[t].account
            row == [user[a] EXCEPT !.password = TRUE]
            job == [step |-> "clear", account |-> a]
<1>1. a \in Existing /\ user[a] \in Row
  BY InvFacts DEF StorePassword, JobOK
<1>2. row \in Row /\ row.email = user[a].email /\ row.discord = user[a].discord
  BY <1>1 DEF Row
<1>3. /\ user' = [user EXCEPT ![a] = row] /\ changed' = changed \cup {a}
      /\ task' = [task EXCEPT ![t] = job]
      /\ UNCHANGED <<attached, sessions, cookies, tickets, memory, now>>
  BY DEF StorePassword, Proceed
<1>4. JobOK(job, Existing, changed', attached)
  BY <1>1, <1>3 DEF JobOK
<1>. HIDE DEF a, row, job
<1>. QED BY <1>1, <1>2, <1>3, <1>4, ColumnWritten

LEMMA FlagCleared ==
  ASSUME AccountsInv, NEW t \in Tasks, ClearFlag(t)
  PROVE  AccountsInv'
<1>. DEFINE a == task[t].account
            row == [user[a] EXCEPT !.mustChange = FALSE]
<1>1. a \in Existing /\ a \in changed /\ user[a] \in Row
  BY InvFacts DEF ClearFlag, JobOK
<1>2. row \in Row /\ row.email = user[a].email /\ row.discord = user[a].discord
  BY <1>1 DEF Row
<1>3. /\ user' = [user EXCEPT ![a] = row] /\ changed' = changed
      /\ task' = [task EXCEPT ![t] = Idle]
      /\ UNCHANGED <<attached, sessions, cookies, tickets, memory, now>>
  BY DEF ClearFlag, End, Proceed
<1>. HIDE DEF a, row
<1>. QED BY <1>1, <1>2, <1>3, IdleOK, ColumnWritten

LEMMA AccountDeactivated ==
  ASSUME AccountsInv, NEW t \in Tasks, Deactivate(t)
  PROVE  AccountsInv'
<1>1. PICK a \in Existing : user' = [user EXCEPT ![a].active = FALSE]
  BY DEF Deactivate
<1>. DEFINE row == [user[a] EXCEPT !.active = FALSE]
<1>2. user[a] \in Row /\ (~user[a].mustChange => a \in changed)
  BY InvFacts
<1>3. /\ row \in Row /\ row.email = user[a].email /\ row.discord = user[a].discord
      /\ row.mustChange = user[a].mustChange
  BY <1>2 DEF Row
<1>4. /\ user' = [user EXCEPT ![a] = row] /\ changed' = changed
      /\ task' = [task EXCEPT ![t] = Idle]
      /\ UNCHANGED <<attached, sessions, cookies, tickets, memory, now>>
  BY <1>1 DEF Deactivate, Begin
<1>. HIDE DEF row
<1>. QED BY <1>2, <1>3, <1>4, IdleOK, ColumnWritten
LEMMA EditBegins ==
  ASSUME AccountsInv, NEW t \in Tasks, BeginEdit(t)
  PROVE  AccountsInv'
<1>1. PICK a \in Existing, edit \in Edits :
        task' = [task EXCEPT ![t] = [step |-> "load", account |-> a, edit |-> edit]]
  BY DEF BeginEdit, Begin
<1>2. JobOK([step |-> "load", account |-> a, edit |-> edit], Existing, changed, attached)
  BY DEF JobOK
<1>. QED BY <1>1, <1>2, ThinkKeepsInv DEF BeginEdit

\* The entity is as good as the row it was read from, now and later.
LEMMA UserLoaded ==
  ASSUME AccountsInv, NEW t \in Tasks, LoadUser(t)
  PROVE  AccountsInv'
<1>. DEFINE a == task[t].account
            edit == task[t].edit
            entity == [user[a] EXCEPT
                         !.email = IF edit.email = Nothing THEN @ ELSE edit.email,
                         !.active = IF edit.active = Nothing THEN @ ELSE edit.active]
            job == [step |-> "save", account |-> a, password |-> edit.password,
                    entity |-> entity]
<1>1. a \in Existing /\ edit \in Edits /\ user[a] \in Row
  BY InvFacts DEF LoadUser, JobOK
<1>2. /\ edit.email \in Emails \cup {Nothing} /\ edit.active \in BOOLEAN \cup {Nothing}
      /\ edit.password \in BOOLEAN
  BY <1>1, AccountsAssumption
<1>3. /\ entity \in Row /\ entity.mustChange = user[a].mustChange
      /\ entity.discord = user[a].discord
  BY <1>1, <1>2 DEF Row
<1>4. /\ ~user[a].mustChange => a \in changed
      /\ user[a].discord # Nothing => <<a, user[a].discord>> \in attached
  BY <1>1, InvFacts
<1>5. /\ task' = [task EXCEPT ![t] = job]
      /\ UNCHANGED <<table, sessions, cookies, tickets, memory, now>>
  BY DEF LoadUser, Proceed
<1>. HIDE DEF a, entity, edit
<1>6. JobOK(job, Existing, changed, attached)
  BY <1>1, <1>2, <1>3, <1>4 DEF JobOK
<1>. HIDE DEF job
<1>. QED BY <1>5, <1>6, ThinkKeepsInv

LEMMA UserSaved ==
  ASSUME AccountsInv, NEW t \in Tasks, SaveUser(t)
  PROVE  AccountsInv'
<1>. DEFINE a == task[t].account
            entity == task[t].entity
            row == [entity EXCEPT !.password = task[t].password \/ user[a].password]
<1>1. /\ a \in Existing /\ entity \in Row
      /\ ~entity.mustChange => a \in changed
      /\ entity.discord # Nothing => <<a, entity.discord>> \in attached
  BY InvFacts DEF SaveUser, JobOK
<1>2. row \in Row /\ row.mustChange = entity.mustChange /\ row.discord = entity.discord
  <2>1. (task[t].password \/ user[a].password) \in BOOLEAN
    OBVIOUS
  <2>. QED BY <1>1, <2>1 DEF Row
<1>3. /\ user' = IF Writable(a, row) THEN [user EXCEPT ![a] = row] ELSE user
      /\ task' = [task EXCEPT ![t] = Idle]
      /\ UNCHANGED <<changed, attached, sessions, cookies, tickets, memory, now>>
  BY DEF SaveUser, End, Proceed
<1>. HIDE DEF a, entity, row
<1>4. CASE ~Writable(a, row)
  BY <1>3, <1>4, IdleOK, ThinkKeepsInv DEF table
<1>5. CASE Writable(a, row)
  <2>1. /\ a \in Accounts /\ TableOK(user, changed, attached)
        /\ attached \subseteq (Existing \cup {a}) \X Identities
        /\ Existing \cup {a} = Existing
    BY <1>1, InvFacts
  <2>2. user' = [user EXCEPT ![a] = row]
    BY <1>3, <1>5
  <2>3. TableOK(user', changed, attached)
    BY <1>1, <1>2, <1>5, <2>1, <2>2, WriteRow
  <2>4. Has(user') = Existing /\ Existing' = Has(user')
    BY <1>2, <2>1, <2>2, WrittenExists DEF Existing, Has
  <2>5. TicketsOK(tickets', consumed', uses', now', attached)
    BY <1>3, InvFacts DEF memory
  <2>6. /\ sessions' = sessions /\ cookies' = cookies
        /\ changed' = changed /\ attached' = attached
    BY <1>3
  <2>. QED BY <1>3, <2>3, <2>4, <2>5, <2>6, IdleOK, StepKeepsInv
<1>. QED BY <1>4, <1>5

-----------------------------------------------------------------------------

LEMMA DiscordLoginBegins ==
  ASSUME AccountsInv, NEW t \in Tasks, BeginDiscordLogin(t)
  PROVE  AccountsInv'
<1>1. /\ cookies' = cookies \cup {OAuthSession("login", Nothing)}
      /\ UNCHANGED <<user, changed, attached, task, sessions, tickets, consumed, uses, now>>
  BY DEF BeginDiscordLogin, table, memory
<1>2. OAuthSession("login", Nothing).intent # "link"
  BY DEF OAuthSession
<1>3. CookiesOK' /\ SessionsOK' /\ Existing' = Existing
  BY <1>1, <1>2 DEF AccountsInv, CookiesOK, SessionsOK, Existing
<1>. QED BY <1>1, <1>3 DEF AccountsInv

LEMMA DiscordLinkBegins ==
  ASSUME AccountsInv, NEW t \in Tasks, BeginDiscordLink(t)
  PROVE  AccountsInv'
<1>1. PICK a \in Existing : cookies' = cookies \cup {OAuthSession("link", a)}
  BY DEF BeginDiscordLink
<1>2. \A s \in cookies' \ cookies : s.intent = "link" => s.account \in Existing
  BY <1>1 DEF OAuthSession
<1>3. /\ TicketsOK(tickets', consumed', uses', now', attached) /\ sessions' = sessions
      /\ task' = [task EXCEPT ![t] = Idle] /\ UNCHANGED table
  BY InvFacts DEF BeginDiscordLink, Begin, memory
<1>. QED BY <1>2, <1>3, IdleOK, ReadKeepsInv

LEMMA DiscordLoginArrives ==
  ASSUME AccountsInv, NEW t \in Tasks, DiscordLogin(t)
  PROVE  AccountsInv'
<1>1. PICK p \in VerifiedProfiles :
        \/ /\ task' = [task EXCEPT ![t] = [step |-> "by_email", profile |-> p]]
           /\ UNCHANGED <<tickets, memory>>
        \/ \E a \in WithIdentity(p.id) :
             IssueTicket(a, p.id) /\ task' = [task EXCEPT ![t] = Idle]
  BY DEF DiscordLogin, Begin
<1>2. UNCHANGED <<table, sessions, cookies, now>>
  BY DEF DiscordLogin
<1>3. CASE /\ task' = [task EXCEPT ![t] = [step |-> "by_email", profile |-> p]]
           /\ UNCHANGED <<tickets, memory>>
  <2>1. JobOK([step |-> "by_email", profile |-> p], Existing, changed, attached)
    BY DEF JobOK
  <2>. QED BY <1>2, <1>3, <2>1, ThinkKeepsInv
<1>4. ASSUME NEW a \in WithIdentity(p.id), IssueTicket(a, p.id),
             task' = [task EXCEPT ![t] = Idle]
      PROVE  AccountsInv'
  <2>1. a \in Accounts /\ <<a, p.id>> \in attached /\ p.id \in Identities
    BY InvFacts, AccountsAssumption DEF WithIdentity, VerifiedProfiles, DiscordProfile
  <2>2. TicketsOK(tickets', consumed', uses', now, attached)
    BY <2>1, <1>4, InvFacts, IssueKeepsTickets
  <2>3. now' = now /\ sessions' = sessions /\ cookies' = cookies
    BY <1>2
  <2>. QED BY <1>2, <1>4, <2>2, <2>3, IdleOK, ReadKeepsInv
<1>. QED BY <1>1, <1>3, <1>4

LEMMA EmailLookedFor ==
  ASSUME AccountsInv, NEW t \in Tasks, FindByEmail(t)
  PROVE  AccountsInv'
<1>. DEFINE job == IF WithEmail(task[t].profile.email) = {}
                   THEN [step |-> "create", profile |-> task[t].profile] ELSE Idle
<1>1. task[t].profile \in VerifiedProfiles
  BY InvFacts DEF FindByEmail, JobOK
<1>2. JobOK([step |-> "create", profile |-> task[t].profile], Existing, changed, attached)
  BY <1>1 DEF JobOK
<1>3. JobOK(job, Existing, changed, attached)
  BY <1>2, IdleOK
<1>4. /\ task' = [task EXCEPT ![t] = job]
      /\ UNCHANGED <<table, sessions, cookies, tickets, memory, now>>
  BY DEF FindByEmail, Proceed
<1>. HIDE DEF job
<1>. QED BY <1>3, <1>4, ThinkKeepsInv

\* A row that attaches an identity, and the ticket it may bring.
LEMMA IdentityAttached ==
  ASSUME AccountsInv, NEW t \in Tasks, NEW a \in Accounts, NEW row \in Row,
         Writable(a, row), row.discord \in Identities,
         user' = [user EXCEPT ![a] = row],
         attached' = attached \cup {<<a, row.discord>>},
         changed \subseteq changed', ~row.mustChange => a \in changed',
         IssueTicket(a, row.discord) \/ UNCHANGED <<tickets, memory>>,
         task' = [task EXCEPT ![t] = Idle], UNCHANGED <<sessions, cookies, now>>
  PROVE  AccountsInv'
<1>1. /\ TableOK(user, changed, attached) /\ attached \subseteq Existing \X Identities
      /\ TicketsOK(tickets, consumed, uses, now, attached)
  BY InvFacts
<1>2. /\ attached \subseteq attached' /\ <<a, row.discord>> \in attached'
      /\ attached' \subseteq (Existing \cup {a}) \X Identities
  BY <1>1
<1>3. TableOK(user', changed', attached')
  BY <1>1, <1>2, WriteRow
<1>4. Has(user') = Existing \cup {a} /\ Existing' = Has(user')
  <2>1. Has(user') = Existing \cup {a}
    BY <1>1, WrittenExists
  <2>2. Existing' = Has(user')
    BY DEF Existing, Has
  <2>. QED BY <2>1, <2>2
<1>5. TicketsOK(tickets', consumed', uses', now', attached')
  <2>1. CASE IssueTicket(a, row.discord)
    BY <2>1, <1>1, <1>2, IssueKeepsTickets
  <2>2. CASE UNCHANGED <<tickets, memory>>
    BY <2>2, <1>1, <1>2 DEF TicketsOK, memory
  <2>. QED BY <2>1, <2>2
<1>6. sessions' = sessions /\ cookies' = cookies /\ Existing \subseteq Existing'
  BY <1>4
<1>. QED BY <1>2, <1>3, <1>5, <1>6, IdleOK, StepKeepsInv
LEMMA AccountCreatedFromDiscord ==
  ASSUME AccountsInv, NEW t \in Tasks, CreateFromDiscord(t)
  PROVE  AccountsInv'
<1>. DEFINE p == task[t].profile
            row == [email |-> p.email, discord |-> p.id, password |-> FALSE,
                    active |-> TRUE, mustChange |-> FALSE]
<1>1. p.id \in Identities /\ p.email \in Emails
  <2>1. p \in VerifiedProfiles
    BY InvFacts DEF CreateFromDiscord, JobOK
  <2>2. p \in DiscordProfile /\ p.email # Nothing
    BY <2>1, AccountsAssumption DEF VerifiedProfiles
  <2>. QED BY <2>2 DEF DiscordProfile
<1>2. row \in Row /\ row.discord = p.id /\ ~row.mustChange
  BY <1>1 DEF Row
<1>3. task' = [task EXCEPT ![t] = Idle] /\ UNCHANGED <<sessions, cookies, now>>
  BY DEF CreateFromDiscord, End, Proceed
<1>4. \/ UNCHANGED <<table, tickets, memory>>
      \/ \E a \in Accounts \ Existing :
           /\ Writable(a, row) /\ user' = [user EXCEPT ![a] = row]
           /\ changed' = changed \cup {a}
           /\ attached' = attached \cup {<<a, p.id>>} /\ IssueTicket(a, p.id)
  BY DEF CreateFromDiscord
<1>. HIDE DEF row
<1>5. CASE UNCHANGED <<table, tickets, memory>>
  BY <1>3, <1>5, IdleOK, ThinkKeepsInv
<1>6. ASSUME NEW a \in Accounts, Writable(a, row), user' = [user EXCEPT ![a] = row],
             changed' = changed \cup {a}, attached' = attached \cup {<<a, p.id>>},
             IssueTicket(a, p.id)
      PROVE  AccountsInv'
  <2>1. /\ row.discord \in Identities /\ attached' = attached \cup {<<a, row.discord>>}
        /\ IssueTicket(a, row.discord)
        /\ changed \subseteq changed' /\ (~row.mustChange => a \in changed')
    BY <1>1, <1>2, <1>6
  <2>. QED BY <1>2, <1>3, <1>6, <2>1, IdentityAttached
<1>. QED BY <1>4, <1>5, <1>6

LEMMA LinkArrives ==
  ASSUME AccountsInv, NEW t \in Tasks, DiscordLink(t)
  PROVE  AccountsInv'
<1>1. PICK s \in Acceptable(cookies), p \in VerifiedProfiles :
        /\ s.intent = "link"
        /\ task' = [task EXCEPT ![t] =
             [step |-> "claim", account |-> s.account, identity |-> p.id,
              active |-> user[s.account].active]]
  BY DEF DiscordLink, Begin
<1>. DEFINE job == [step |-> "claim", account |-> s.account, identity |-> p.id,
                    active |-> user[s.account].active]
<1>2. s.account \in Existing
  BY <1>1 DEF AccountsInv, CookiesOK, Acceptable
<1>3. p.id \in Identities /\ user[s.account].active \in BOOLEAN
  BY <1>2, InvFacts, AccountsAssumption DEF VerifiedProfiles, DiscordProfile, Row
<1>4. JobOK(job, Existing, changed, attached)
  BY <1>2, <1>3 DEF JobOK
<1>5. UNCHANGED <<table, sessions, cookies, tickets, memory, now>>
  BY DEF DiscordLink
<1>. HIDE DEF job
<1>6. task' = [task EXCEPT ![t] = job]
  BY <1>1 DEF job
<1>. QED BY <1>4, <1>5, <1>6, ThinkKeepsInv

LEMMA IdentityClaimed ==
  ASSUME AccountsInv, NEW t \in Tasks, ClaimIdentity(t)
  PROVE  AccountsInv'
<1>. DEFINE next == [task[t] EXCEPT !.step = "link"]
            job == IF WithIdentity(task[t].identity) \subseteq {task[t].account}
                   THEN next ELSE Idle
<1>1. task[t] \in [step : {"claim", "link"}, account : Existing, identity : Identities,
                   active : BOOLEAN]
  BY InvFacts DEF ClaimIdentity, JobOK
<1>2. JobOK(next, Existing, changed, attached)
  <2>1. /\ next.step = "link"
        /\ next \in [step : {"claim", "link"}, account : Existing, identity : Identities,
                     active : BOOLEAN]
    BY <1>1
  <2>. HIDE DEF next
  <2>. QED BY <2>1 DEF JobOK
<1>3. JobOK(job, Existing, changed, attached)
  BY <1>2, IdleOK
<1>4. /\ task' = [task EXCEPT ![t] = job]
      /\ UNCHANGED <<table, sessions, cookies, tickets, memory, now>>
  BY DEF ClaimIdentity, Proceed
<1>. HIDE DEF job
<1>. QED BY <1>3, <1>4, ThinkKeepsInv

LEMMA IdentityLinked ==
  ASSUME AccountsInv, NEW t \in Tasks, LinkIdentity(t)
  PROVE  AccountsInv'
<1>. DEFINE a == task[t].account
            d == task[t].identity
            row == [user[a] EXCEPT !.discord = d]
<1>1. a \in Existing /\ d \in Identities /\ user[a] \in Row
  BY InvFacts DEF LinkIdentity, JobOK
<1>2. row \in Row /\ row.discord = d /\ row.mustChange = user[a].mustChange
  BY <1>1 DEF Row
<1>3. ~row.mustChange => a \in changed
  BY <1>1, <1>2, InvFacts
<1>4. task' = [task EXCEPT ![t] = Idle] /\ UNCHANGED <<sessions, cookies, now>>
  BY DEF LinkIdentity, End, Proceed
<1>5. \/ UNCHANGED <<table, tickets, memory>>
      \/ /\ Writable(a, row) /\ user' = [user EXCEPT ![a] = row]
         /\ attached' = attached \cup {<<a, d>>} /\ changed' = changed
         /\ IssueTicket(a, d) \/ UNCHANGED <<tickets, memory>>
  BY DEF LinkIdentity
<1>. HIDE DEF a, d, row
<1>6. CASE UNCHANGED <<table, tickets, memory>>
  BY <1>4, <1>6, IdleOK, ThinkKeepsInv
<1>7. CASE /\ Writable(a, row) /\ user' = [user EXCEPT ![a] = row]
           /\ attached' = attached \cup {<<a, d>>} /\ changed' = changed
           /\ IssueTicket(a, d) \/ UNCHANGED <<tickets, memory>>
  <2>1. /\ row.discord \in Identities /\ attached' = attached \cup {<<a, row.discord>>}
        /\ IssueTicket(a, row.discord) \/ UNCHANGED <<tickets, memory>>
        /\ changed \subseteq changed' /\ (~row.mustChange => a \in changed')
        /\ a \in Accounts
    BY <1>1, <1>2, <1>3, <1>7, InvFacts
  <2>. QED BY <1>2, <1>4, <1>7, <2>1, IdentityAttached
<1>. QED BY <1>5, <1>6, <1>7

LEMMA TicketExchanged ==
  ASSUME AccountsInv, NEW t \in Tasks, Exchange(t)
  PROVE  AccountsInv'
<1>1. PICK k \in DOMAIN tickets :
        LET kept == {u \in DOMAIN consumed : consumed[u] > now}
        IN  /\ now < tickets[k].expires /\ k \notin kept
            /\ consumed' = [u \in kept \cup {k} |-> IF u = k THEN ForgottenAt ELSE consumed[u]]
            /\ uses' = [uses EXCEPT ![k] = @ + 1]
            /\ task' = [task EXCEPT ![t] = [step |-> "finalize", account |-> tickets[k].account]]
  BY DEF Exchange, Begin
<1>. DEFINE kept == {u \in DOMAIN consumed : consumed[u] > now}
            job == [step |-> "finalize", account |-> tickets[k].account]
<1>2. /\ TicketsOK(tickets, consumed, uses, now, attached)
      /\ UNCHANGED <<table, sessions, cookies, tickets, now>>
  BY InvFacts DEF Exchange
<1>3. TicketsOK(tickets, consumed', uses', now, attached)
  BY <1>1, <1>2, ExchangeKeepsTickets
<1>4. tickets[k].account \in Existing
  <2>1. k \in 1 .. Len(tickets)
    BY <1>2 DEF TicketsOK
  <2>2. <<tickets[k].account, tickets[k].identity>> \in attached
    BY <1>2, <2>1 DEF TicketsOK
  <2>. QED BY <2>2, InvFacts
<1>5. JobOK(job, Existing, changed, attached)
  BY <1>4 DEF JobOK
<1>6. /\ task' = [task EXCEPT ![t] = job]
      /\ tickets' = tickets /\ now' = now /\ sessions' = sessions /\ cookies' = cookies
  BY <1>1, <1>2
<1>. HIDE DEF job
<1>. QED BY <1>2, <1>3, <1>5, <1>6, ReadKeepsInv

LEMMA SessionFinalized ==
  ASSUME AccountsInv, NEW t \in Tasks, FinalizeSession(t)
  PROVE  AccountsInv'
<1>. DEFINE a == task[t].account
<1>1. a \in Existing
  BY InvFacts DEF FinalizeSession, JobOK
<1>2. ~user[a].mustChange => a \in changed
  BY <1>1, InvFacts
<1>3. /\ UNCHANGED table /\ task' = [task EXCEPT ![t] = Idle] /\ cookies' = cookies
      /\ TicketsOK(tickets', consumed', uses', now', attached)
      /\ sessions' \subseteq sessions \cup
           {<<a, IF user[a].mustChange THEN "password_change" ELSE "access">>}
  BY InvFacts DEF FinalizeSession, End, Proceed, memory
<1>4. \A b \in Accounts : <<b, "access">> \in sessions' \ sessions => b \in changed
  BY <1>2, <1>3
<1>. QED BY <1>3, <1>4, IdleOK, ReadKeepsInv

-----------------------------------------------------------------------------

LEMMA AccountsStep == AccountsInv /\ [AccountsNext]_vars => AccountsInv'
<1>. SUFFICES ASSUME AccountsInv, [AccountsNext]_vars PROVE AccountsInv'
  OBVIOUS
<1>1. ASSUME NEW t \in Tasks, Step(t) PROVE AccountsInv'
  <2>1. CASE Register(t) \/ RegisterManaged(t) \/ CreateUser(t)
    BY <2>1, CreationBegins DEF Register, RegisterManaged, CreateUser
  <2>2. CASE InsertAccount(t) \/ BeginLogin(t) \/ OpenSession(t)
    BY <2>2, AccountInserted, LoginBegins, SessionOpened
  <2>3. CASE BeginChangePassword(t) \/ StorePassword(t) \/ ClearFlag(t)
    BY <2>3, PasswordChangeBegins, PasswordStored, FlagCleared
  <2>4. CASE BeginEdit(t) \/ LoadUser(t) \/ SaveUser(t) \/ Deactivate(t)
    BY <2>4, EditBegins, UserLoaded, UserSaved, AccountDeactivated
  <2>5. CASE BeginDiscordLogin(t) \/ BeginDiscordLink(t) \/ DiscordLogin(t) \/ FindByEmail(t)
    BY <2>5, DiscordLoginBegins, DiscordLinkBegins, DiscordLoginArrives, EmailLookedFor
  <2>6. CASE CreateFromDiscord(t) \/ DiscordLink(t) \/ ClaimIdentity(t) \/ LinkIdentity(t)
    BY <2>6, AccountCreatedFromDiscord, LinkArrives, IdentityClaimed, IdentityLinked
  <2>7. CASE Exchange(t) \/ FinalizeSession(t)
    BY <2>7, TicketExchanged, SessionFinalized
  <2>8. CASE Fail(t)
    BY <2>8, IdleOK, ThinkKeepsInv DEF Fail, End, Proceed
  <2>. QED BY <1>1, <2>1, <2>2, <2>3, <2>4, <2>5, <2>6, <2>7, <2>8 DEF Step
<1>2. ASSUME UNCHANGED <<user, changed, attached, sessions, cookies, tickets>>,
             DOMAIN task' = Tasks, \A t \in Tasks : task'[t] \in {task[t], Idle},
             TicketsOK(tickets, consumed', uses', now', attached)
      PROVE  AccountsInv'
  <2>1. Existing' = Existing /\ SessionsOK' /\ CookiesOK'
    BY <1>2 DEF AccountsInv, Existing, SessionsOK, CookiesOK
  <2>2. ASSUME NEW t \in Tasks PROVE JobOK(task'[t], Existing, changed, attached)
    BY <1>2, IdleOK DEF AccountsInv
  <2>. QED BY <1>2, <2>1, <2>2 DEF AccountsInv
<1>3. DOMAIN task = Tasks /\ TicketsOK(tickets, consumed, uses, now, attached)
  BY InvFacts
<1>4. CASE Tick
  BY <1>2, <1>3, <1>4, TickKeepsTickets DEF Tick, table, memory
<1>5. CASE Restart
  <2>1. TicketsOK(tickets, consumed', uses', now, attached)
    BY <1>3, <1>5, RestartKeepsTickets DEF Restart
  <2>. QED BY <1>2, <1>5, <2>1 DEF Restart, table
<1>6. CASE UNCHANGED vars
  BY <1>2, <1>3, <1>6 DEF vars, table, memory
<1>. QED BY <1>1, <1>4, <1>5, <1>6 DEF AccountsNext

LEMMA AccountsAlways == AccountsSpec => []AccountsInv
BY AccountsInitially, AccountsStep, PTL DEF AccountsSpec

\* No e-mail and no Discord identity belongs to two accounts.
THEOREM PeopleKeepTheirAccounts == AccountsSpec => []OnePersonOneAccount
<1>1. AccountsInv => OnePersonOneAccount
  BY DEF AccountsInv, TableOK, OnePersonOneAccount, Existing, Has
<1>. QED BY <1>1, AccountsAlways, PTL

\* No full session without a password, or an identity, of the owner's own.
THEOREM SessionsAreEarned == AccountsSpec => []SessionsFollowPasswordChange
<1>1. AccountsInv => SessionsFollowPasswordChange
  BY DEF AccountsInv, SessionsOK, SessionsFollowPasswordChange
<1>. QED BY <1>1, AccountsAlways, PTL

\* Discord opens only accounts it was attached to.
THEOREM DiscordOpensItsOwn == AccountsSpec => []DiscordNeverTakesOver
<1>1. AccountsInv => DiscordNeverTakesOver
  BY DEF AccountsInv, TicketsOK, DiscordNeverTakesOver
<1>. QED BY <1>1, AccountsAlways, PTL

\* A ticket opens one session in the life of a process.
THEOREM TicketsAreSingleUse == AccountsSpec => []TicketUsedOnce
<1>1. AccountsInv => TicketUsedOnce
  <2>. SUFFICES ASSUME AccountsInv, NEW k \in DOMAIN uses PROVE uses[k] <= 1
    BY DEF TicketUsedOnce
  <2>1. uses \in Seq(Nat) /\ Len(uses) = Len(tickets)
    BY DEF AccountsInv, TicketsOK
  <2>2. k \in 1 .. Len(tickets)
    BY <2>1
  <2>. QED BY <2>2 DEF AccountsInv, TicketsOK
<1>. QED BY <1>1, AccountsAlways, PTL
=============================================================================
