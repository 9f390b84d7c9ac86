------------------------------- MODULE Accounts -------------------------------
(***************************************************************************)
(* UserService, AuthService and JwtStrategy: how accounts are made, edited   *)
(* and opened, by concurrent requests that read and write the users table in  *)
(* statements of their own (none of them is a transaction), and the login     *)
(* tickets a process remembers in memory.                                    *)
(*                                                                         *)
(* Abstracted data: names, roles and owners are left out, so the requests of  *)
(* administrators and clients are those the role checks let through; e-mails  *)
(* are normalized; a password is there or not; two-factor login is off, as    *)
(* requiresTwoFactor is.  A request that is refused changes nothing.         *)
(***************************************************************************)
EXTENDS Naturals, FiniteSets, Sequences

CONSTANTS Accounts,       \* ids an account can get
          Emails,
          Identities,     \* Discord user ids
          Nothing,        \* null, and "not in the request"
          DiscordProfiles,\* profiles Discord answers with
          Edits,          \* bodies of PATCH: [email, active, password]
          Tables,         \* users tables earlier requests have left
          Tasks,          \* requests in progress at once
          TicketLife,     \* expiresIn of a ticket
          MaxTime,        \* bound on the clock
          MaxTickets,     \* bound on the tickets
          MaxRequests     \* bound on the requests

\* What fetchProfile makes of an answer of Discord.
DiscordProfile == [id : Identities, email : Emails \cup {Nothing}, verified : BOOLEAN]

\* A row of the users table.
Row == [email : Emails, discord : Identities \cup {Nothing}, password : BOOLEAN,
        active : BOOLEAN, mustChange : BOOLEAN]

ASSUME AccountsAssumption ==
  /\ Nothing \notin Accounts \cup Emails \cup Identities \cup BOOLEAN /\ Nothing \notin Row
  /\ \A T \in Tables :
       /\ T \in [Accounts -> Row \cup {Nothing}]
       /\ \A a, b \in Accounts : a # b /\ T[a] # Nothing /\ T[b] # Nothing =>
            /\ T[a].email # T[b].email
            /\ T[a].discord = Nothing \/ T[a].discord # T[b].discord
  /\ DiscordProfiles \subseteq DiscordProfile
  /\ Edits \subseteq [email : Emails \cup {Nothing}, active : BOOLEAN \cup {Nothing},
                      password : BOOLEAN]
  /\ TicketLife \in Nat \ {0} /\ MaxTime \in Nat
  /\ MaxTickets \in Nat /\ MaxRequests \in Nat

VARIABLES user,      \* the users table
          task,      \* task[t]: what the request has computed so far
          sessions,  \* tokens issued: <<account, purpose>>; one may be used late
          cookies,   \* signed OAuth sessions in browsers; one may be used late
          tickets,   \* login tickets issued
          consumed,  \* consumedDiscordTickets: when a used ticket is forgotten
          now,
          requests,  \* requests begun
          changed,   \* history: accounts whose owner stored a password
          attached,  \* history: <<account, identity>>, attached by its owner
          uses       \* history: exchanges of a ticket by this process

table == <<user, changed, attached>>
memory == <<consumed, uses>>
vars == <<user, task, sessions, cookies, tickets, consumed, now, requests,
          changed, attached, uses>>

Existing == {a \in Accounts : user[a] # Nothing}
WithEmail(e) == {a \in Existing : user[a].email = e}
WithIdentity(d) == {a \in Existing : d # Nothing /\ user[a].discord = d}

\* Faulty variant: the table has no unique index.
WritableWithoutIndex(a, row) == row \in Row

\* The UNIQUE constraints of users let row be the row of account a.
Writable(a, row) ==
  /\ WithEmail(row.email) \subseteq {a}
  /\ WithIdentity(row.discord) \subseteq {a}

Idle == [step |-> "idle"]

AccountsInit ==
  /\ user \in Tables
  /\ changed = {a \in Existing : ~user[a].mustChange}
  /\ attached = {link \in Existing \X Identities : user[link[1]].discord = link[2]}
  /\ task = [t \in Tasks |-> Idle]
  /\ sessions = {} /\ cookies = {}
  /\ tickets = << >>
  /\ consumed = << >> /\ uses = << >>
  /\ now = 0 /\ requests = 0

\* A request arrives and goes as far as its first write, or await, allows.
Begin(t, job) ==
  /\ task[t] = Idle
  /\ requests < MaxRequests
  /\ requests' = requests + 1
  /\ task' = [task EXCEPT ![t] = job]

Proceed(t, job) ==
  /\ task' = [task EXCEPT ![t] = job]
  /\ UNCHANGED requests

End(t) == Proceed(t, Idle)

-----------------------------------------------------------------------------
(* Creating an account.                                                    *)

\* create: the e-mail is looked for.  "answer" is the purpose of the token the
\* new account gets; an account somebody else makes must change its password.
BeginCreation(t, selfRegistered, answer) ==
  /\ \E e \in Emails :
       /\ WithEmail(e) = {}
       /\ Begin(t, [step |-> "insert", answer |-> answer,
                    row |-> [email |-> e, discord |-> Nothing, password |-> TRUE,
                             active |-> TRUE, mustChange |-> ~selfRegistered]])
  /\ UNCHANGED <<table, sessions, cookies, tickets, memory, now>>

Register(t) == BeginCreation(t, TRUE, "access")

\* register/managed and register/user.
RegisterManaged(t) == BeginCreation(t, FALSE, "password_change")

\* POST users answers with the account, without a token.
CreateUser(t) == BeginCreation(t, FALSE, Nothing)

\* The insert, which a duplicate turns into a 400.
InsertAccount(t) ==
  /\ task[t].step = "insert"
  /\ LET row == task[t].row
         answer == task[t].answer
     IN  \/ /\ \A a \in Accounts \ Existing : ~Writable(a, row)
            /\ UNCHANGED <<table, sessions>>
         \/ \E a \in Accounts \ Existing :
              /\ Writable(a, row)
              /\ user' = [user EXCEPT ![a] = row]
              /\ changed' = IF row.mustChange THEN changed ELSE changed \cup {a}
              /\ sessions' = IF answer = Nothing THEN sessions
                             ELSE sessions \cup {<<a, answer>>}
              /\ UNCHANGED attached
  /\ End(t)
  /\ UNCHANGED <<cookies, tickets, memory, now>>

-----------------------------------------------------------------------------
(* Password login and the change of the password.                          *)

\* loginUser up to its second read.  The password matches.
BeginLogin(t) ==
  /\ \E a \in Existing :
       /\ user[a].active /\ user[a].password
       /\ IF user[a].mustChange
          THEN /\ sessions' = sessions \cup {<<a, "password_change">>}
               /\ Begin(t, Idle)
          ELSE /\ UNCHANGED sessions
               /\ Begin(t, [step |-> "open", account |-> a])
  /\ UNCHANGED <<table, cookies, tickets, memory, now>>

\* The account is read again and its session signed, whatever it is by now.
OpenSession(t) ==
  /\ task[t].step = "open"
  /\ sessions' = sessions \cup {<<task[t].account, "access">>}
  /\ End(t)
  /\ UNCHANGED <<table, cookies, tickets, memory, now>>

\* JwtStrategy reads the account anew: what the guards see is the row.
Authenticated(a, purpose) == <<a, purpose>> \in sessions /\ user[a].active

\* TwoFactorGuard.
FullSession(a) == Authenticated(a, "access") /\ ~user[a].mustChange

\* ChangePasswordGuard.
MayChangePassword(a) ==
  \/ Authenticated(a, "password_change")
  \/ Authenticated(a, "access") /\ user[a].mustChange

\* changePassword up to its first write.
BeginChangePassword(t) ==
  /\ \E a \in Existing :
       /\ MayChangePassword(a)
       /\ Begin(t, [step |-> "password", account |-> a])
  /\ UNCHANGED <<table, sessions, cookies, tickets, memory, now>>

\* Faulty variant: the flag is cleared first.
ClearFlagFirst(t) ==
  /\ task[t].step = "password"
  /\ user' = [user EXCEPT ![task[t].account].mustChange = FALSE]
  /\ Proceed(t, [step |-> "clear", account |-> task[t].account])
  /\ UNCHANGED <<changed, attached, sessions, cookies, tickets, memory, now>>

\* updatePassword.
StorePassword(t) ==
  /\ task[t].step = "password"
  /\ user' = [user EXCEPT ![task[t].account].password = TRUE]
  /\ changed' = changed \cup {task[t].account}
  /\ Proceed(t, [step |-> "clear", account |-> task[t].account])
  /\ UNCHANGED <<attached, sessions, cookies, tickets, memory, now>>

\* clearMustChangePassword.
ClearFlag(t) ==
  /\ task[t].step = "clear"
  /\ user' = [user EXCEPT ![task[t].account].mustChange = FALSE]
  /\ End(t)
  /\ UNCHANGED <<changed, attached, sessions, cookies, tickets, memory, now>>

-----------------------------------------------------------------------------
(* Administration.                                                         *)

\* update: the e-mail, if there is one, is looked for.
BeginEdit(t) ==
  /\ \E a \in Existing, edit \in Edits :
       /\ edit.email # Nothing => WithEmail(edit.email) \subseteq {a}
       /\ Begin(t, [step |-> "load", account |-> a, edit |-> edit])
  /\ UNCHANGED <<table, sessions, cookies, tickets, memory, now>>

\* The entity is read and changed in memory; its password is not selected.
LoadUser(t) ==
  /\ task[t].step = "load"
  /\ LET edit == task[t].edit
         row == user[task[t].account]
     IN  Proceed(t, [step |-> "save", account |-> task[t].account,
                     password |-> edit.password,
                     entity |-> [row EXCEPT
                       !.email = IF edit.email = Nothing THEN @ ELSE edit.email,
                       !.active = IF edit.active = Nothing THEN @ ELSE edit.active]])
  /\ UNCHANGED <<table, sessions, cookies, tickets, memory, now>>

\* save writes every column in which the entity differs from the row of this
\* moment, the ones others changed in between included.  A duplicate is a 500.
SaveUser(t) ==
  /\ task[t].step = "save"
  /\ LET a == task[t].account
         row == [task[t].entity EXCEPT !.password = task[t].password \/ user[a].password]
     IN  user' = IF Writable(a, row) THEN [user EXCEPT ![a] = row] ELSE user
  /\ End(t)
  /\ UNCHANGED <<changed, attached, sessions, cookies, tickets, memory, now>>

\* remove: one statement after the check that the account is there.
Deactivate(t) ==
  /\ \E a \in Existing : user' = [user EXCEPT ![a].active = FALSE]
  /\ Begin(t, Idle)
  /\ UNCHANGED <<changed, attached, sessions, cookies, tickets, memory, now>>

-----------------------------------------------------------------------------
(* Discord.                                                                *)

\* issueDiscordTicket.
IssueTicket(a, d) ==
  /\ Len(tickets) < MaxTickets
  /\ tickets' = Append(tickets, [account |-> a, identity |-> d, expires |-> now + TicketLife])
  /\ uses' = Append(uses, 0)
  /\ UNCHANGED consumed

OAuthSession(intent, a) == [intent |-> intent, account |-> a]

\* The sessions parseOAuthSession accepts: a link names the account it is for.
Acceptable(S) ==
  {s \in S : s.intent = "login" \/ (s.intent = "link" /\ s.account # Nothing)}

\* beginDiscordLogin leaves nothing but the cookie (and is not counted as a request).
BeginDiscordLogin(t) ==
  /\ task[t] = Idle
  /\ cookies' = cookies \cup {OAuthSession("login", Nothing)}
  /\ UNCHANGED <<table, task, sessions, tickets, memory, now, requests>>

\* beginDiscordLink: the cookie names the account of a full session.
BeginDiscordLink(t) ==
  /\ \E a \in Existing : FullSession(a) /\ cookies' = cookies \cup {OAuthSession("link", a)}
  /\ Begin(t, Idle)
  /\ UNCHANGED <<table, sessions, tickets, memory, now>>

\* assertVerifiedDiscordEmail lets these through.
VerifiedProfiles == {p \in DiscordProfiles : p.email # Nothing /\ p.verified}

\* The callback of a login: the account that has the identity, if there is one.
DiscordLogin(t) ==
  /\ \E s \in Acceptable(cookies) : s.intent = "login"
  /\ \E p \in VerifiedProfiles :
       \/ /\ WithIdentity(p.id) = {}
          /\ Begin(t, [step |-> "by_email", profile |-> p])
          /\ UNCHANGED <<tickets, memory>>
       \/ \E a \in WithIdentity(p.id) :
            /\ user[a].active
            /\ IssueTicket(a, p.id)
            /\ Begin(t, Idle)
  /\ UNCHANGED <<table, sessions, cookies, now>>

\* Faulty variant: an account with the e-mail of the profile is opened.
FindByEmailAndOpen(t) ==
  /\ task[t].step = "by_email"
  /\ LET p == task[t].profile
     IN  IF WithEmail(p.email) = {}
         THEN /\ Proceed(t, [step |-> "create", profile |-> p])
              /\ UNCHANGED <<tickets, memory>>
         ELSE /\ \E a \in WithEmail(p.email) : IssueTicket(a, p.id)
              /\ End(t)
  /\ UNCHANGED <<table, sessions, cookies, now>>

\* An account that has the e-mail is not opened: the login is refused.
\* (createFromDiscord looks for the e-mail once more, and can only refuse.)
FindByEmail(t) ==
  /\ task[t].step = "by_email"
  /\ LET p == task[t].profile
     IN  Proceed(t, IF WithEmail(p.email) = {}
                    THEN [step |-> "create", profile |-> p]
                    ELSE Idle)
  /\ UNCHANGED <<table, sessions, cookies, tickets, memory, now>>

\* createFromDiscord: an account without a password.
CreateFromDiscord(t) ==
  /\ task[t].step = "create"
  /\ LET p == task[t].profile
         row == [email |-> p.email, discord |-> p.id, password |-> FALSE,
                 active |-> TRUE, mustChange |-> FALSE]
     IN  \/ /\ \A a \in Accounts \ Existing : ~Writable(a, row)
            /\ UNCHANGED <<table, tickets, memory>>
         \/ \E a \in Accounts \ Existing :
              /\ Writable(a, row)
              /\ user' = [user EXCEPT ![a] = row]
              /\ changed' = changed \cup {a}
              /\ attached' = attached \cup {<<a, p.id>>}
              /\ IssueTicket(a, p.id)
  /\ End(t)
  /\ UNCHANGED <<sessions, cookies, now>>

\* The callback of a link: the account may have no other identity.
DiscordLink(t) ==
  /\ \E s \in Acceptable(cookies), p \in VerifiedProfiles :
       /\ s.intent = "link"
       /\ user[s.account].discord \in {Nothing, p.id}
       /\ Begin(t, [step |-> "claim", account |-> s.account, identity |-> p.id,
                    active |-> user[s.account].active])
  /\ UNCHANGED <<table, sessions, cookies, tickets, memory, now>>

\* linkDiscordAccount: nobody else may have it.
ClaimIdentity(t) ==
  /\ task[t].step = "claim"
  /\ Proceed(t, IF WithIdentity(task[t].identity) \subseteq {task[t].account}
                THEN [task[t] EXCEPT !.step = "link"]
                ELSE Idle)
  /\ UNCHANGED <<table, sessions, cookies, tickets, memory, now>>

\* The update, and a ticket if the account was active when it was read.
LinkIdentity(t) ==
  /\ task[t].step = "link"
  /\ LET a == task[t].account
         row == [user[a] EXCEPT !.discord = task[t].identity]
     IN  \/ /\ ~Writable(a, row)
            /\ UNCHANGED <<table, tickets, memory>>
         \/ /\ Writable(a, row)
            /\ user' = [user EXCEPT ![a] = row]
            /\ attached' = attached \cup {<<a, task[t].identity>>}
            /\ UNCHANGED changed
            /\ IF task[t].active
               THEN IssueTicket(a, task[t].identity)
               ELSE UNCHANGED <<tickets, memory>>
  /\ End(t)
  /\ UNCHANGED <<sessions, cookies, now>>

\* Faulty variant: a used ticket is forgotten before it expires.
ForgottenEarly == now + TicketLife - 1

\* When a ticket used now may be forgotten.
ForgottenAt == now + TicketLife

\* purgeConsumedDiscordTickets, then consumeDiscordTicket: one synchronous step.
Exchange(t) ==
  /\ \E k \in DOMAIN tickets :
       LET kept == {u \in DOMAIN consumed : consumed[u] > now}
       IN  /\ now < tickets[k].expires
           /\ k \notin kept
           /\ consumed' = [u \in kept \cup {k} |-> IF u = k THEN ForgottenAt ELSE consumed[u]]
           /\ uses' = [uses EXCEPT ![k] = @ + 1]
           /\ Begin(t, [step |-> "finalize", account |-> tickets[k].account])
  /\ UNCHANGED <<table, sessions, cookies, tickets, now>>

\* finalizeDiscordSession.
FinalizeSession(t) ==
  /\ task[t].step = "finalize"
  /\ LET a == task[t].account
     IN  sessions' = IF ~user[a].active THEN sessions
                     ELSE sessions \cup
                       {<<a, IF user[a].mustChange THEN "password_change" ELSE "access">>}
  /\ End(t)
  /\ UNCHANGED <<table, cookies, tickets, memory, now>>

-----------------------------------------------------------------------------

\* The database or Discord fails: the request ends where it is.
Fail(t) ==
  /\ task[t] # Idle
  /\ End(t)
  /\ UNCHANGED <<table, sessions, cookies, tickets, memory, now>>

Tick ==
  /\ now < MaxTime
  /\ now' = now + 1
  /\ UNCHANGED <<table, task, sessions, cookies, tickets, memory, requests>>

\* The process ends and another one starts: its memory is empty.
Restart ==
  /\ task' = [t \in Tasks |-> Idle]
  /\ consumed' = << >>
  /\ uses' = [k \in DOMAIN uses |-> 0]
  /\ UNCHANGED <<table, sessions, cookies, tickets, now, requests>>

Step(t) ==
  \/ Register(t) \/ RegisterManaged(t) \/ CreateUser(t) \/ InsertAccount(t)
  \/ BeginLogin(t) \/ OpenSession(t)
  \/ BeginChangePassword(t) \/ StorePassword(t) \/ ClearFlag(t)
  \/ BeginEdit(t) \/ LoadUser(t) \/ SaveUser(t) \/ Deactivate(t)
  \/ BeginDiscordLogin(t) \/ BeginDiscordLink(t) \/ DiscordLogin(t) \/ FindByEmail(t) \/ CreateFromDiscord(t)
  \/ DiscordLink(t) \/ ClaimIdentity(t) \/ LinkIdentity(t)
  \/ Exchange(t) \/ FinalizeSession(t)
  \/ Fail(t)

AccountsNext == (\E t \in Tasks : Step(t)) \/ Tick \/ Restart

AccountsSpec == AccountsInit /\ [][AccountsNext]_vars

-----------------------------------------------------------------------------
(* Properties.                                                             *)

\* No e-mail and no Discord identity ever belongs to two accounts, although every
\* request looks for a duplicate first and writes later: registrations, edits,
\* Discord logins and links that race leave one of them refused.
OnePersonOneAccount ==
  \A a, b \in Existing : a # b =>
    /\ user[a].email # user[b].email
    /\ user[a].discord = Nothing \/ user[a].discord # user[b].discord

\* A full session is never opened with the password the creator of an account
\* chose: change-password has stored another one before, whichever statement
\* failed and whatever stale entity an edit wrote back.
SessionsFollowPasswordChange ==
  \A a \in Accounts : <<a, "access">> \in sessions => a \in changed

\* Discord opens no account by its e-mail: a ticket is only issued for an account
\* that was created with the identity or attached it from a full session.
DiscordNeverTakesOver ==
  \A k \in DOMAIN tickets : <<tickets[k].account, tickets[k].identity>> \in attached

\* A ticket is single use for the life of the process, however exchanges, its
\* expiry and the purge of used tickets interleave (auth.controller.ts).
TicketUsedOnce == \A k \in DOMAIN uses : uses[k] <= 1
=============================================================================
