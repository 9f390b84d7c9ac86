SPECIFICATION AccountsSpec
CONSTANTS
  Accounts = {a1, a2}
  Emails = {m1, m2}
  Identities = {d1, d2}
  Nothing = nothing
  DiscordProfiles <- MCProfiles
  Edits <- MCEdits
  Tables <- MCTables
  Tasks = {t1, t2}
  TicketLife = 2
  MaxTime = 2
  MaxTickets = 1
  MaxRequests = 4
SYMMETRY Symmetry
\* The bound on the requests ends every behaviour.
CHECK_DEADLOCK FALSE
INVARIANTS
  OnePersonOneAccount
  SessionsFollowPasswordChange
  DiscordNeverTakesOver
  TicketUsedOnce
