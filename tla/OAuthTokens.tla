---------------------------- MODULE OAuthTokens ----------------------------
(***************************************************************************)
(* One file of the token store, ~/.rtrade/tokens/<provider>[__<account>]:  *)
(* processes whose CliOAuthProvider.resolve reads it, refreshes the token  *)
(* at the provider and writes it back, while the command line logs in and  *)
(* out.  There is no lock: a refresh is a read, a request and a write, and *)
(* write_bytes first truncates the file.                                   *)
(*                                                                         *)
(* A token is known by the number of the answer that brought it.  The      *)
(* provider is external: it either gives a new refresh token with every    *)
(* answer and forgets the old one, or it never gives a new one.            *)
(***************************************************************************)
EXTENDS Integers

CONSTANTS
    Procs,      \* processes that resolve: the worker, the API
    PollLimit,  \* _DEVICE_POLL_MAX_ITERATIONS
    MaxIssued   \* bound on the answers of the token endpoint

ASSUME LimitAssumption == PollLimit \in Nat \ {0} /\ MaxIssued \in Nat

VARIABLES
    rotates,    \* whether the provider rotates refresh tokens
    issued,     \* answers given by the token endpoint
    alive,      \* refresh tokens it honours
    fresh,      \* access tokens that are not within _REFRESH_SKEW of their end
    file,       \* the file
    user,       \* a refresh under way in each process
    login,      \* rtrade.cli.auth login
    orphaned    \* history: refresh tokens whose successor never reached the file

endpoint == <<rotates, issued, alive, fresh>>
tokenvars == <<endpoint, file, user, login, orphaned>>

None == 0
NoToken == [access |-> None, refresh |-> None]

\* A file that was truncated, or overwritten by two writers, does not parse.
Absent == [at |-> "absent", token |-> NoToken]
Torn == [at |-> "torn", token |-> NoToken]
Holding(token) == [at |-> "token", token |-> token]

\* old is what was loaded, new what is to be stored.
Idle == [at |-> "idle", old |-> NoToken, new |-> NoToken]
NoLogin == [at |-> "idle", polls |-> 0, overdue |-> FALSE, new |-> NoToken]

TokenInit ==
    /\ rotates \in BOOLEAN
    /\ issued = 0
    /\ alive = {}
    /\ fresh = {}
    /\ file = Absent
    /\ user = [p \in Procs |-> Idle]
    /\ login = NoLogin
    /\ orphaned = {}

-----------------------------------------------------------------------------
\* The token endpoint answers.
Answer == issued + 1

Answers ==
    /\ issued < MaxIssued
    /\ issued' = Answer
    /\ fresh' = fresh \cup {Answer}
    /\ UNCHANGED rotates

\* A login's token comes with a refresh token or without one.
LoginTokens == {[access |-> Answer, refresh |-> r] : r \in {Answer, None}}

GrantsLogin(token) ==
    /\ Answers
    /\ token \in LoginTokens
    /\ alive' = alive \cup ({token.refresh} \ {None})

\* Mutant of Refreshed: the old refresh token is kept although a new one came.
Refreshed_KeepsOld(old) == [access |-> Answer, refresh |-> old.refresh]

\* _refresh: the old refresh token is kept when no new one comes.
Refreshed(old) == [access |-> Answer, refresh |-> IF rotates THEN Answer ELSE old.refresh]

GrantsRefresh(old) ==
    /\ old.refresh \in alive
    /\ Answers
    /\ alive' = IF rotates THEN (alive \ {old.refresh}) \cup {Answer} ELSE alive

\* The successor of a rotated token is lost.
Orphan(token) == orphaned' = IF rotates THEN orphaned \cup {token.refresh} ELSE orphaned

Goes(p, state) == user' = [user EXCEPT ![p] = state]

-----------------------------------------------------------------------------
\* resolve loads a token that is about to end and has a refresh token.  A fresh one is
\* given out, and without a file, or with one that does not parse, it is "Belum login":
\* neither changes anything here.
Expired(p) ==
    /\ user[p].at = "idle"
    /\ file.at = "token" /\ file.token.access \notin fresh /\ file.token.refresh # None
    /\ Goes(p, [Idle EXCEPT !.at = "refresh", !.old = file.token])
    /\ UNCHANGED <<endpoint, file, login, orphaned>>

RefreshGranted(p) ==
    /\ user[p].at = "refresh"
    /\ GrantsRefresh(user[p].old)
    /\ Goes(p, [user[p] EXCEPT !.at = "save", !.new = Refreshed(user[p].old)])
    /\ UNCHANGED <<file, login, orphaned>>

\* The manifest has no endpoint, the provider is down or refuses the token, which
\* another process has used before: the expired token has to serve.
RefreshFails(p) ==
    /\ user[p].at = "refresh"
    /\ Goes(p, Idle)
    /\ UNCHANGED <<endpoint, file, login, orphaned>>

\* The provider rotated, but its answer does not arrive within 30 s.
AnswerLost(p) ==
    /\ user[p].at = "refresh"
    /\ GrantsRefresh(user[p].old)
    /\ Orphan(user[p].old)
    /\ Goes(p, Idle)
    /\ UNCHANGED <<file, login>>

\* save_token: refused without a key in production, or the file cannot be opened.
SaveFails(p) ==
    /\ user[p].at = "save"
    /\ Orphan(user[p].old)
    /\ Goes(p, Idle)
    /\ UNCHANGED <<endpoint, file, login>>

Truncates(p) ==
    /\ user[p].at = "save"
    /\ file' = Torn
    /\ Goes(p, [user[p] EXCEPT !.at = "write"])
    /\ UNCHANGED <<endpoint, login, orphaned>>

\* What write_bytes leaves.  Another writer that finished after this one truncated
\* may have left more bytes than are overwritten now.
Written(token) ==
    \/ file' = Holding(token)
    \/ file.at = "token" /\ file' = Torn

Writes(p) ==
    /\ user[p].at = "write"
    /\ Written(user[p].new)
    /\ Goes(p, Idle)
    /\ UNCHANGED <<endpoint, login, orphaned>>

\* The disk is full: the exception is swallowed, the file stays as it is.
WriteFails(p) ==
    /\ user[p].at = "write"
    /\ Orphan(user[p].old)
    /\ Goes(p, Idle)
    /\ UNCHANGED <<endpoint, file, login>>

Crash(p) ==
    /\ user[p].at # "idle"
    /\ IF user[p].at = "refresh" THEN UNCHANGED orphaned ELSE Orphan(user[p].old)
    /\ Goes(p, Idle)
    /\ UNCHANGED <<endpoint, file, login>>

-----------------------------------------------------------------------------
\* The device-code flow: the init request gave a code.  polls is the iteration, whose
\* deadline was checked when it began.
LoginBegins ==
    /\ login.at = "idle"
    /\ login' = [NoLogin EXCEPT !.at = "poll", !.polls = 1]
    /\ UNCHANGED <<endpoint, file, user, orphaned>>

\* Mutant of Polls: a slow_down starts the count of polls again.
Polls_SlowDown ==
    /\ login.at = "poll" /\ ~login.overdue
    /\ login' = [login EXCEPT !.polls = IF @ < PollLimit THEN @ + 1 ELSE 1]
    /\ UNCHANGED <<endpoint, file, user, orphaned>>

\* Still pending, or told to slow down: the next iteration begins.
Polls ==
    /\ login.at = "poll" /\ ~login.overdue /\ login.polls < PollLimit
    /\ login' = [login EXCEPT !.polls = @ + 1]
    /\ UNCHANGED <<endpoint, file, user, orphaned>>

\* expires_in of the device code has passed.
CodeExpires ==
    /\ login.at = "poll" /\ ~login.overdue
    /\ login' = [login EXCEPT !.overdue = TRUE]
    /\ UNCHANGED <<endpoint, file, user, orphaned>>

\* The provider refuses, or its answer is late or not JSON; the exchange brings nothing.
LoginFails ==
    /\ login.at \in {"poll", "exchange"}
    /\ login' = NoLogin
    /\ UNCHANGED <<endpoint, file, user, orphaned>>

\* Still pending, and the deadline or the limit of polls is reached.
LoginTimesOut ==
    /\ login.at = "poll" /\ (login.overdue \/ login.polls = PollLimit)
    /\ login' = NoLogin
    /\ UNCHANGED <<endpoint, file, user, orphaned>>

\* Codex answers with an authorization code, which is exchanged for a token.
CodexCode ==
    /\ login.at = "poll"
    /\ login' = [NoLogin EXCEPT !.at = "exchange"]
    /\ UNCHANGED <<endpoint, file, user, orphaned>>

LoginGranted ==
    /\ login.at \in {"poll", "exchange"}
    /\ \E token \in LoginTokens :
        /\ GrantsLogin(token)
        /\ login' = [NoLogin EXCEPT !.at = "save", !.new = token]
    /\ UNCHANGED <<file, user, orphaned>>

\* The PKCE flow waits for a person and polls nothing: a URL whose state is not ours
\* is refused, otherwise its code is exchanged.
PastedLogin ==
    /\ login.at = "idle"
    /\ \E token \in LoginTokens :
        /\ GrantsLogin(token)
        /\ login' = [NoLogin EXCEPT !.at = "save", !.new = token]
    /\ UNCHANGED <<file, user, orphaned>>

LoginTruncates ==
    /\ login.at = "save"
    /\ file' = Torn
    /\ login' = [login EXCEPT !.at = "write"]
    /\ UNCHANGED <<endpoint, user, orphaned>>

LoginWrites ==
    /\ login.at = "write"
    /\ Written(login.new)
    /\ login' = NoLogin
    /\ UNCHANGED <<endpoint, user, orphaned>>

\* The command is interrupted, or save_token raises.
LoginKilled ==
    /\ login.at \in {"save", "write"}
    /\ login' = NoLogin
    /\ UNCHANGED <<endpoint, file, user, orphaned>>

\* delete_token.
Logout ==
    /\ file.at # "absent"
    /\ file' = Absent
    /\ UNCHANGED <<endpoint, user, login, orphaned>>

\* An hour passes: every access token is at its end.
Expire ==
    /\ fresh # {}
    /\ fresh' = {}
    /\ UNCHANGED <<rotates, issued, alive, file, user, login, orphaned>>

-----------------------------------------------------------------------------
Refresh(p) ==
    \/ RefreshGranted(p) \/ RefreshFails(p) \/ AnswerLost(p)
    \/ SaveFails(p) \/ Truncates(p) \/ Writes(p) \/ WriteFails(p)

LoginStep ==
    \/ Polls \/ LoginFails \/ LoginTimesOut \/ CodexCode \/ LoginGranted
    \/ LoginTruncates \/ LoginWrites

Environment == LoginBegins \/ CodeExpires \/ PastedLogin \/ LoginKilled \/ Logout \/ Expire

TokenNext == Environment \/ LoginStep \/ \E p \in Procs : Expired(p) \/ Refresh(p) \/ Crash(p)

TokenSpec == TokenInit /\ [][TokenNext]_tokenvars

\* Requests have a timeout and a file is written at once; nothing makes a person log in.
TokenFairness == WF_tokenvars(LoginStep) /\ \A p \in Procs : WF_tokenvars(Refresh(p))

-----------------------------------------------------------------------------
TokenValues == [access : 0..MaxIssued, refresh : 0..MaxIssued]

TokenTypeOK ==
    /\ rotates \in BOOLEAN /\ issued \in 0..MaxIssued
    /\ alive \cup fresh \cup orphaned \subseteq 1..issued
    /\ file.at \in {"absent", "torn", "token"} /\ file.token \in TokenValues
    /\ \A p \in Procs :
        /\ user[p].at \in {"idle", "refresh", "save", "write"}
        /\ user[p].old \in TokenValues /\ user[p].new \in TokenValues
    /\ login.at \in {"idle", "poll", "exchange", "save", "write"}
    /\ login.polls \in 0..PollLimit /\ login.overdue \in BOOLEAN
    /\ login.new \in TokenValues

Quiet ==
    /\ \A p \in Procs : user[p].at \notin {"save", "write"}
    /\ login.at \notin {"save", "write"}

\* cli_oauth.py:48-85: whatever processes refresh and log in at once, the refresh token
\* in the file is one the provider honours, once nobody is about to write: the loser of
\* a race writes nothing.  Only an answer that was lost or could not be stored leaves a
\* dead one behind.
StoredIsAlive ==
    (Quiet /\ file.at = "token") => file.token.refresh \in alive \cup orphaned \cup {None}

\* oauth2.py:166-184: a device login that nobody confirms ends, whatever mix of
\* pending and slow_down the provider answers.
LoginEnds == login.at # "idle" ~> login.at = "idle"

\* token_store.py:90, a file that exists holds a token: two writers at once can leave
\* one that does not parse, and then every process is told to log in.
NeverTorn == Quiet => file.at # "torn"

\* cli/auth.py:211, a logout is final: a refresh under way brings the file back.
LogoutHolds ==
    [][(file.at = "absent" /\ file'.at # "absent") => login.at # "idle"]_tokenvars
=============================================================================
