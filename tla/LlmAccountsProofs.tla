------------------------- MODULE LlmAccountsProofs -------------------------
(***************************************************************************)
(* The refresh token in the file is one the provider honours, for any      *)
(* number of processes that refresh, log in and out and crash at any       *)
(* moment, whether the provider rotates refresh tokens or not; and a role  *)
(* that the command line points somewhere resolves.  And of the pool that  *)
(* is built from these accounts: a call that gives up has tried what there *)
(* was to try, and asks nobody twice, however the calls share its index.   *)
(*                                                                         *)
(* With rotation the argument is about who knows a refresh token.  A new   *)
(* one is known to the process that got it and to nobody else until it is  *)
(* in the file, so nobody can have it revoked before; the one it replaces  *)
(* is accounted for until the process has written, or failed to.           *)
(***************************************************************************)
EXTENDS LlmAccounts, CredentialPool, FiniteSetTheorems, TLAPS

Writing == {"save", "write"}

\* A process that has used, or is about to use, the token it loaded.
Spending(p) == user[p].at \in {"refresh"} \cup Writing

\* Refresh tokens that a process may have revoked at any moment.
Known ==
    {user[p].old.refresh : p \in {q \in Procs : Spending(q)}}
    \cup (IF file.at = "token" THEN {file.token.refresh} ELSE {})

TokenShape == [access : 0..issued, refresh : 0..issued]

TokenShapes ==
    /\ rotates \in BOOLEAN /\ issued \in 0..MaxIssued
    /\ alive \subseteq 1..issued /\ fresh \subseteq 1..issued /\ orphaned \subseteq 1..issued
    /\ file \in [at : {"absent", "torn", "token"}, token : TokenShape]
    /\ user \in [Procs -> [at : {"idle", "refresh"} \cup Writing,
                         old : TokenShape, new : TokenShape]]
    /\ login \in [at : {"idle", "poll", "exchange"} \cup Writing, polls : 0..PollLimit,
                  overdue : BOOLEAN, new : TokenShape]
    /\ \A p \in Procs : Spending(p) => user[p].old.refresh # None

\* What is about to be written is honoured by the provider.
NewIsAlive ==
    /\ \A p \in Procs : user[p].at \in Writing => user[p].new.refresh \in alive
    /\ login.at \in Writing => login.new.refresh \in alive \cup {None}
    /\ ~ rotates => \A p \in Procs : user[p].at \in Writing => user[p].old.refresh \in alive

\* Under rotation a new token is known to its process alone.
NewIsSecret ==
    rotates =>
        /\ \A p \in Procs : user[p].at \in Writing =>
            /\ user[p].new.refresh \notin Known
            /\ \A q \in Procs \ {p} :
                user[q].at \in Writing => user[q].new.refresh # user[p].new.refresh
            /\ login.at \in Writing => login.new.refresh # user[p].new.refresh
        /\ login.at \in Writing => login.new.refresh \notin Known \ {None}

\* A dead token in the file is an orphan, or one whose successor is about to come.
FileCovered ==
    file.at = "token" =>
        \/ file.token.refresh \in alive \cup orphaned \cup {None}
        \/ \E p \in Procs : user[p].at \in Writing /\ user[p].old.refresh = file.token.refresh

TokenInv == TokenShapes /\ NewIsAlive /\ NewIsSecret /\ FileCovered

-----------------------------------------------------------------------------
\* The shape of what a step writes.

UserShape == [at : {"idle", "refresh"} \cup Writing, old : TokenShape, new : TokenShape]

\* A process goes on with the tokens it has, or with new ones.
LEMMA GoesShape ==
    ASSUME TokenShapes, NEW p \in Procs, NEW st,
           Goes(p, st), st \in UserShape', issued' \in {issued, issued + 1},
           st.at # "idle" => st.old.refresh # None
    PROVE  /\ user' \in [Procs -> UserShape']
           /\ \A q \in Procs : Spending(q)' => user'[q].old.refresh # None
<1>1. UserShape \subseteq UserShape'
  BY DEF UserShape, TokenShapes, TokenShape
<1>2. user \in [Procs -> UserShape]
  BY DEF TokenShapes, UserShape
<1>3. user' \in [Procs -> UserShape']
  BY <1>1, <1>2 DEF Goes
<1>4. ASSUME NEW q \in Procs, Spending(q)'
      PROVE  user'[q].old.refresh # None
  BY <1>2, <1>4 DEF Goes, TokenShapes, Spending, Writing
<1>. QED
  BY <1>3, <1>4

\* Only a token that was given can become an orphan.
LEMMA OrphanShape ==
    ASSUME TokenShapes, NEW p \in Procs, Spending(p), Orphan(user[p].old)
    PROVE  orphaned' \subseteq 1..issued
<1>1. user[p].old.refresh \in 1..issued
  BY DEF TokenShapes, TokenShape, None
<1>. QED
  BY <1>1 DEF Orphan, TokenShapes

\* The process has nothing in hand any more.
LEMMA IdleShape ==
    ASSUME TokenShapes, NEW p \in Procs, Goes(p, Idle), issued' = issued
    PROVE  /\ user' \in [Procs -> UserShape']
           /\ \A q \in Procs : Spending(q)' => user'[q].old.refresh # None
<1>1. Idle \in UserShape' /\ Idle.at = "idle"
  BY DEF Idle, NoToken, None, UserShape, TokenShape, TokenShapes
<1>. QED
  BY <1>1, GoesShape

-----------------------------------------------------------------------------
\* One lemma for each action.

LEMMA TokenInitInv ==
    ASSUME TokenInit
    PROVE  TokenInv
<1>1. TokenShapes
  BY LimitAssumption
     DEF TokenInit, TokenShapes, TokenShape, Absent, Idle, NoLogin, NoToken, None,
     Spending, Writing
<1>. QED
  BY <1>1 DEF TokenInit, TokenInv, NewIsAlive, NewIsSecret, FileCovered, Absent, Idle, NoLogin,
     Writing

\* A process loads the token of the file, which it may spend from now on.
LEMMA ExpiredStep ==
    ASSUME TokenInv, NEW p \in Procs, Expired(p)
    PROVE  TokenInv'
<1>1. TokenShapes'
  <2>. DEFINE st == [Idle EXCEPT !.at = "refresh", !.old = file.token]
  <2>1. file.token \in TokenShape /\ Idle \in UserShape /\ issued' = issued
    BY DEF Expired, TokenInv, TokenShapes, TokenShape, UserShape, Idle, NoToken, None, endpoint
  <2>2. /\ st \in UserShape /\ st.old.refresh # None /\ Goes(p, st)
        /\ UNCHANGED <<endpoint, file, login, orphaned>>
    BY <2>1 DEF Expired, UserShape
  <2>3. st \in UserShape'
    BY <2>1, <2>2 DEF UserShape, TokenShape
  <2>. HIDE DEF st
  <2>4. /\ user' \in [Procs -> UserShape']
        /\ \A q \in Procs : Spending(q)' => user'[q].old.refresh # None
    BY <2>1, <2>2, <2>3, GoesShape DEF TokenInv
  <2>. QED
    BY <2>2, <2>4 DEF TokenInv, TokenShapes, TokenShape, UserShape, endpoint
<1>2. NewIsAlive'
  BY DEF NewIsAlive, NewIsSecret, Known, Expired, TokenInv, TokenShapes, TokenShape, Spending,
         Writing, endpoint, Goes, Orphan, Idle, NoLogin, NoToken, None
<1>3. NewIsSecret'
  BY DEF NewIsAlive, NewIsSecret, Known, Expired, TokenInv, TokenShapes, TokenShape, Spending,
         Writing, endpoint, Goes, Orphan, Idle, NoLogin, NoToken, None
<1>4. FileCovered'
  BY DEF NewIsAlive, FileCovered, Expired, TokenInv, TokenShapes, TokenShape, Spending,
         Writing, endpoint, Goes, Orphan, Idle, NoLogin, NoToken, None
<1>. QED
  BY <1>1, <1>2, <1>3, <1>4 DEF TokenInv

\* The provider answers: under rotation the old token dies, and only p knows the new one.
LEMMA RefreshGrantedStep ==
    ASSUME TokenInv, NEW p \in Procs, RefreshGranted(p)
    PROVE  TokenInv'
<1>1. TokenShapes'
  <2>. DEFINE new == Refreshed(user[p].old)
              st  == [user[p] EXCEPT !.at = "save", !.new = new]
  <2>1. /\ issued \in Nat /\ issued < MaxIssued /\ issued' = issued + 1
        /\ user[p].old \in TokenShape /\ user[p] \in UserShape
        /\ user[p].old.refresh # None
        /\ UNCHANGED <<rotates, file, login, orphaned>> /\ fresh' = fresh \cup {issued + 1}
        /\ alive' \subseteq alive \cup {issued + 1}
        /\ Goes(p, st)
    BY DEF RefreshGranted, GrantsRefresh, Answers, Answer, TokenInv, TokenShapes, UserShape,
           Spending
  <2>2. new \in TokenShape'
    BY <2>1 DEF Refreshed, Answer, TokenShape
  <2>. HIDE DEF new
  <2>3. user[p].old \in TokenShape'
    BY <2>1 DEF TokenShape
  <2>4. st \in UserShape' /\ st.old.refresh # None
    BY <2>1, <2>2, <2>3 DEF UserShape, Writing
  <2>. HIDE DEF st
  <2>5. /\ user' \in [Procs -> UserShape']
        /\ \A q \in Procs : Spending(q)' => user'[q].old.refresh # None
    BY <2>1, <2>4, GoesShape DEF TokenInv
  <2>. QED
    BY <2>1, <2>5, LimitAssumption DEF TokenInv, TokenShapes, TokenShape, UserShape
<1>2. NewIsAlive'
  BY DEF NewIsAlive, NewIsSecret, Known, RefreshGranted, GrantsRefresh, Refreshed, Answers,
         Answer, TokenInv, TokenShapes, TokenShape, Spending, Writing, endpoint, Goes, Orphan,
         Idle, NoLogin, NoToken, None
<1>3. NewIsSecret'
  BY DEF NewIsAlive, NewIsSecret, Known, RefreshGranted, GrantsRefresh, Refreshed, Answers,
         Answer, TokenInv, TokenShapes, TokenShape, Spending, Writing, endpoint, Goes, Orphan,
         Idle, NoLogin, NoToken, None
<1>4. FileCovered'
  BY DEF NewIsAlive, FileCovered, RefreshGranted, GrantsRefresh, Refreshed, Answers, Answer,
         TokenInv, TokenShapes, TokenShape, Spending, Writing, endpoint, Goes, Orphan, Idle,
         NoLogin, NoToken, None
<1>. QED
  BY <1>1, <1>2, <1>3, <1>4 DEF TokenInv

\* The expired token has to serve.
LEMMA RefreshFailsStep ==
    ASSUME TokenInv, NEW p \in Procs, RefreshFails(p)
    PROVE  TokenInv'
<1>1. TokenShapes'
  <2>1. Goes(p, Idle) /\ UNCHANGED <<endpoint, file, login, orphaned>>
    BY DEF RefreshFails
  <2>2. /\ user' \in [Procs -> UserShape']
        /\ \A q \in Procs : Spending(q)' => user'[q].old.refresh # None
    BY <2>1, IdleShape DEF TokenInv, endpoint
  <2>. QED
    BY <2>1, <2>2 DEF TokenInv, TokenShapes, TokenShape, UserShape, endpoint
<1>2. NewIsAlive'
  BY DEF NewIsAlive, NewIsSecret, Known, RefreshFails, TokenInv, TokenShapes, TokenShape,
         Spending, Writing, endpoint, Goes, Orphan, Idle, NoLogin, NoToken, None
<1>3. NewIsSecret'
  BY DEF NewIsAlive, NewIsSecret, Known, RefreshFails, TokenInv, TokenShapes, TokenShape,
         Spending, Writing, endpoint, Goes, Orphan, Idle, NoLogin, NoToken, None
<1>4. FileCovered'
  BY DEF NewIsAlive, FileCovered, RefreshFails, TokenInv, TokenShapes, TokenShape, Spending,
         Writing, endpoint, Goes, Orphan, Idle, NoLogin, NoToken, None
<1>. QED
  BY <1>1, <1>2, <1>3, <1>4 DEF TokenInv

\* The answer is lost: the token it replaced becomes an orphan.
LEMMA AnswerLostStep ==
    ASSUME TokenInv, NEW p \in Procs, AnswerLost(p)
    PROVE  TokenInv'
<1>1. TokenShapes'
  <2>1. /\ Spending(p) /\ Orphan(user[p].old) /\ Goes(p, Idle)
        /\ issued \in Nat /\ issued < MaxIssued /\ issued' = issued + 1
        /\ UNCHANGED <<rotates, file, login>> /\ fresh' = fresh \cup {issued + 1}
        /\ alive' \subseteq alive \cup {issued + 1}
    BY DEF AnswerLost, GrantsRefresh, Answers, Answer, TokenInv, TokenShapes, Spending
  <2>2. orphaned' \subseteq 1..issued
    BY <2>1, OrphanShape DEF TokenInv
  <2>3. Idle \in UserShape' /\ Idle.at = "idle"
    BY <2>1 DEF Idle, NoToken, None, UserShape, TokenShape
  <2>4. /\ user' \in [Procs -> UserShape']
        /\ \A q \in Procs : Spending(q)' => user'[q].old.refresh # None
    BY <2>1, <2>3, GoesShape DEF TokenInv
  <2>. QED
    BY <2>1, <2>2, <2>4, LimitAssumption DEF TokenInv, TokenShapes, TokenShape, UserShape
<1>2. NewIsAlive'
  BY DEF NewIsAlive, NewIsSecret, Known, AnswerLost, GrantsRefresh, Refreshed, Answers,
         Answer, TokenInv, TokenShapes, TokenShape, Spending, Writing, endpoint, Goes, Orphan,
         Idle, NoLogin, NoToken, None
<1>3. NewIsSecret'
  BY DEF NewIsAlive, NewIsSecret, Known, AnswerLost, GrantsRefresh, Refreshed, Answers,
         Answer, TokenInv, TokenShapes, TokenShape, Spending, Writing, endpoint, Goes, Orphan,
         Idle, NoLogin, NoToken, None
<1>4. FileCovered'
  BY DEF NewIsAlive, FileCovered, AnswerLost, GrantsRefresh, Refreshed, Answers, Answer,
         TokenInv, TokenShapes, TokenShape, Spending, Writing, endpoint, Goes, Orphan, Idle,
         NoLogin, NoToken, None
<1>. QED
  BY <1>1, <1>2, <1>3, <1>4 DEF TokenInv

\* The new token cannot be stored: the token it replaced becomes an orphan.
LEMMA LosesNewStep ==
    ASSUME TokenInv, NEW p \in Procs, SaveFails(p) \/ WriteFails(p)
    PROVE  TokenInv'
<1>1. /\ user[p].at \in Writing /\ Orphan(user[p].old) /\ Goes(p, Idle)
      /\ UNCHANGED <<endpoint, file, login>>
  BY DEF SaveFails, WriteFails, Writing
<1>2. TokenShapes'
  <2>1. orphaned' \subseteq 1..issued
    BY <1>1, OrphanShape DEF TokenInv, Spending
  <2>2. /\ user' \in [Procs -> UserShape']
        /\ \A q \in Procs : Spending(q)' => user'[q].old.refresh # None
    BY <1>1, IdleShape DEF TokenInv, endpoint
  <2>. QED
    BY <1>1, <2>1, <2>2 DEF TokenInv, TokenShapes, TokenShape, UserShape, endpoint
<1>3. NewIsAlive'
  BY <1>1 DEF NewIsAlive, TokenInv, TokenShapes, Writing, endpoint, Goes, Idle
<1>4. NewIsSecret'
  BY <1>1 DEF NewIsSecret, Known, TokenInv, TokenShapes, Spending, Writing, endpoint, Goes, Idle
<1>5. FileCovered'
  BY <1>1
     DEF NewIsAlive, FileCovered, TokenInv, TokenShapes, Writing, endpoint, Goes, Orphan, Idle
<1>. QED
  BY <1>2, <1>3, <1>4, <1>5 DEF TokenInv

\* The file is emptied before it is written.
LEMMA TruncatesStep ==
    ASSUME TokenInv, NEW p \in Procs, Truncates(p)
    PROVE  TokenInv'
<1>1. TokenShapes'
  BY DEF Truncates, Torn, TokenInv, TokenShapes, TokenShape, Spending, Writing, endpoint,
         Goes, Orphan, Idle, NoLogin, NoToken, None
<1>2. NewIsAlive'
  BY DEF NewIsAlive, NewIsSecret, Known, Truncates, Torn, TokenInv, TokenShapes, TokenShape,
         Spending, Writing, endpoint, Goes, Orphan, Idle, NoLogin, NoToken, None
<1>3. NewIsSecret'
  BY DEF NewIsAlive, NewIsSecret, Known, Truncates, Torn, TokenInv, TokenShapes, TokenShape,
         Spending, Writing, endpoint, Goes, Orphan, Idle, NoLogin, NoToken, None
<1>4. FileCovered'
  BY DEF NewIsAlive, FileCovered, Truncates, Torn, TokenInv, TokenShapes, TokenShape,
         Spending, Writing, endpoint, Goes, Orphan, Idle, NoLogin, NoToken, None
<1>. QED
  BY <1>1, <1>2, <1>3, <1>4 DEF TokenInv

\* The new token reaches the file, which holds the old one no longer.
LEMMA WritesStep ==
    ASSUME TokenInv, NEW p \in Procs, Writes(p)
    PROVE  TokenInv'
<1>1. TokenShapes'
  BY DEF Writes, Absent, Torn, Holding, Written, TokenInv, TokenShapes, TokenShape, Spending,
         Writing, endpoint, Goes, Orphan, Idle, NoLogin, NoToken, None
<1>2. NewIsAlive'
  BY DEF NewIsAlive, NewIsSecret, Known, Writes, Absent, Torn, Holding, Written, TokenInv,
         TokenShapes, TokenShape, Spending, Writing, endpoint, Goes, Orphan, Idle, NoLogin,
         NoToken, None
<1>3. NewIsSecret'
  BY DEF NewIsAlive, NewIsSecret, Known, Writes, Absent, Torn, Holding, Written, TokenInv,
         TokenShapes, TokenShape, Spending, Writing, endpoint, Goes, Orphan, Idle, NoLogin,
         NoToken, None
<1>4. FileCovered'
  BY DEF NewIsAlive, FileCovered, Writes, Absent, Torn, Holding, Written, TokenInv,
         TokenShapes, TokenShape, Spending, Writing, endpoint, Goes, Orphan, Idle, NoLogin,
         NoToken, None
<1>. QED
  BY <1>1, <1>2, <1>3, <1>4 DEF TokenInv

\* A process that dies loses what it had in hand.
LEMMA CrashStep ==
    ASSUME TokenInv, NEW p \in Procs, Crash(p)
    PROVE  TokenInv'
<1>1. CASE user[p].at = "refresh"
  <2>1. RefreshFails(p)
    BY <1>1 DEF Crash, RefreshFails
  <2>. QED
    BY <2>1, RefreshFailsStep
<1>2. CASE user[p].at # "refresh"
  <2>1. user[p].at \in Writing
    BY <1>2 DEF Crash, TokenInv, TokenShapes
  <2>2. SaveFails(p) \/ WriteFails(p)
    BY <1>2, <2>1 DEF Crash, SaveFails, WriteFails, Writing
  <2>. QED
    BY <2>2, LosesNewStep
<1>. QED
  BY <1>1, <1>2

\* A login is granted a token nobody knows, with a refresh token or without one.
LEMMA LoginTokenStep ==
    ASSUME TokenInv, LoginGranted \/ PastedLogin
    PROVE  TokenInv'
<1>1. PICK token \in LoginTokens :
          GrantsLogin(token) /\ login' = [NoLogin EXCEPT !.at = "save", !.new = token]
  BY DEF LoginGranted, PastedLogin
<1>2. UNCHANGED <<file, user, orphaned>>
  BY DEF LoginGranted, PastedLogin
<1>3. /\ issued \in Nat /\ issued < MaxIssued /\ issued' = issued + 1
      /\ rotates' = rotates /\ fresh' = fresh \cup {issued + 1}
      /\ alive' = alive \cup ({token.refresh} \ {None})
  BY <1>1 DEF GrantsLogin, Answers, Answer, TokenInv, TokenShapes
<1>4. token = [access |-> issued + 1, refresh |-> token.refresh]
      /\ token.refresh \in {issued + 1, None}
  BY DEF LoginTokens, Answer
<1>5. /\ login'.at = "save" /\ login'.new = token
      /\ login' = [at |-> "save", polls |-> 0, overdue |-> FALSE, new |-> token]
  BY <1>1 DEF NoLogin
<1>6. alive \subseteq 1..issued
  BY DEF TokenInv, TokenShapes
<1>7. TokenShapes'
  <2>1. token \in TokenShape'
    BY <1>3, <1>4 DEF TokenShape, None
  <2>2. 0 \in 0..PollLimit /\ PollLimit' = PollLimit
    BY LimitAssumption
  <2>3. login' \in [at : {"idle", "poll", "exchange"} \cup Writing, polls : 0..PollLimit,
                    overdue : BOOLEAN, new : TokenShape']
    BY <1>5, <2>1, <2>2 DEF Writing
  <2>4. alive' \subseteq 1..issued'
    BY <1>3, <1>4, <1>6 DEF None
  <2>. QED
    BY <1>2, <1>3, <2>3, <2>4, LimitAssumption DEF TokenInv, TokenShapes, TokenShape, Spending
<1>8. NewIsAlive'
  BY <1>2, <1>3, <1>4, <1>5 DEF NewIsAlive, TokenInv, Writing
<1>9. NewIsSecret'
  <2>1. Known' = Known
    BY <1>2 DEF Known, Spending
  <2>2. Known \subseteq 0..issued
    BY DEF Known, TokenInv, TokenShapes, TokenShape
  <2>3. rotates => login'.new.refresh \notin Known \ {None}
    BY <1>3, <1>4, <1>5, <2>2
  <2>4. ASSUME rotates, NEW p \in Procs, user[p].at \in Writing
        PROVE  login'.new.refresh # user[p].new.refresh
    BY <1>3, <1>4, <1>5, <1>6, <2>4 DEF TokenInv, NewIsAlive, None
  <2>. QED
    BY <1>2, <1>3, <2>1, <2>3, <2>4 DEF NewIsSecret, TokenInv
<1>10. FileCovered'
  BY <1>2, <1>3 DEF FileCovered, TokenInv
<1>. QED
  BY <1>7, <1>8, <1>9, <1>10 DEF TokenInv

\* The file is emptied before the login's token is written.
LEMMA LoginTruncatesStep ==
    ASSUME TokenInv, LoginTruncates
    PROVE  TokenInv'
<1>1. TokenShapes'
  BY DEF LoginTruncates, Torn, TokenInv, TokenShapes, TokenShape, Spending, Writing, endpoint,
         Goes, Orphan, Idle, NoLogin, NoToken, None
<1>2. NewIsAlive'
  BY DEF NewIsAlive, NewIsSecret, Known, LoginTruncates, Torn, TokenInv, TokenShapes,
         TokenShape, Spending, Writing, endpoint, Goes, Orphan, Idle, NoLogin, NoToken, None
<1>3. NewIsSecret'
  BY DEF NewIsAlive, NewIsSecret, Known, LoginTruncates, Torn, TokenInv, TokenShapes,
         TokenShape, Spending, Writing, endpoint, Goes, Orphan, Idle, NoLogin, NoToken, None
<1>4. FileCovered'
  BY DEF NewIsAlive, FileCovered, LoginTruncates, Torn, TokenInv, TokenShapes, TokenShape,
         Spending, Writing, endpoint, Goes, Orphan, Idle, NoLogin, NoToken, None
<1>. QED
  BY <1>1, <1>2, <1>3, <1>4 DEF TokenInv

\* The login's token reaches the file.
LEMMA LoginWritesStep ==
    ASSUME TokenInv, LoginWrites
    PROVE  TokenInv'
<1>1. TokenShapes'
  BY LimitAssumption
     DEF LoginWrites, Absent, Torn, Holding, Written, TokenInv, TokenShapes, TokenShape,
         Spending, Writing, endpoint, Goes, Orphan, Idle, NoLogin, NoToken, None
<1>2. NewIsAlive'
  BY DEF NewIsAlive, NewIsSecret, Known, LoginWrites, Absent, Torn, Holding, Written,
         TokenInv, TokenShapes, TokenShape, Spending, Writing, endpoint, Goes, Orphan, Idle,
         NoLogin, NoToken, None
<1>3. NewIsSecret'
  BY DEF NewIsAlive, NewIsSecret, Known, LoginWrites, Absent, Torn, Holding, Written,
         TokenInv, TokenShapes, TokenShape, Spending, Writing, endpoint, Goes, Orphan, Idle,
         NoLogin, NoToken, None
<1>4. FileCovered'
  BY DEF NewIsAlive, FileCovered, LoginWrites, Absent, Torn, Holding, Written, TokenInv,
         TokenShapes, TokenShape, Spending, Writing, endpoint, Goes, Orphan, Idle, NoLogin,
         NoToken, None
<1>. QED
  BY <1>1, <1>2, <1>3, <1>4 DEF TokenInv

\* A login that brings no token.
LEMMA LoginWaitsStep ==
    ASSUME TokenInv, LoginBegins \/ Polls \/ CodeExpires \/ LoginFails
           \/ LoginTimesOut \/ CodexCode \/ LoginKilled
    PROVE  TokenInv'
<1>. DEFINE Shape == [at : {"idle", "poll", "exchange"} \cup Writing, polls : 0..PollLimit,
                      overdue : BOOLEAN, new : TokenShape]
<1>1. UNCHANGED <<rotates, issued, alive, fresh, file, user, orphaned>>
  BY DEF LoginBegins, Polls, CodeExpires, LoginFails, LoginTimesOut, CodexCode, LoginKilled,
         endpoint
<1>2. login \in Shape
  BY DEF TokenInv, TokenShapes
<1>3. NoLogin \in Shape /\ NoLogin.at = "idle"
  BY LimitAssumption DEF NoLogin, NoToken, None, TokenInv, TokenShapes, TokenShape
<1>4. 1 \in 0..PollLimit /\ PollLimit \in Nat
  BY LimitAssumption
<1>5. login' \in Shape /\ login'.at \notin Writing
  <2>1. CASE LoginBegins
    BY <2>1, <1>3, <1>4 DEF LoginBegins, Writing
  <2>2. CASE Polls
    BY <2>2, <1>2, <1>4 DEF Polls, Writing
  <2>3. CASE CodeExpires
    BY <2>3, <1>2 DEF CodeExpires, Writing
  <2>4. CASE LoginFails \/ LoginTimesOut \/ LoginKilled
    BY <2>4, <1>3 DEF LoginFails, LoginTimesOut, LoginKilled, Writing
  <2>5. CASE CodexCode
    BY <2>5, <1>3 DEF CodexCode, Writing
  <2>. QED
    BY <2>1, <2>2, <2>3, <2>4, <2>5
<1>6. TokenShapes'
  BY <1>1, <1>5 DEF TokenInv, TokenShapes, TokenShape, Spending
<1>7. NewIsAlive' /\ FileCovered'
  BY <1>1, <1>5 DEF NewIsAlive, FileCovered, TokenInv
<1>8. Known' = Known
  BY <1>1 DEF Known, Spending
<1>9. NewIsSecret'
  BY <1>1, <1>5, <1>8 DEF NewIsSecret, TokenInv
<1>. QED
  BY <1>6, <1>7, <1>9 DEF TokenInv

\* The file is removed.
LEMMA LogoutStep ==
    ASSUME TokenInv, Logout
    PROVE  TokenInv'
<1>1. TokenShapes'
  BY DEF Logout, Absent, TokenInv, TokenShapes, TokenShape, Spending, Writing, endpoint, Goes,
         Orphan, Idle, NoLogin, NoToken, None
<1>2. NewIsAlive'
  BY DEF NewIsAlive, NewIsSecret, Known, Logout, Absent, TokenInv, TokenShapes, TokenShape,
         Spending, Writing, endpoint, Goes, Orphan, Idle, NoLogin, NoToken, None
<1>3. NewIsSecret'
  BY DEF NewIsAlive, NewIsSecret, Known, Logout, Absent, TokenInv, TokenShapes, TokenShape,
         Spending, Writing, endpoint, Goes, Orphan, Idle, NoLogin, NoToken, None
<1>4. FileCovered'
  BY DEF NewIsAlive, FileCovered, Logout, Absent, TokenInv, TokenShapes, TokenShape, Spending,
         Writing, endpoint, Goes, Orphan, Idle, NoLogin, NoToken, None
<1>. QED
  BY <1>1, <1>2, <1>3, <1>4 DEF TokenInv

\* The access tokens come to their end, or nothing happens.
LEMMA TimeStep ==
    ASSUME TokenInv, Expire \/ UNCHANGED tokenvars
    PROVE  TokenInv'
<1>1. UNCHANGED <<rotates, issued, alive, file, user, login, orphaned>> /\ fresh' \subseteq fresh
  BY DEF Expire, tokenvars, endpoint
<1>2. TokenShapes'
  BY <1>1 DEF TokenInv, TokenShapes, TokenShape, Spending
<1>3. NewIsAlive' /\ FileCovered'
  BY <1>1 DEF NewIsAlive, FileCovered, TokenInv
<1>4. Known' = Known
  BY <1>1 DEF Known, Spending
<1>5. NewIsSecret'
  BY <1>1, <1>4 DEF NewIsSecret, TokenInv
<1>. QED
  BY <1>2, <1>3, <1>5 DEF TokenInv

\* Every step keeps the invariant.
LEMMA TokenStep ==
    ASSUME TokenInv, [TokenNext]_tokenvars
    PROVE  TokenInv'
<1>1. CASE Environment \/ LoginStep \/ UNCHANGED tokenvars
  BY <1>1, LoginTokenStep, LoginTruncatesStep, LoginWritesStep, LoginWaitsStep, LogoutStep,
     TimeStep DEF Environment, LoginStep
<1>2. ASSUME NEW p \in Procs, Expired(p) \/ Refresh(p) \/ Crash(p)
      PROVE  TokenInv'
  BY <1>2, ExpiredStep, RefreshGrantedStep, RefreshFailsStep, AnswerLostStep, LosesNewStep,
     TruncatesStep, WritesStep, CrashStep DEF Refresh
<1>. QED
  BY <1>1, <1>2 DEF TokenNext

-----------------------------------------------------------------------------
\* What the invariant gives, for the accounts as a whole.

\* Whatever else the accounts do, the token store sees steps of its own.
LEMMA AccountsMoveTokens ==
    ASSUME [Next]_vars
    PROVE  [TokenNext]_tokenvars
<1>1. CASE Logins \/ Surroundings \/ UNCHANGED vars
  BY <1>1 DEF Logins, Surroundings, TokenNext, vars
<1>2. ASSUME NEW p \in Procs, Build(p) \/ ResolvesMine(p) \/ Refreshes(p) \/ Restart(p)
      PROVE  [TokenNext]_tokenvars
  BY <1>2 DEF Build, ResolvesMine, Refreshes, Restart, TokenNext
<1>3. CASE \/ \E choice \in UseArgs : Use(choice)
           \/ \E answer \in WizardArgs : Wizard(answer)
  BY <1>3 DEF Use, Wizard
<1>. QED
  BY <1>1, <1>2, <1>3 DEF Next

\* cli_oauth.py:48-85 and token_store.py:75-117: what the file, the refreshes and the login
\* under way say of each other holds whatever the processes and the command line do.
THEOREM TokenInvariance == Spec => []TokenInv
<1>1. Init => TokenInv
  BY TokenInitInv DEF Init
<1>2. TokenInv /\ [Next]_vars => TokenInv'
  BY AccountsMoveTokens, TokenStep
<1>. QED
  BY <1>1, <1>2, PTL DEF Spec

\* The variables of the token store keep their types.
THEOREM TokenTypeCorrect == Spec => []TokenTypeOK
<1>1. TokenInv => TokenTypeOK
  <2>. SUFFICES ASSUME TokenInv
                PROVE  TokenTypeOK
    OBVIOUS
  <2>1. TokenShape \subseteq TokenValues
    BY LimitAssumption DEF TokenInv, TokenShapes, TokenShape, TokenValues
  <2>2. file.token \in TokenValues /\ login.new \in TokenValues
    BY <2>1 DEF TokenInv, TokenShapes
  <2>3. ASSUME NEW p \in Procs
        PROVE  /\ user[p].at \in {"idle", "refresh", "save", "write"}
               /\ user[p].old \in TokenValues /\ user[p].new \in TokenValues
    BY <2>1 DEF TokenInv, TokenShapes, Writing
  <2>. QED
    BY <2>2, <2>3 DEF TokenTypeOK, TokenInv, TokenShapes, Writing
<1>. QED
  BY <1>1, TokenInvariance, PTL

\* The refresh token in the file is one the provider honours, once nobody is about to write,
\* unless an answer was lost or could not be stored: the loser of a race writes nothing.
THEOREM StoredTokenIsAlive == Spec => []StoredIsAlive
<1>1. TokenInv => StoredIsAlive
  BY DEF TokenInv, FileCovered, StoredIsAlive, Quiet, Writing
<1>. QED
  BY <1>1, TokenInvariance, PTL

-----------------------------------------------------------------------------
\* Routes.

\* The role that is pointed somewhere resolves, and a role that shares its profile does
\* so again; the others keep what they have.  Only the operator's own api_key_secret, or
\* an account name that is not valid, is in the way of those on the profile.
LEMMA RoutedResolves ==
    ASSUME NEW s, NEW role, NEW provider \in DOMAIN KindOf, NEW model, NEW account, NEW other,
           settings' = Routed(s, role, provider, model, account),
           other \in DOMAIN settings'.routes,
           \/ Resolves(s, other)
           \/ other \notin DOMAIN s.routes
           \/ settings'.routes[other] # s.routes[other],
           RouteProfile(settings', other).secret = "none"
    PROVE  \/ Resolves(settings', other)
           \/ /\ account \notin ValidAccounts
              /\ settings'.routes[other].profile = <<provider, "cli_oauth">>
<1>. DEFINE name  == <<provider, KindOf[provider]>>
            route == [model |-> model, profile |-> name]
<1>1. KindOf[provider] \in {"api_key", "cli_oauth", "vertex"}
  BY KindAssumption
<1>2. /\ settings'.routes = Updated(s.routes, role, route)
      /\ \E kept : /\ settings'.profiles = Updated(s.profiles, name, kept)
                   /\ kept.type = KindOf[provider] /\ kept.enabled /\ kept.account = account
  BY DEF Routed, NewProfile
<1>3. PICK kept : /\ settings'.profiles = Updated(s.profiles, name, kept)
                  /\ kept.type = KindOf[provider] /\ kept.enabled /\ kept.account = account
  BY <1>2
<1>4. KindOf[provider] = "cli_oauth" => name = <<provider, "cli_oauth">>
  OBVIOUS
<1>. HIDE DEF name
<1>5. name \in DOMAIN settings'.profiles /\ settings'.profiles[name] = kept
  BY <1>3 DEF Updated
<1>6. CASE settings'.routes[other].profile = name
  <2>1. RouteProfile(settings', other) = kept
    BY <1>5, <1>6 DEF RouteProfile
  <2>2. ~Dangles(settings', other)
    BY <1>1, <1>3, <1>5, <1>6, <2>1 DEF Dangles
  <2>3. Raises(settings', other) => KindOf[provider] = "cli_oauth" /\ account \notin ValidAccounts
    BY <1>3, <2>1 DEF Raises
  <2>. QED
    BY <1>4, <1>6, <2>2, <2>3 DEF Resolves
<1>7. CASE settings'.routes[other].profile # name
  <2>1. other # role
    BY <1>2, <1>7 DEF Updated
  <2>2. other \in DOMAIN s.routes /\ settings'.routes[other] = s.routes[other]
    BY <1>2, <2>1 DEF Updated
  <2>3. ~Dangles(s, other) /\ ~Raises(s, other)
    BY <2>2 DEF Resolves
  <2>4. /\ s.routes[other].profile \in DOMAIN settings'.profiles
        /\ settings'.profiles[s.routes[other].profile] = s.profiles[s.routes[other].profile]
    BY <1>3, <1>7, <2>2, <2>3 DEF Updated, Dangles
  <2>5. RouteProfile(settings', other) = RouteProfile(s, other)
    BY <2>2, <2>4 DEF RouteProfile
  <2>6. ~Dangles(settings', other)
    BY <2>2, <2>3, <2>4, <2>5 DEF Dangles
  <2>7. ~Raises(settings', other)
    BY <2>2, <2>3, <2>5 DEF Raises
  <2>. QED
    BY <2>6, <2>7 DEF Resolves
<1>. QED
  BY <1>6, <1>7

\* What every step does to the route of a role.
RouteKept(role) ==
    /\ role \in DOMAIN settings'.routes
    /\ \/ Resolves(settings, role)
       \/ role \notin DOMAIN settings.routes
       \/ settings'.routes[role] # settings.routes[role]
    => \/ Resolves(settings', role)
       \/ RouteProfile(settings', role).secret # "none"
       \/ \E choice \in UseArgs :
            /\ Use(choice) /\ choice.account \notin ValidAccounts
            /\ settings'.routes[role].profile = <<choice.provider, "cli_oauth">>

LEMMA RouteKeptStep ==
    ASSUME [Next]_vars, NEW role
    PROVE  RouteKept(role)
<1>1. CASE settings' = settings
  BY <1>1 DEF RouteKept, Resolves, Dangles, Raises, RouteProfile
<1>2. ASSUME NEW choice \in UseArgs, Use(choice)
      PROVE  RouteKept(role)
  <2>. DEFINE pointed == choice.role
              provider == choice.provider
              model == choice.model
              account == choice.account
  <2>1. settings' = Routed(settings, pointed, provider, model, account)
        /\ provider \in DOMAIN KindOf
    BY <1>2, AccountAssumption DEF Use
  <2>. HIDE DEF pointed, provider, model, account
  <2>2. CASE RouteProfile(settings', role).secret # "none"
    BY <2>2 DEF RouteKept
  <2>3. ASSUME RouteProfile(settings', role).secret = "none",
               role \in DOMAIN settings'.routes,
               \/ Resolves(settings, role)
               \/ role \notin DOMAIN settings.routes
               \/ settings'.routes[role] # settings.routes[role]
        PROVE  \/ Resolves(settings', role)
               \/ /\ account \notin ValidAccounts
                  /\ settings'.routes[role].profile = <<provider, "cli_oauth">>
    BY <2>1, <2>3, RoutedResolves
  <2>. QED
    BY <1>2, <2>2, <2>3 DEF RouteKept, account, provider
<1>3. ASSUME NEW answer \in WizardArgs, Wizard(answer)
      PROVE  RouteKept(role)
  <2>1. CASE answer.role = "skip"
    BY <1>1, <1>3, <2>1 DEF Wizard
  <2>2. CASE answer.role # "skip"
    <3>1. settings' = Routed(settings, answer.role, answer.family, answer.model, "default")
          /\ answer.family \in DOMAIN KindOf /\ "default" \in ValidAccounts
      BY <1>3, <2>2, AccountAssumption DEF Wizard
    <3>. QED
      BY <3>1, RoutedResolves DEF RouteKept
  <2>. QED
    BY <2>1, <2>2
<1>4. \/ \E choice \in UseArgs : Use(choice)
      \/ \E answer \in WizardArgs : Wizard(answer)
      \/ settings' = settings
  BY DEF Next, Logins, Surroundings, Build, ResolvesMine, Refreshes, Restart, vars, accountvars
<1>. QED
  BY <1>1, <1>2, <1>3, <1>4

\* routing.py:54: the role that `use` or the wizard points somewhere resolves and those that
\* resolved before still do, whatever the settings were, but for the operator's own
\* api_key_secret and for a `use` with an account name that is not valid.
THEOREM RoutesDoNotDangle == Spec => RoutesResolve
<1>1. [Next]_vars => [\A n \in DOMAIN Roles : RouteKept(Roles[n])]_vars
  BY RouteKeptStep
<1>. QED
  BY <1>1, PTL DEF Spec, RoutesResolve, RouteKept

-----------------------------------------------------------------------------
\* Walking round a ring.

LEMMA ModUnique ==
    ASSUME NEW n \in Nat \ {0}, NEW x \in Int, NEW q \in Int, NEW r \in 0..(n - 1),
           x = (n * q) + r
    PROVE  x % n = r
<1>. DEFINE d == x \div n
<1>1. d \in Int /\ x = (n * d) + (x % n) /\ x % n \in 0..(n - 1)
  OBVIOUS
<1>. HIDE DEF d
<1>2. n * q \in Int /\ n * d \in Int
  BY <1>1
<1>3. ~ (d >= q + 1)
  <2>. SUFFICES ASSUME d >= q + 1 PROVE FALSE
    OBVIOUS
  <2>1. n * d >= n * (q + 1)
    BY <1>1
  <2>2. n * (q + 1) = (n * q) + n
    OBVIOUS
  <2>. QED
    BY <1>1, <1>2, <2>1, <2>2
<1>4. ~ (q >= d + 1)
  <2>. SUFFICES ASSUME q >= d + 1 PROVE FALSE
    OBVIOUS
  <2>1. n * q >= n * (d + 1)
    BY <1>1
  <2>2. n * (d + 1) = (n * d) + n
    BY <1>1
  <2>. QED
    BY <1>1, <1>2, <2>1, <2>2
<1>5. d = q
  BY <1>1, <1>3, <1>4
<1>. QED
  BY <1>1, <1>2, <1>5

LEMMA ModSmall ==
    ASSUME NEW n \in Nat \ {0}, NEW r \in 0..(n - 1)
    PROVE  r % n = r /\ (r + n) % n = r
<1>1. r = (n * 0) + r /\ r + n = (n * 1) + r
  OBVIOUS
<1>. QED
  BY <1>1, ModUnique

LEMMA ModNext ==
    ASSUME NEW n \in Nat \ {0}, NEW x \in Nat
    PROVE  (x + 1) % n = ((x % n) + 1) % n
<1>. DEFINE q == x \div n
            r == x % n
<1>1. q \in Int /\ x = (n * q) + r /\ r \in 0..(n - 1)
  OBVIOUS
<1>. HIDE DEF q, r
<1>2. n * q \in Int
  BY <1>1
<1>3. CASE r + 1 < n
  <2>1. x + 1 = (n * q) + (r + 1) /\ r + 1 \in 0..(n - 1)
    BY <1>1, <1>2, <1>3
  <2>2. (x + 1) % n = r + 1
    BY <1>1, <2>1, ModUnique
  <2>3. (r + 1) % n = r + 1
    BY <2>1, ModSmall
  <2>. QED
    BY <2>2, <2>3 DEF r
<1>4. CASE r + 1 = n
  <2>1. x + 1 = (n * (q + 1)) + 0
    BY <1>1, <1>2, <1>4
  <2>2. (x + 1) % n = 0
    BY <1>1, <2>1, ModUnique
  <2>3. (r + 1) % n = 0
    <3>1. n = (n * 1) + 0
      OBVIOUS
    <3>. QED
      BY <1>4, <3>1, ModUnique
  <2>. QED
    BY <2>2, <2>3 DEF r
<1>. QED
  BY <1>1, <1>3, <1>4

-----------------------------------------------------------------------------
LEMMA SizeFact == Size \in Nat \ {0} /\ Creds = 1..Size
<1>1. Creds = 1..Len(Flavors) /\ Len(Flavors) \in Nat \ {0}
  BY PoolAssumption DEF Creds
<1>2. Cardinality(1..Len(Flavors)) = Len(Flavors)
  BY <1>1, FS_Interval
<1>. QED
  BY <1>1, <1>2 DEF Size

\* The credential at a place of the ring.
At(place) == (place % Size) + 1

\* A look at n places in a row, from o on, is a look at every credential if n is Size or more.
LEMMA FullRound ==
    ASSUME Size \in Nat \ {0}, NEW o \in 0..(Size - 1), NEW n \in Nat, n >= Size, NEW S,
           \A j \in 0..(n - 1) : At(o + j) \in S
    PROVE  1..Size \subseteq S
<1>. SUFFICES ASSUME NEW k \in 1..Size PROVE k \in S
  OBVIOUS
<1>1. CASE k - 1 >= o
  <2>1. k - 1 - o \in 0..(n - 1) /\ o + (k - 1 - o) = k - 1 /\ k - 1 \in 0..(Size - 1)
    BY <1>1
  <2>2. (k - 1) % Size = k - 1
    BY <2>1, ModSmall
  <2>. QED
    BY <2>1, <2>2 DEF At
<1>2. CASE k - 1 < o
  <2>1. /\ (k - 1 - o) + Size \in 0..(n - 1) /\ o + ((k - 1 - o) + Size) = (k - 1) + Size
        /\ k - 1 \in 0..(Size - 1)
    BY <1>2
  <2>2. ((k - 1) + Size) % Size = k - 1
    BY <2>1, ModSmall
  <2>. QED
    BY <2>1, <2>2 DEF At
<1>. QED
  BY <1>1, <1>2

\* The last n looks were at a row of places that ends before the next one.
Row(s, o, n) ==
    /\ n >= s.round + s.i
    /\ (o + n) % Size = (s.start + s.i) % Size
    /\ \A j \in 0..(n - 1) : At(o + j) \in s.tried \cup s.seen

Stages == {"idle", "enter", "walk", "given", "exhausted"}

\* A call whose acquire walks has come round as far as its counters say.
Walks(s) ==
    /\ s.start \in 0..(Size - 1) /\ s.i \in 0..(Size - 1) /\ s.round \in 0..(Size - 1)
    /\ \E o \in 0..(Size - 1), n \in Nat : Row(s, o, n)

All == 1..Size

CallShape ==
    [at : Stages, tried : SUBSET All, start : Int, i : Int, round : Int, cred : Int,
     asked : SUBSET All, seen : SUBSET All]

CallInv(s) ==
    /\ s \in CallShape
    /\ s.asked \subseteq s.tried
    /\ s.at = "walk" => Walks(s)
    /\ s.at = "exhausted" => s.tried \cup s.seen = All

PoolInv ==
    /\ index \in 0..(Size - 1)
    /\ call \in [Callers -> CallShape]
    /\ \A c \in Callers : CallInv(call[c])

LEMMA PoolInitially ==
    ASSUME PoolInit
    PROVE  PoolInv
<1>1. Size \in Nat \ {0}
  BY SizeFact
<1>2. /\ IdleCall \in CallShape
      /\ IdleCall.at = "idle" /\ IdleCall.asked = {}
  BY <1>1 DEF IdleCall, CallShape, Stages
<1>3. CallInv(IdleCall)
  BY <1>2 DEF CallInv
<1>. QED
  BY <1>1, <1>2, <1>3 DEF PoolInit, PoolInv

\* One call changes; the index stays in the ring.
LEMMA OneCall ==
    ASSUME PoolInv, NEW c \in Callers, NEW s, call' = [call EXCEPT ![c] = s], CallInv(s),
           index' \in 0..(Size - 1)
    PROVE  PoolInv'
<1>1. s \in CallShape
  BY DEF CallInv
<1>2. /\ call' \in [Callers -> CallShape] /\ call'[c] = s
      /\ \A d \in Callers : d # c => call'[d] = call[d]
  BY <1>1 DEF PoolInv
<1>3. \A d \in Callers : CallInv(call[d])
  BY DEF PoolInv
<1>4. \A d \in Callers : CallInv(call'[d])
  BY <1>2, <1>3
<1>. QED
  BY <1>2, <1>4 DEF PoolInv, CallInv, Walks, Row, CallShape, At

\* An acquire that begins at a place has looked at none yet.
LEMMA WalkingInv ==
    ASSUME Size \in Nat \ {0}, NEW s \in CallShape, NEW tried \in SUBSET All,
           NEW from \in 0..(Size - 1), s.asked \subseteq tried
    PROVE  CallInv(Walking(s, tried, from))
<1>. DEFINE w == Walking(s, tried, from)
<1>0. w = [s EXCEPT !.at = "walk", !.tried = tried, !.seen = {}, !.start = from, !.i = 0,
                    !.round = 0]
  BY DEF Walking
<1>. HIDE DEF w
<1>2. from \in Int /\ 0 \in Int /\ {} \in SUBSET All
  OBVIOUS
<1>1. /\ w \in CallShape /\ w.at = "walk" /\ w.asked = s.asked /\ w.tried = tried
      /\ w.start = from /\ w.i = 0 /\ w.round = 0 /\ w.seen = {}
  BY <1>0, <1>2 DEF CallShape, Stages
<1>4. Row(w, from, 0)
  BY <1>1 DEF Row
<1>3. Walks(w)
  BY <1>1, <1>4 DEF Walks
<1>. QED
  BY <1>1, <1>3 DEF CallInv, w

\* The next look.
LEMMA NextPlace ==
    ASSUME Size \in Nat \ {0}, NEW s \in CallShape, Walks(s), NEW t, NEW S,
           S = t.tried \cup t.seen, s.tried \cup s.seen \subseteq S,
           At(s.start + s.i) \in S
    PROVE  \E o \in 0..(Size - 1), n \in Nat :
              /\ n >= s.round + s.i + 1
              /\ (o + n) % Size = (s.start + s.i + 1) % Size
              /\ \A j \in 0..(n - 1) : At(o + j) \in S
<1>1. PICK o \in 0..(Size - 1), n \in Nat : Row(s, o, n)
  BY DEF Walks
<1>0. s.round \in Nat /\ s.i \in Nat /\ s.start \in Nat /\ s.start + s.i \in Nat /\ o + n \in Nat
  BY DEF Walks
<1>2. /\ n >= s.round + s.i /\ (o + n) % Size = (s.start + s.i) % Size
      /\ \A j \in 0..(n - 1) : At(o + j) \in S
  <2>1. \A j \in 0..(n - 1) : At(o + j) \in s.tried \cup s.seen
    BY <1>1 DEF Row
  <2>2. n >= s.round + s.i /\ (o + n) % Size = (s.start + s.i) % Size
    BY <1>1 DEF Row
  <2>. QED
    BY <2>1, <2>2
<1>3. (o + n + 1) % Size = (s.start + s.i + 1) % Size
  BY <1>0, <1>2, ModNext
<1>4. At(o + n) = At(s.start + s.i)
  BY <1>2 DEF At
<1>5. \A j \in 0..n : At(o + j) \in S
  <2>. SUFFICES ASSUME NEW j \in 0..n PROVE At(o + j) \in S
    OBVIOUS
  <2>1. j \in 0..(n - 1) \/ j = n
    OBVIOUS
  <2>2. At(o + n) \in S
    BY <1>4
  <2>. QED
    BY <1>2, <2>1, <2>2
<1>. DEFINE m == n + 1
<1>6. m \in Nat /\ m >= s.round + s.i + 1 /\ (o + m) % Size = (s.start + s.i + 1) % Size
  BY <1>0, <1>2, <1>3
<1>7. \A j \in 0..(m - 1) : At(o + j) \in S
  BY <1>5
<1>. HIDE DEF m
<1>. QED
  BY <1>6, <1>7

\* What is common to the steps of an acquire.
LEMMA Looks ==
    ASSUME Size \in Nat \ {0}, PoolInv, NEW c \in Callers, call[c].at = "walk"
    PROVE  /\ call[c] \in CallShape /\ Walks(call[c]) /\ call[c].asked \subseteq call[c].tried
           /\ Looked(c) = At(call[c].start + call[c].i)
           /\ Looked(c) \in All
           /\ Looked(c) % Size = (call[c].start + call[c].i + 1) % Size
           /\ Looked(c) % Size \in 0..(Size - 1)
<1>1. /\ call[c] \in CallShape /\ Walks(call[c]) /\ call[c].asked \subseteq call[c].tried
  BY DEF PoolInv, CallInv
<1>2. Looked(c) = At(call[c].start + call[c].i)
  BY DEF Looked, At
<1>. DEFINE place == call[c].start + call[c].i
<1>3. place \in Nat
  BY <1>1 DEF Walks
<1>. HIDE DEF place
<1>4. place % Size \in 0..(Size - 1)
  BY <1>3
<1>5. (place + 1) % Size = At(place) % Size
  BY <1>3, ModNext DEF At
<1>6. At(place) \in All /\ At(place) % Size \in 0..(Size - 1)
  BY <1>4 DEF At, All
<1>. QED
  BY <1>1, <1>2, <1>5, <1>6 DEF place

LEMMA SkipCoolingInv ==
    ASSUME Size \in Nat \ {0}, PoolInv, NEW c \in Callers, SkipCooling(c)
    PROVE  PoolInv'
<1>. DEFINE s == call[c]
            k == Looked(c)
            t == [s EXCEPT !.i = @ + 1, !.seen = @ \cup {k},
                           !.at = IF s.i + 1 = Size THEN "exhausted" ELSE "walk"]
<1>1. s \in CallShape /\ Walks(s) /\ s.asked \subseteq s.tried /\ k = At(s.start + s.i) /\ k \in All
  BY Looks DEF SkipCooling
<1>2. call' = [call EXCEPT ![c] = t] /\ index' = index
  BY DEF SkipCooling
<1>. HIDE DEF s, k
<1>10. /\ s.i + 1 \in Int /\ s.seen \cup {k} \in SUBSET All
       /\ (IF s.i + 1 = Size THEN "exhausted" ELSE "walk") \in Stages
  BY <1>1 DEF CallShape, Stages
<1>3. /\ t \in CallShape /\ t.asked = s.asked /\ t.tried = s.tried
      /\ t.seen = s.seen \cup {k} /\ t.i = s.i + 1 /\ t.start = s.start /\ t.round = s.round
      /\ t.at = IF s.i + 1 = Size THEN "exhausted" ELSE "walk"
  BY <1>1, <1>10 DEF CallShape
<1>. HIDE DEF t
<1>. DEFINE S == t.tried \cup t.seen
<1>4. s.tried \cup s.seen \subseteq S /\ At(s.start + s.i) \in S
  BY <1>1, <1>3
<1>5. PICK o \in 0..(Size - 1), n \in Nat :
        /\ n >= s.round + s.i + 1
        /\ (o + n) % Size = (s.start + s.i + 1) % Size
        /\ \A j \in 0..(n - 1) : At(o + j) \in S
  BY <1>1, <1>4, NextPlace
<1>6. s.i \in 0..(Size - 1) /\ s.round \in 0..(Size - 1) /\ s.start \in 0..(Size - 1)
  BY <1>1 DEF Walks
<1>7. ASSUME s.i + 1 = Size PROVE S = All
  <2>1. n >= Size
    BY <1>5, <1>6, <1>7
  <2>2. All \subseteq S
    <3>. HIDE DEF S
    <3>. QED
      BY <1>5, <2>1, FullRound DEF All
  <2>. QED
    BY <1>3, <2>2 DEF CallShape
<1>8. ASSUME s.i + 1 # Size PROVE Walks(t)
  <2>1. Row(t, o, n)
    BY <1>3, <1>5, <1>6 DEF Row
  <2>2. t.i \in 0..(Size - 1)
    BY <1>3, <1>6, <1>8
  <2>. QED
    BY <1>3, <1>6, <2>1, <2>2 DEF Walks
<1>9. CallInv(t)
  BY <1>1, <1>3, <1>7, <1>8 DEF CallInv
<1>. QED
  BY <1>2, <1>9, OneCall DEF PoolInv

LEMMA SkipTriedInv ==
    ASSUME Size \in Nat \ {0}, PoolInv, NEW c \in Callers, SkipTried(c)
    PROVE  PoolInv'
<1>. DEFINE s == call[c]
            k == Looked(c)
            t == [s EXCEPT !.round = @ + 1, !.i = 0, !.start = k % Size,
                           !.at = IF s.round + 1 = Size THEN "exhausted" ELSE "walk"]
<1>1. /\ s \in CallShape /\ Walks(s) /\ s.asked \subseteq s.tried
      /\ k = At(s.start + s.i) /\ k \in All
      /\ k % Size = (s.start + s.i + 1) % Size /\ k % Size \in 0..(Size - 1)
  BY Looks DEF SkipTried
<1>2. call' = [call EXCEPT ![c] = t] /\ index' = k % Size /\ k \in s.tried
  BY DEF SkipTried
<1>. HIDE DEF s, k
<1>10. /\ s.round + 1 \in Int /\ k % Size \in Int /\ 0 \in Int
       /\ (IF s.round + 1 = Size THEN "exhausted" ELSE "walk") \in Stages
  BY <1>1 DEF CallShape, Stages
<1>3. /\ t \in CallShape /\ t.asked = s.asked /\ t.tried = s.tried
      /\ t.seen = s.seen /\ t.i = 0 /\ t.start = k % Size /\ t.round = s.round + 1
      /\ t.at = IF s.round + 1 = Size THEN "exhausted" ELSE "walk"
  BY <1>1, <1>10 DEF CallShape
<1>. HIDE DEF t
<1>. DEFINE S == t.tried \cup t.seen
<1>4. s.tried \cup s.seen \subseteq S /\ At(s.start + s.i) \in S
  BY <1>1, <1>2, <1>3
<1>5. PICK o \in 0..(Size - 1), n \in Nat :
        /\ n >= s.round + s.i + 1
        /\ (o + n) % Size = (s.start + s.i + 1) % Size
        /\ \A j \in 0..(n - 1) : At(o + j) \in S
  BY <1>1, <1>4, NextPlace
<1>6. s.i \in 0..(Size - 1) /\ s.round \in 0..(Size - 1) /\ s.start \in 0..(Size - 1)
  BY <1>1 DEF Walks
<1>7. ASSUME s.round + 1 = Size PROVE S = All
  <2>1. n >= Size
    BY <1>5, <1>6, <1>7
  <2>2. All \subseteq S
    <3>. HIDE DEF S
    <3>. QED
      BY <1>5, <2>1, FullRound DEF All
  <2>. QED
    BY <1>3, <2>2 DEF CallShape
<1>8. ASSUME s.round + 1 # Size PROVE Walks(t)
  <2>1. (t.start + t.i) % Size = (s.start + s.i + 1) % Size
    <3>1. t.start + t.i = k % Size
      BY <1>1, <1>3
    <3>. QED
      BY <1>1, <3>1, ModSmall
  <2>2. n >= t.round + t.i
    BY <1>3, <1>5, <1>6
  <2>3. Row(t, o, n)
    BY <1>5, <2>1, <2>2 DEF Row
  <2>4. t.round \in 0..(Size - 1)
    BY <1>3, <1>6, <1>8
  <2>5. t.i \in 0..(Size - 1)
    BY <1>3
  <2>. QED
    BY <1>1, <1>3, <2>3, <2>4, <2>5 DEF Walks
<1>9. CallInv(t)
  BY <1>1, <1>3, <1>7, <1>8 DEF CallInv
<1>. QED
  BY <1>1, <1>2, <1>9, OneCall

LEMMA AcquireInv ==
    ASSUME Size \in Nat \ {0}, PoolInv, NEW c \in Callers, Acquire(c)
    PROVE  PoolInv'
<1>. DEFINE s == call[c]
            k == Looked(c)
            t == [s EXCEPT !.cred = k, !.tried = @ \cup {k}, !.asked = @ \cup {k},
                           !.at = "given"]
<1>1. /\ s \in CallShape /\ s.asked \subseteq s.tried
      /\ k \in All /\ k % Size \in 0..(Size - 1)
  BY Looks DEF Acquire
<1>2. /\ index' = k % Size
      /\ \/ call' = [call EXCEPT ![c] = t]
         \/ call' = [call EXCEPT ![c] = Walking(s, s.tried \cup {k}, k % Size)]
  BY DEF Acquire
<1>. HIDE DEF s, k
<1>3. CallInv(t)
  <2>0. /\ k \in Int /\ "given" \in Stages
        /\ s.tried \cup {k} \in SUBSET All /\ s.asked \cup {k} \in SUBSET All
    BY <1>1 DEF CallShape, Stages, All
  <2>1. /\ t \in CallShape /\ t.asked = s.asked \cup {k} /\ t.tried = s.tried \cup {k}
        /\ t.at = "given"
    BY <1>1, <2>0 DEF CallShape
  <2>. QED
    BY <1>1, <2>1 DEF CallInv
<1>4. CallInv(Walking(s, s.tried \cup {k}, k % Size))
  <2>1. s.tried \cup {k} \in SUBSET All /\ s.asked \subseteq s.tried \cup {k}
    BY <1>1 DEF CallShape
  <2>. QED
    BY <1>1, <2>1, WalkingInv
<1>. HIDE DEF t
<1>. QED
  BY <1>1, <1>2, <1>3, <1>4, OneCall

\* The steps of a call outside its acquires.
LEMMA EnterInv ==
    ASSUME Size \in Nat \ {0}, PoolInv, NEW c \in Callers, Enter(c)
    PROVE  PoolInv'
<1>1. /\ call[c] \in CallShape /\ call[c].asked \subseteq call[c].tried
      /\ call[c].tried \in SUBSET All /\ index \in 0..(Size - 1)
  BY DEF PoolInv, CallInv, CallShape
<1>2. CallInv(Walking(call[c], call[c].tried, index))
  BY <1>1, WalkingInv
<1>. QED
  BY <1>1, <1>2, OneCall DEF Enter

LEMMA StageInv ==
    ASSUME PoolInv, NEW c \in Callers, index' = index,
           call' = [call EXCEPT ![c].at = "enter"] \/ call' = [call EXCEPT ![c] = IdleCall]
    PROVE  PoolInv'
<1>1. call[c] \in CallShape /\ call[c].asked \subseteq call[c].tried
      /\ call \in [Callers -> CallShape] /\ index \in 0..(Size - 1)
  BY DEF PoolInv, CallInv
<1>2. CASE call' = [call EXCEPT ![c].at = "enter"]
  <2>. DEFINE t == [call[c] EXCEPT !.at = "enter"]
  <2>1. t \in CallShape /\ t.at = "enter" /\ t.asked = call[c].asked /\ t.tried = call[c].tried
    BY <1>1 DEF CallShape, Stages
  <2>2. call' = [call EXCEPT ![c] = t]
    BY <1>2
  <2>. HIDE DEF t
  <2>3. CallInv(t)
    BY <1>1, <2>1 DEF CallInv
  <2>. QED
    BY <1>1, <2>2, <2>3, OneCall
<1>3. CASE call' = [call EXCEPT ![c] = IdleCall]
  <2>1. /\ IdleCall \in CallShape /\ IdleCall.at = "idle" /\ IdleCall.asked = {}
    BY DEF IdleCall, CallShape, Stages
  <2>2. CallInv(IdleCall)
    BY <2>1 DEF CallInv
  <2>. QED
    BY <1>1, <1>3, <2>2, OneCall
<1>. QED
  BY <1>2, <1>3

\* What each move of a call is, for the two arguments below.
LEMMA Moves ==
    ASSUME NEW c \in Callers, Begin(c) \/ Move(c)
    PROVE  \/ Enter(c) \/ SkipCooling(c) \/ SkipTried(c) \/ Acquire(c)
           \/ /\ index' = index
              /\ \/ call' = [call EXCEPT ![c].at = "enter"]
                 \/ call' = [call EXCEPT ![c] = IdleCall]
<1>1. CASE Begin(c)
  BY <1>1 DEF Begin
<1>2. CASE Move(c)
  BY <1>2 DEF Move, ResolveFails, Succeed, Exhausted, AttemptFails,
              AttemptRaises, GiveUp
<1>. QED
  BY <1>1, <1>2

LEMMA PoolStep ==
    ASSUME PoolInv, [PoolNext]_poolVars
    PROVE  PoolInv'
<1>1. Size \in Nat \ {0}
  BY SizeFact
<1>2. ASSUME NEW c \in Callers, Begin(c) \/ Move(c)
      PROVE  PoolInv'
  BY <1>1, <1>2, Moves, EnterInv, SkipCoolingInv, SkipTriedInv, AcquireInv, StageInv
<1>3. ASSUME call' = call, index' = index
      PROVE  PoolInv'
  BY <1>3 DEF PoolInv, CallInv, Walks, Row, CallShape, All, At
<1>4. CASE Tick
  BY <1>3, <1>4 DEF Tick
<1>5. CASE UNCHANGED poolVars
  BY <1>3, <1>5 DEF poolVars
<1>. QED
  BY <1>2, <1>4, <1>5 DEF PoolNext

LEMMA AskedStep ==
    ASSUME PoolInv, PoolNext, NEW c \in Callers,
           call[c].at = "walk", call'[c].at = "given"
    PROVE  call'[c].cred \notin call[c].asked
<1>1. Size \in Nat \ {0}
  BY SizeFact
<1>2. PICK d \in Callers : Begin(d) \/ Move(d)
  BY DEF PoolNext, Tick
<1>3. /\ call[c] \in CallShape /\ call[c].asked \subseteq call[c].tried
      /\ call[d] \in CallShape /\ call \in [Callers -> CallShape]
  BY DEF PoolInv, CallInv
<1>4. /\ \/ Enter(d) \/ SkipCooling(d) \/ SkipTried(d) \/ Acquire(d)
         \/ call' = [call EXCEPT ![d].at = "enter"]
         \/ call' = [call EXCEPT ![d] = IdleCall]
  BY <1>2, Moves
<1>5. \E s : call' = [call EXCEPT ![d] = s]
  BY <1>4 DEF Enter, SkipCooling, SkipTried, Acquire
<1>6. c = d
  BY <1>3, <1>5
<1>7. CASE Acquire(d)
  <2>1. Looked(c) \notin call[c].tried
    BY <1>6, <1>7 DEF Acquire
  <2>2. CASE Compatible(Looked(c))
    <3>1. call'[c].cred = Looked(c)
      BY <1>3, <1>6, <1>7, <2>2 DEF Acquire, CallShape
    <3>. QED
      BY <1>3, <2>1, <3>1
  <2>3. CASE ~Compatible(Looked(c))
    <3>1. \E tried, from : call'[c] = Walking(call[c], tried, from)
      BY <1>3, <1>6, <1>7, <2>3 DEF Acquire
    <3>2. \A tried, from : Walking(call[c], tried, from).at = "walk"
      BY <1>3 DEF Walking, CallShape
    <3>. QED
      BY <3>1, <3>2
  <2>. QED
    BY <2>2, <2>3
<1>8. CASE ~Acquire(d)
  <2>1. call'[c].at \in {"idle", "enter", "walk", "exhausted"}
    <3>1. CASE Enter(d)
      BY <1>3, <1>6, <3>1 DEF Enter, Walking, CallShape
    <3>2. CASE SkipCooling(d)
      BY <1>3, <1>6, <3>2 DEF SkipCooling, CallShape
    <3>3. CASE SkipTried(d)
      BY <1>3, <1>6, <3>3 DEF SkipTried, CallShape
    <3>4. CASE call' = [call EXCEPT ![d].at = "enter"]
      BY <1>3, <1>6, <3>4 DEF CallShape
    <3>5. CASE call' = [call EXCEPT ![d] = IdleCall]
      BY <1>3, <1>6, <3>5 DEF IdleCall
    <3>. QED
      BY <1>4, <1>8, <3>1, <3>2, <3>3, <3>4, <3>5
  <2>. QED
    BY <2>1
<1>. QED
  BY <1>7, <1>8

\* However the calls take turns at the shared index and whatever cools down or recovers
\* meanwhile, an acquire goes round the ring without a gap (KeyManager.get_next_key,
\* CredentialPool.acquire).
THEOREM PoolInvariance == PoolSpec => []PoolInv
<1>1. PoolInit => PoolInv
  BY PoolInitially
<1>2. PoolInv /\ [PoolNext]_poolVars => PoolInv'
  BY PoolStep
<1>. QED
  BY <1>1, <1>2, PTL DEF PoolSpec

\* pool.py:205 may say that all credentials were tried, for any number of credentials
\* and of concurrent calls.
THEOREM ExhaustionIsTrue == PoolSpec => []ExhaustedIsTrue
<1>1. PoolInv => ExhaustedIsTrue
  BY SizeFact DEF PoolInv, CallInv, ExhaustedIsTrue, All
<1>2. PoolSpec => []PoolInv
  BY PoolInvariance
<1>. QED
  BY <1>1, <1>2, PTL

\* client.py:122: no call sends the same credential to a provider twice.
THEOREM CredentialsAskedOnce == PoolSpec => NeverAskedTwice
<1>. DEFINE Once == \A c \in Callers :
        (call[c].at = "walk" /\ call'[c].at = "given") => call'[c].cred \notin call[c].asked
<1>1. PoolInv /\ [PoolNext]_poolVars => [Once]_poolVars
  BY AskedStep
<1>2. PoolSpec => []PoolInv
  BY PoolInvariance
<1>. QED
  BY <1>1, <1>2, PTL DEF PoolSpec, NeverAskedTwice
=============================================================================
