------------------------------ MODULE AuthSessions ------------------------------
(***************************************************************************)
(* One user account and its refresh sessions: auth.service.js,             *)
(* user.service.js and the session repository.  A request reads a          *)
(* document, waits (for bcrypt, for the staff lookup, for the database),   *)
(* and saves its copy; the save is refused when the version has moved, and *)
(* writes only the fields that the request changed.  Sessions are closed   *)
(* by updateMany and updateOne, which look at no version.                  *)
(***************************************************************************)
EXTENDS Integers

CONSTANTS
  Calls,           \* requests that may run at the same time
  Sessions,        \* session documents that may be created
  MaxWrong,        \* wrong passwords, and wrong codes, allowed: 5 in the code
  MaxCodes, MaxTokens, MaxAccountVersion   \* bounds on what is ever issued

ASSUME AuthAssumption ==
  /\ MaxWrong \in Nat \ {0}
  /\ MaxCodes \in Nat /\ MaxTokens \in Nat /\ MaxAccountVersion \in Nat

VARIABLES
  account,     \* the user document
  session,     \* the session documents; token 0: not created
  call,        \* what each request has read and has still to do
  granted,     \* scopes of the short-lived tokens issued: activation, password-change
  issued,      \* codes and refresh tokens issued so far
  spent        \* how often each code was accepted, and each token exchanged in a session

authVars == <<account, session, call, granted, issued, spent>>

NoCode == [n |-> 0, kind |-> "none"]
NoCall == [do |-> "idle"]
Closed == {"inactive", "suspended"}

\* Before its activation, an account may have had wrong answers to earlier codes.
AuthInit ==
  /\ account \in [status : {"active"}, wrong : {0}, lockedNow : {FALSE}, code : {NoCode},
                  tries : {0, MaxWrong}, first : BOOLEAN, reset : {FALSE}, v : {0}]
  /\ account.tries # 0 => account.first
  /\ session = [s \in Sessions |-> [token |-> 0, valid |-> FALSE, v |-> 0]]
  /\ call = [c \in Calls |-> NoCall]
  /\ granted = {}
  /\ issued = [codes |-> 0, tokens |-> 0]
  /\ spent = [codes |-> [n \in 1..MaxCodes |-> 0],
              tokens |-> [s \in Sessions |-> [n \in 1..MaxTokens |-> 0]]]

-----------------------------------------------------------------------------
(* Reading and saving the account *)

\* Refused to a suspended account, and to a locked one until the lock runs out.
Barred(x) == x.status = "suspended" \/ (x.status = "locked" /\ x.lockedNow)

MayStart(do) ==
  CASE do = "login" -> ~Barred(account)
    [] do \in {"sendActivation", "verifyActivation"} ->
         "activation" \in granted /\ ~Barred(account)
    [] do = "activate" -> "password-change" \in granted /\ ~Barred(account)
    [] do = "verify" -> account.code.kind = "login"
    [] do = "reset" -> account.reset
    [] do \in {"send", "forgot"} \cup {"active"} \cup Closed -> TRUE

Requests == {"login", "sendActivation", "verifyActivation", "activate", "verify", "reset",
             "send", "forgot", "active"} \cup Closed

Start(c, do) ==
  /\ call[c] = NoCall /\ MayStart(do)
  /\ call' = [call EXCEPT ![c] = [do |-> do, seen |-> account]]
  /\ UNCHANGED <<account, session, granted, issued, spent>>

\* Mutant of FreshAccount: the save does not compare the version.
AccountAny(c) == TRUE

FreshAccount(c) == call[c].seen.v = account.v

\* user.save(): the fields the request changed are written into the document as
\* it is now, or the request ends in an error.
SaveAccount(c, changed, then) ==
  /\ account.v < MaxAccountVersion
  /\ IF FreshAccount(c)
       THEN /\ account' = [changed EXCEPT !.v = @ + 1]
            /\ call' = [call EXCEPT ![c] = then]
       ELSE account' = account /\ call' = [call EXCEPT ![c] = NoCall]

NewCode(kind) == [n |-> issued.codes + 1, kind |-> kind]

-----------------------------------------------------------------------------
(* login *)

\* The lock has run out: the account is active again before the password is compared.
Unlock(c) ==
  /\ call[c].do = "login" /\ call[c].seen.status = "locked"
  /\ LET free == [account EXCEPT !.status = "active", !.wrong = 0, !.lockedNow = FALSE]
     IN  SaveAccount(c, free, [do |-> "login", seen |-> [free EXCEPT !.v = @ + 1]])
  /\ UNCHANGED <<session, granted, issued, spent>>

\* Mutant of TooMany: the account is locked one wrong password early.
TooManyEarly(x) == x.wrong + 2 >= MaxWrong

TooMany(x) == x.wrong + 1 >= MaxWrong

AllClosed == [s \in Sessions |-> [session[s] EXCEPT !.valid = FALSE]]

\* A wrong password is counted; the last one closes the sessions, then locks.
WrongPassword(c) ==
  /\ call[c].do = "login" /\ call[c].seen.status # "locked"
  /\ call[c].seen.wrong <= MaxWrong   \* bound: an account reactivated while it still counts
  /\ IF TooMany(call[c].seen)
       THEN /\ session' = AllClosed
            /\ call' = [call EXCEPT ![c].do = "lock"]
            /\ account' = account
       ELSE /\ SaveAccount(c, [account EXCEPT !.wrong = call[c].seen.wrong + 1], NoCall)
            /\ session' = session
  /\ UNCHANGED <<granted, issued, spent>>

Lock(c) ==
  /\ call[c].do = "lock"
  /\ SaveAccount(c, [account EXCEPT !.status = "locked", !.lockedNow = TRUE,
                                    !.wrong = call[c].seen.wrong + 1], NoCall)
  /\ UNCHANGED <<session, granted, issued, spent>>

\* The counters are reset in the copy only, which is not saved.
RightPassword(c) ==
  /\ call[c].do = "login" /\ call[c].seen.status # "locked"
  /\ IF call[c].seen.first
       THEN granted' = granted \cup {"activation"} /\ call' = [call EXCEPT ![c] = NoCall]
       ELSE granted' = granted /\ call' = [call EXCEPT ![c] = [do |-> "open"]]
  /\ UNCHANGED <<account, session, issued, spent>>

\* generateRefreshToken: a token says whose it is and in which second it was
\* issued; two tokens of one second are the same.
NewToken == {n \in {issued.tokens, issued.tokens + 1} : n \in 1..MaxTokens}

\* The last step of login, verifyOTP and activateChangePassword.
OpenSession(c, s, token) ==
  /\ call[c].do = "open" /\ session[s].token = 0
  /\ issued' = [issued EXCEPT !.tokens = token]
  /\ session' = [session EXCEPT ![s] = [token |-> token, valid |-> TRUE, v |-> 0]]
  /\ call' = [call EXCEPT ![c] = NoCall]
  /\ UNCHANGED <<account, granted, spent>>

-----------------------------------------------------------------------------
(* One-time codes and activation *)

\* sendOTP leaves the count of wrong answers as it is.
SendCode(c) ==
  /\ call[c].do \in {"send", "sendActivation"} /\ issued.codes < MaxCodes
  /\ SaveAccount(c, IF call[c].do = "send" THEN [account EXCEPT !.code = NewCode("login")]
                    ELSE [account EXCEPT !.code = NewCode("activation"), !.tries = 0], NoCall)
  /\ issued' = [issued EXCEPT !.codes = @ + 1]
  /\ UNCHANGED <<session, granted, spent>>

Accept(c) ==
  spent' = [spent EXCEPT !.codes[call[c].seen.code.n] = IF FreshAccount(c) THEN @ + 1 ELSE @]

VerifyOTP(c) ==
  /\ call[c].do = "verify"
  /\ SaveAccount(c, [account EXCEPT !.code = NoCode], [do |-> "open"])
  /\ Accept(c)
  /\ UNCHANGED <<session, granted, issued>>

\* Mutant of WrongCode: the code stays after the last wrong answer.
WrongCodeKept(x) == [account EXCEPT !.tries = x.tries + 1]

\* What a wrong answer makes of the account.
WrongCode(x) ==
  [account EXCEPT !.tries = x.tries + 1, !.code = IF x.tries + 1 >= MaxWrong THEN NoCode ELSE @]

VerifyActivationOTP(c) ==
  LET x == call[c].seen
  IN  /\ call[c].do = "verifyActivation" /\ x.code # NoCode
      /\ \/ /\ x.tries >= MaxWrong
            /\ SaveAccount(c, [account EXCEPT !.code = NoCode], NoCall)
            /\ UNCHANGED <<granted, spent>>
         \/ /\ x.tries < MaxWrong
            /\ SaveAccount(c, WrongCode(x), NoCall)
            /\ UNCHANGED <<granted, spent>>
         \/ /\ x.tries < MaxWrong /\ x.code.kind = "activation"
            /\ SaveAccount(c, [account EXCEPT !.code = NoCode, !.tries = 0], NoCall)
            /\ Accept(c)
            /\ granted' = IF FreshAccount(c) THEN granted \cup {"password-change"} ELSE granted
      /\ UNCHANGED <<session, issued>>

ActivateChangePassword(c) ==
  /\ call[c].do = "activate"
  /\ SaveAccount(c, [account EXCEPT !.first = FALSE, !.wrong = 0, !.lockedNow = FALSE,
                                    !.code = NoCode, !.tries = 0], [do |-> "open"])
  /\ UNCHANGED <<session, granted, issued, spent>>

-----------------------------------------------------------------------------
(* Password reset and the administrator's status change *)

ForgotPassword(c) ==
  /\ call[c].do = "forgot"
  /\ SaveAccount(c, [account EXCEPT !.reset = TRUE], NoCall)
  /\ UNCHANGED <<session, granted, issued, spent>>

ResetPassword(c) ==
  /\ call[c].do = "reset"
  /\ SaveAccount(c, [account EXCEPT !.reset = FALSE, !.wrong = 0, !.status = "active"],
                 [do |-> "closeAll"])
  /\ UNCHANGED <<session, granted, issued, spent>>

UpdateUserStatus(c) ==
  /\ call[c].do \in {"active"} \cup Closed
  /\ LET status == call[c].do
     IN  SaveAccount(c, IF status = "active" /\ call[c].seen.status = "locked"
                          THEN [account EXCEPT !.status = status, !.wrong = 0, !.lockedNow = FALSE]
                          ELSE [account EXCEPT !.status = status],
                     IF status \in Closed THEN [do |-> "closeAll"] ELSE NoCall)
  /\ UNCHANGED <<session, granted, issued, spent>>

\* invalidateAllUserSessions after a reset or a closing status.
CloseAll(c) ==
  /\ call[c].do = "closeAll"
  /\ session' = AllClosed /\ call' = [call EXCEPT ![c] = NoCall]
  /\ UNCHANGED <<account, granted, issued, spent>>

-----------------------------------------------------------------------------
(* Sessions *)

\* refresh, up to the lookup of the session and of the user it belongs to.
FindByToken(c, s) ==
  /\ call[c] = NoCall /\ session[s].valid /\ account.status = "active"
  /\ call' = [call EXCEPT ![c] = [do |-> "refresh", on |-> s, seen |-> session[s]]]
  /\ UNCHANGED <<account, session, granted, issued, spent>>

\* Mutants of FreshSession and Rotated: no version check; the whole copy written.
SessionAny(c) == TRUE
RotatedWhole(c, token) == [call[c].seen EXCEPT !.token = token, !.v = @ + 1]

FreshSession(c) == call[c].seen.v = session[call[c].on].v

\* What session.save() leaves: isValid is not among the fields it writes.
Rotated(c, token) == [session[call[c].on] EXCEPT !.token = token, !.v = @ + 1]

Refresh(c, token) ==
  /\ call[c].do = "refresh"
  /\ session[call[c].on].v < MaxTokens   \* bound on the rotations of a session
  /\ IF FreshSession(c)
       THEN /\ issued' = [issued EXCEPT !.tokens = token]
            /\ session' = [session EXCEPT ![call[c].on] = Rotated(c, token)]
            /\ spent' = IF token = call[c].seen.token THEN spent
                        ELSE [spent EXCEPT !.tokens[call[c].on][call[c].seen.token] = @ + 1]
       ELSE UNCHANGED <<issued, session, spent>>
  /\ call' = [call EXCEPT ![c] = NoCall]
  /\ UNCHANGED <<account, granted>>

\* A session past its expiry is closed instead.
RefreshExpired(c) ==
  /\ call[c].do = "refresh"
  /\ session' = IF FreshSession(c)
                  THEN [session EXCEPT ![call[c].on].valid = FALSE, ![call[c].on].v = @ + 1]
                  ELSE session
  /\ call' = [call EXCEPT ![c] = NoCall]
  /\ UNCHANGED <<account, granted, issued, spent>>

Logout(s) ==
  /\ session[s].valid
  /\ session' = [session EXCEPT ![s].valid = FALSE]
  /\ UNCHANGED <<account, call, granted, issued, spent>>

\* Time: a lock runs out, a code expires, a request fails or the process restarts.
\* A lock lasts fifteen minutes and a token five: a token issued before the lock is
\* gone, and no request that a locked account refuses is still under way.
Refusable == {"login", "lock", "sendActivation", "verifyActivation", "activate"}

LockRunsOut ==
  /\ account.lockedNow
  /\ \A c \in Calls : call[c].do \notin Refusable
  /\ account' = [account EXCEPT !.lockedNow = FALSE]
  /\ granted' = {}
  /\ UNCHANGED <<session, call, issued, spent>>

CodeExpires ==
  /\ account.code # NoCode
  /\ account' = [account EXCEPT !.code = NoCode]
  /\ UNCHANGED <<session, call, granted, issued, spent>>

RequestFails(c) ==
  /\ call[c] # NoCall
  /\ call' = [call EXCEPT ![c] = NoCall]
  /\ UNCHANGED <<account, session, granted, issued, spent>>

AuthNext ==
  \/ \E c \in Calls :
       \/ \E do \in Requests : Start(c, do)
       \/ Unlock(c) \/ WrongPassword(c) \/ Lock(c) \/ RightPassword(c)
       \/ SendCode(c) \/ VerifyOTP(c) \/ VerifyActivationOTP(c) \/ ActivateChangePassword(c)
       \/ ForgotPassword(c) \/ ResetPassword(c) \/ UpdateUserStatus(c) \/ CloseAll(c)
       \/ \E token \in NewToken : Refresh(c, token) \/ \E s \in Sessions : OpenSession(c, s, token)
       \/ RefreshExpired(c) \/ RequestFails(c)
       \/ \E s \in Sessions : FindByToken(c, s)
  \/ \E s \in Sessions : Logout(s)
  \/ LockRunsOut \/ CodeExpires

AuthSpec == AuthInit /\ [][AuthNext]_authVars

-----------------------------------------------------------------------------
(* Properties *)

\* Types, with what the fields say of each other: an account is locked only
\* after MaxWrong wrong passwords, and an activation code that has met MaxWrong
\* wrong answers is gone, however the requests that counted them overlapped.
AuthTypeOK ==
  /\ account.status \in {"active", "locked"} \cup Closed
  /\ account.wrong \in 0..(MaxWrong + 1) /\ account.tries \in 0..MaxWrong
  /\ account.status = "locked" => account.wrong >= MaxWrong
  /\ account.code.kind = "activation" => account.tries < MaxWrong
  /\ \A s \in Sessions : session[s].token \in 0..MaxTokens

\* In a session a refresh token is exchanged for another one at most once, and a
\* one-time code opens at most one door, however many requests present it at once.
AcceptedOnce ==
  /\ \A s \in Sessions, t \in 1..MaxTokens : spent.tokens[s][t] <= 1
  /\ \A n \in 1..MaxCodes : spent.codes[n] <= 1

\* A session that was closed stays closed: a refresh that had read it before
\* logout, lockout, reset or suspension closed it does not open it again.
ClosedStaysClosed ==
  [][\A s \in Sessions : session[s].token # 0 /\ ~session[s].valid => ~session'[s].valid]_authVars
=============================================================================
