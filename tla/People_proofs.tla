--------------------------- MODULE People_proofs ----------------------------
(***************************************************************************)
(* What is proved about those who work with the program: the sign-in and   *)
(* sessions of an account, and members of staff with their accounts.  The  *)
(* two models share no variable; each has its own invariant.               *)
(***************************************************************************)
EXTENDS AuthSessions, StaffLinks, FoldTheorems, TLAPS

-----------------------------------------------------------------------------
(***************************************************************************)
(* Proofs about AuthSessions, for any number of overlapping requests, any  *)
(* sessions, and any limit on wrong answers.                               *)
(*                                                                         *)
(* The inductive invariant is about the copies that requests hold.  A copy *)
(* whose version is still that of the document agrees with it but for what *)
(* time has cleared; a code in such a copy has not been accepted, and a    *)
(* token in it is the session's own and has not been exchanged.  Whoever   *)
(* saves moves the version, so nobody else's copy is fresh any more.       *)
(***************************************************************************)


Statuses == {"active", "locked"} \cup Closed
Codes == {c \in [n : 0..MaxCodes, kind : {"none", "login", "activation"}] :
            c.kind = "none" <=> c.n = 0}
Account == [status : Statuses, wrong : 0..(MaxWrong + 1), lockedNow : BOOLEAN, code : Codes,
            tries : 0..MaxWrong, first : BOOLEAN, reset : BOOLEAN, v : Nat]
Session == [token : 0..MaxTokens, valid : BOOLEAN, v : Nat]
Issued == [codes : 0..MaxCodes, tokens : 0..MaxTokens]
Spent == [codes : [1..MaxCodes -> {0, 1}], tokens : [Sessions -> [1..MaxTokens -> {0, 1}]]]

\* The requests that hold a copy of the account; of them, those that a locked or
\* suspended account refuses; and those that hold no copy.
Readers == Requests \cup {"lock"}
Guarded == {"sendActivation", "verifyActivation", "activate", "lock"}
Resting == {NoCall, [do |-> "open"], [do |-> "closeAll"]}

CallShape(k) ==
  \/ k \in Resting
  \/ \E d \in Readers, x \in Account : k = [do |-> d, seen |-> x]
  \/ \E s \in Sessions, x \in Session : k = [do |-> "refresh", on |-> s, seen |-> x]

Shapes ==
  /\ account \in Account /\ session \in [Sessions -> Session]
  /\ issued \in Issued /\ spent \in Spent
  /\ DOMAIN call = Calls /\ call = [c \in Calls |-> call[c]]
  /\ \A c \in Calls : CallShape(call[c])

\* The lock has run out, and nobody has signed in since.
LockOver(a) == a.status = "locked" /\ ~a.lockedNow

AccountSound ==
  /\ account.status = "locked" => account.wrong >= MaxWrong
  /\ account.code.kind = "activation" => account.tries < MaxWrong
  /\ LockOver(account) => granted = {}

\* What the request k may rely on when the account is a.
CopySound(k, a) ==
  k.do \in Readers =>
    /\ k.seen.v <= a.v
    /\ k.do \in Guarded => k.seen.status # "locked"
    /\ k.do = "lock" => k.seen.wrong <= MaxWrong /\ k.seen.wrong + 1 >= MaxWrong
    /\ k.do = "verify" => k.seen.code.kind = "login"
    /\ LockOver(a) => k.do \notin Guarded /\ (k.do = "login" => k.seen.status = "locked")
    /\ k.seen.v = a.v =>
         a.status = k.seen.status /\ a.wrong = k.seen.wrong /\ a.tries = k.seen.tries

CopiesSound == \A c \in Calls : CopySound(call[c], account)

\* Code n was not accepted.
Unused(n) == n = 0 \/ spent.codes[n] = 0

\* The code in a copy of the account.
CodeSound(k) ==
  k.do \in Readers =>
    k.seen.code.n <= issued.codes /\ (k.seen.v = account.v => Unused(k.seen.code.n))

CodesSound ==
  /\ \A n \in 1..MaxCodes : n > issued.codes => spent.codes[n] = 0
  /\ account.code.n <= issued.codes /\ Unused(account.code.n)
  /\ \A c \in Calls : CodeSound(call[c])

\* The token in a copy of a session.
TokenSound(k) ==
  k.do = "refresh" =>
    /\ session[k.on].token # 0 /\ k.seen.v <= session[k.on].v
    /\ k.seen.v = session[k.on].v => k.seen.token = session[k.on].token

SessionsSound ==
  /\ \A s \in Sessions :
       /\ session[s].token <= issued.tokens
       /\ session[s].valid => session[s].token # 0
       /\ \A t \in 1..MaxTokens : t >= session[s].token => spent.tokens[s][t] = 0
  /\ \A c \in Calls : TokenSound(call[c])

AuthInv == Shapes /\ AccountSound /\ CopiesSound /\ CodesSound /\ SessionsSound

-----------------------------------------------------------------------------
\* The constants are numbers, with the boundaries the ranges of the fields need.
LEMMA Numbers ==
  /\ MaxWrong \in Nat \ {0} /\ MaxCodes \in Nat /\ MaxTokens \in Nat
  /\ 0 \in 0..MaxWrong /\ 0 \in 0..(MaxWrong + 1) /\ 0 \in 0..MaxCodes /\ 0 \in 0..MaxTokens
  BY AuthAssumption

\* An account without a code holds the code numbered 0.
LEMMA NoCodeIsCode == NoCode \in Codes /\ NoCode.n = 0 /\ NoCode.kind = "none"
  BY Numbers DEF NoCode, Codes

\* What a rotation and a closing make of a session document.
LEMMA SessionSet ==
  ASSUME NEW e \in Session, NEW t \in 0..MaxTokens, NEW m \in Nat
  PROVE  /\ [e EXCEPT !.token = t, !.v = m] \in Session
         /\ [e EXCEPT !.valid = FALSE, !.v = m] \in Session
  BY DEF Session

\* The two records a refresh writes are session documents.
LEMMA SessionMoved ==
  ASSUME NEW e \in Session, NEW t \in 0..MaxTokens
  PROVE  /\ [e EXCEPT !.token = t, !.v = @ + 1] \in Session
         /\ [e EXCEPT !.valid = FALSE, !.v = @ + 1] \in Session
<1>1. PICK m \in Nat : m = e.v + 1
  BY DEF Session
<1>2. /\ [e EXCEPT !.token = t, !.v = m] \in Session
      /\ [e EXCEPT !.valid = FALSE, !.v = m] \in Session
  BY SessionSet
<1>3. e.v + 1 = m
  BY <1>1
<1> QED
  BY <1>2, <1>3, Zenon

\* What the guard on `do` says of a request.
LEMMA ShapeOfReader ==
  ASSUME NEW k, CallShape(k), k.do \in Readers
  PROVE  k.seen \in Account /\ k = [do |-> k.do, seen |-> k.seen]
<1>1. k \notin Resting
  BY DEF Readers, Requests, Closed, Resting, NoCall
<1>2. ASSUME NEW s \in Sessions, NEW x \in Session, k = [do |-> "refresh", on |-> s, seen |-> x]
      PROVE  FALSE
  BY <1>2 DEF Readers, Requests, Closed
<1> QED
  BY <1>1, <1>2 DEF CallShape

\* A refresh holds a session and the copy of it that it read.
LEMMA ShapeOfRefresh ==
  ASSUME NEW k, CallShape(k), k.do = "refresh"
  PROVE  k.on \in Sessions /\ k.seen \in Session
<1>1. k \notin Resting
  BY DEF Resting, NoCall
<1>2. ASSUME NEW d \in Readers, NEW x \in Account, k = [do |-> d, seen |-> x]
      PROVE  FALSE
  BY <1>2 DEF Readers, Requests, Closed
<1> QED
  BY <1>1, <1>2 DEF CallShape

\* A request without a copy relies on nothing.
LEMMA RestingRelyOnNothing ==
  ASSUME NEW k \in Resting
  PROVE  /\ k.do \notin Readers /\ k.do # "refresh" /\ CallShape(k)
         /\ \A a : CopySound(k, a)
         /\ CodeSound(k) /\ CodeSound(k)' /\ TokenSound(k) /\ TokenSound(k)'
<1>1. k.do \in {"idle", "open", "closeAll"}
  BY DEF Resting, NoCall
<1>2. k.do \notin Readers /\ k.do # "refresh"
  BY <1>1 DEF Readers, Requests, Closed
<1> QED
  BY <1>2 DEF CallShape, CopySound, CodeSound, TokenSound

\* After a save nobody's copy is fresh, and what they rely on for good remains.
LEMMA CopyAfterSave ==
  ASSUME NEW k, NEW a \in Account, NEW b \in Account, CallShape(k), CopySound(k, a),
         b.v = a.v + 1, LockOver(b) => LockOver(a)
  PROVE  CopySound(k, b) /\ (k.do \in Readers => k.seen.v # b.v)
<1> SUFFICES ASSUME k.do \in Readers
             PROVE  CopySound(k, b) /\ k.seen.v # b.v
  BY DEF CopySound
<1>1. k.seen.v \in Nat /\ a.v \in Nat /\ k.seen.v <= a.v
  BY ShapeOfReader DEF Account, CopySound
<1>2. k.seen.v <= b.v /\ k.seen.v # b.v
  BY <1>1
<1> QED
  BY <1>2 DEF CopySound

\* One request goes on, and every other one keeps what it has.
LEMMA CallsChanged ==
  ASSUME Shapes, NEW c \in Calls, NEW k, CallShape(k), call' = [call EXCEPT ![c] = k]
  PROVE  /\ DOMAIN call' = Calls /\ call' = [d \in Calls |-> call'[d]]
         /\ \A d \in Calls : CallShape(call'[d])
         /\ call'[c] = k /\ \A d \in Calls \ {c} : call'[d] = call[d]
  BY DEF Shapes

\* Sessions that are closed, or left alone, keep the tokens in order.
LEMMA SessionsKept ==
  ASSUME AuthInv, session' \in [Sessions -> Session], issued'.tokens = issued.tokens,
         spent'.tokens = spent.tokens,
         \A s \in Sessions : /\ session'[s].token = session[s].token /\ session'[s].v = session[s].v
                             /\ session'[s].valid => session[s].valid,
         \A d \in Calls : call'[d] = call[d] \/ call'[d].do # "refresh"
  PROVE  SessionsSound'
<1>1. ASSUME NEW d \in Calls PROVE TokenSound(call[d])'
  <2>1. CASE call'[d].do # "refresh"
    BY <2>1 DEF TokenSound
  <2>2. CASE call'[d] = call[d] /\ call[d].do = "refresh"
    <3>1. call[d].on \in Sessions /\ TokenSound(call[d])
      BY <2>2, ShapeOfRefresh DEF AuthInv, Shapes, SessionsSound
    <3> QED
      BY <2>2, <3>1 DEF TokenSound
  <2> QED
    BY <2>1, <2>2
<1>2. ASSUME NEW s \in Sessions
      PROVE  /\ session'[s].token <= issued'.tokens
             /\ session'[s].valid => session'[s].token # 0
             /\ \A t \in 1..MaxTokens : t >= session'[s].token => spent'.tokens[s][t] = 0
  BY DEF AuthInv, SessionsSound
<1> QED
  BY <1>1, <1>2 DEF SessionsSound

\* Steps that leave the account and the codes alone.
LEMMA AccountRests ==
  ASSUME AuthInv, Shapes', SessionsSound', UNCHANGED account,
         issued'.codes = issued.codes, spent'.codes = spent.codes,
         granted' = granted \/ ~LockOver(account),
         NEW c \in Calls, CopySound(call'[c], account), CodeSound(call'[c]),
         \A d \in Calls \ {c} : call'[d] = call[d]
  PROVE  AuthInv'
<1>1. ASSUME NEW d \in Calls PROVE CopySound(call'[d], account) /\ CodeSound(call'[d])
  BY <1>1 DEF AuthInv, CopiesSound, CodesSound
<1>2. CopiesSound'
  BY <1>1 DEF CopiesSound, CopySound, LockOver
<1>3. \A d \in Calls : CodeSound(call[d])'
  BY <1>1 DEF CodeSound, Unused
<1>4. CodesSound'
  BY <1>3 DEF AuthInv, CodesSound, Unused
<1>5. AccountSound'
  BY DEF AuthInv, AccountSound, LockOver
<1> QED
  BY <1>2, <1>4, <1>5 DEF AuthInv

-----------------------------------------------------------------------------
(* Saving the account *)

\* What a request may make of the account, if its copy is fresh.
Writable(y) ==
  /\ y.status = "locked" => y.wrong >= MaxWrong
  /\ y.code.kind = "activation" => y.tries < MaxWrong
  /\ LockOver(y) => LockOver(account)

\* How a save may be followed: by the end of the request, by a step that needs no
\* copy, or, after the lock was lifted, by login with the document as saved.
Follows(k, y) ==
  \/ k \in Resting
  \/ k = [do |-> "login", seen |-> [y EXCEPT !.v = @ + 1]] /\ y.status # "locked"

\* A save, which may have sent a new code.
LEMMA SaveKeepsAuthInv ==
  ASSUME AuthInv, NEW c \in Calls, call[c].do \in Readers, NEW y \in Account, y.v = account.v,
         NEW k, Follows(k, y), SaveAccount(c, y, k),
         FreshAccount(c) => Writable(y),
         issued' \in Issued, issued'.tokens = issued.tokens, issued'.codes >= issued.codes,
         FreshAccount(c) => y.code.n <= issued'.codes /\ Unused(y.code.n),
         UNCHANGED <<session, granted, spent>>
  PROVE  AuthInv'
<1> DEFINE z == [y EXCEPT !.v = @ + 1]
<1>1. /\ account \in Account /\ CallShape(call[c]) /\ Shapes
  BY DEF AuthInv, Shapes
<1>2. /\ z \in Account /\ z.v = account.v + 1 /\ z.status = y.status /\ z.wrong = y.wrong
      /\ z.lockedNow = y.lockedNow /\ z.code = y.code /\ z.tries = y.tries
  BY <1>1 DEF Account
<1>3. issued.codes \in Nat /\ issued'.codes \in Nat
  BY <1>1 DEF Shapes, Issued
<1>4. CASE ~FreshAccount(c)
  <2>1. account' = account /\ call' = [call EXCEPT ![c] = NoCall]
    BY <1>4 DEF SaveAccount
  <2>2. NoCall \in Resting
    BY DEF Resting
  <2>3. /\ DOMAIN call' = Calls /\ call' = [d \in Calls |-> call'[d]]
        /\ \A d \in Calls : CallShape(call'[d])
        /\ call'[c] = NoCall /\ \A d \in Calls \ {c} : call'[d] = call[d]
    BY <1>1, <2>1, <2>2, CallsChanged, RestingRelyOnNothing
  <2>4. Shapes'
    BY <1>1, <2>1, <2>3 DEF Shapes, CallShape
  <2>5. SessionsSound'
    BY <1>1, <2>2, <2>3, SessionsKept, RestingRelyOnNothing DEF Shapes
  <2>6. ASSUME NEW d \in Calls
        PROVE  CopySound(call'[d], account) /\ CodeSound(call'[d])
    BY <2>2, <2>3, RestingRelyOnNothing DEF AuthInv, CopiesSound, CodesSound
  <2>7. CopiesSound'
    BY <2>1, <2>6 DEF CopiesSound, CopySound, LockOver
  <2>8. ASSUME NEW d \in Calls PROVE CodeSound(call[d])'
    <3>1. call'[d].do \in Readers => call'[d].seen.code.n \in Nat
      BY <2>3, ShapeOfReader DEF Account, Codes
    <3> QED
      BY <1>3, <2>1, <2>6, <3>1 DEF CodeSound, Unused
  <2>9. CodesSound'
    <3>1. account.code.n \in Nat
      BY <1>1 DEF Account, Codes
    <3>2. \A n \in 1..MaxCodes : n > issued'.codes => n > issued.codes
      BY <1>3
    <3> QED
      BY <1>3, <2>1, <2>8, <3>1, <3>2 DEF AuthInv, CodesSound, Unused
  <2>10. AccountSound'
    BY <2>1 DEF AuthInv, AccountSound, LockOver
  <2> QED
    BY <2>4, <2>5, <2>7, <2>9, <2>10 DEF AuthInv
<1>5. CASE FreshAccount(c)
  <2>1. account' = z /\ call' = [call EXCEPT ![c] = k]
    BY <1>5 DEF SaveAccount
  <2>2. k \in Resting \/ (k = [do |-> "login", seen |-> z] /\ z.status # "locked")
    BY <1>2 DEF Follows
  <2>3. LockOver(z) => LockOver(account)
    BY <1>2, <1>5 DEF Writable, LockOver
  <2> HIDE DEF z
  <2>4. CallShape(k)
    BY <1>2, <2>2 DEF CallShape, Readers, Requests
  <2>5. /\ DOMAIN call' = Calls /\ call' = [d \in Calls |-> call'[d]]
        /\ \A d \in Calls : CallShape(call'[d])
        /\ call'[c] = k /\ \A d \in Calls \ {c} : call'[d] = call[d]
    BY <1>1, <2>1, <2>4, CallsChanged
  <2>6. Shapes'
    BY <1>1, <1>2, <2>1, <2>5 DEF Shapes, CallShape
  <2>7. k.do # "refresh"
    BY <2>2, RestingRelyOnNothing
  <2>8. SessionsSound'
    BY <1>1, <2>5, <2>7, SessionsKept DEF Shapes
  <2>9. ASSUME NEW d \in Calls \ {c}
        PROVE  CopySound(call[d], z) /\ (call[d].do \in Readers => call[d].seen.v # z.v)
    BY <1>1, <1>2, <2>3, CopyAfterSave DEF Shapes, AuthInv, CopiesSound
  <2>10. CopySound(k, z)
    <3>1. CASE k \in Resting
      BY <3>1, RestingRelyOnNothing
    <3>2. CASE k = [do |-> "login", seen |-> z] /\ z.status # "locked"
      BY <1>2, <3>2 DEF CopySound, Guarded, LockOver, Account
    <3> QED
      BY <2>2, <3>1, <3>2
  <2>11. \A d \in Calls : CopySound(call'[d], z)
    BY <2>5, <2>9, <2>10
  <2>12. CopiesSound'
    BY <2>1, <2>11 DEF CopiesSound, CopySound, LockOver
  <2>13. ASSUME NEW d \in Calls PROVE CodeSound(call[d])'
    <3>1. CASE d # c
      <4>1. call[d].do \in Readers => call[d].seen.code.n \in Nat /\ call[d].seen.code.n <= issued.codes
        BY <1>1, ShapeOfReader DEF Shapes, Account, Codes, AuthInv, CodesSound, CodeSound
      <4> QED
        BY <1>3, <2>1, <2>5, <2>9, <3>1, <4>1 DEF CodeSound
    <3>2. CASE d = c /\ k \in Resting
      BY <2>5, <3>2, RestingRelyOnNothing DEF CodeSound
    <3>3. CASE d = c /\ k = [do |-> "login", seen |-> z]
      BY <1>2, <1>5, <2>1, <2>5, <3>3 DEF CodeSound, Unused
    <3> QED
      BY <2>2, <3>1, <3>2, <3>3
  <2>14. CodesSound'
    <3>1. \A n \in 1..MaxCodes : n > issued'.codes => n > issued.codes
      BY <1>3
    <3> QED
      BY <1>2, <1>5, <2>1, <2>13, <3>1 DEF AuthInv, CodesSound, Unused
  <2>15. AccountSound'
    BY <1>2, <1>5, <2>1, <2>3 DEF AuthInv, AccountSound, Writable, LockOver
  <2> QED
    BY <2>6, <2>8, <2>12, <2>14, <2>15 DEF AuthInv
<1> QED
  BY <1>4, <1>5

\* A save that accepts the code of a fresh copy: the code leaves the account, and
\* nobody else's copy of it is fresh.
LEMMA AcceptKeepsAuthInv ==
  ASSUME AuthInv, NEW c \in Calls, call[c].do \in Readers, call[c].seen.code.kind # "none",
         NEW y \in Account, y.v = account.v, y.code = NoCode, NEW k \in Resting,
         FreshAccount(c), SaveAccount(c, y, k), Writable(y),
         spent' = [spent EXCEPT !.codes[call[c].seen.code.n] = @ + 1],
         granted' = granted \/ y.status # "locked",
         UNCHANGED <<session, issued>>
  PROVE  AuthInv'
<1> DEFINE z == [y EXCEPT !.v = @ + 1]
           n == call[c].seen.code.n
<1>1. /\ account \in Account /\ CallShape(call[c]) /\ Shapes
  BY DEF AuthInv, Shapes
<1>2. /\ z \in Account /\ z.v = account.v + 1 /\ z.status = y.status /\ z.wrong = y.wrong
      /\ z.lockedNow = y.lockedNow /\ z.code = y.code /\ z.tries = y.tries
  BY <1>1 DEF Account
<1>3. /\ n \in 1..MaxCodes /\ n <= issued.codes /\ spent.codes[n] = 0
  <2>1. call[c].seen.code \in Codes
    BY <1>1, ShapeOfReader DEF Account
  <2>2. n \in 1..MaxCodes
    BY <2>1, Numbers DEF Codes
  <2>3. CodeSound(call[c]) /\ call[c].seen.v = account.v
    BY DEF AuthInv, CodesSound, FreshAccount
  <2> QED
    BY <2>2, <2>3 DEF CodeSound, Unused
<1>4. account' = z /\ call' = [call EXCEPT ![c] = k]
  BY DEF SaveAccount
<1>5. LockOver(z) => LockOver(account)
  BY <1>2 DEF Writable, LockOver
<1>6. /\ spent' \in Spent /\ spent'.tokens = spent.tokens
      /\ \A j \in 1..MaxCodes : j # n => spent'.codes[j] = spent.codes[j]
  <2> DEFINE f == spent.codes
  <2>1. f \in [1..MaxCodes -> {0, 1}] /\ f[n] = 0 /\ spent \in Spent
    BY <1>1, <1>3 DEF Shapes, Spent
  <2>2. spent' = [spent EXCEPT !.codes = [f EXCEPT ![n] = @ + 1]]
    BY <2>1 DEF Spent
  <2> HIDE DEF f, n
  <2>3. /\ [f EXCEPT ![n] = @ + 1] \in [1..MaxCodes -> {0, 1}]
        /\ \A j \in 1..MaxCodes : j # n => [f EXCEPT ![n] = @ + 1][j] = f[j]
    BY <1>3, <2>1
  <2>4. spent'.codes = [f EXCEPT ![n] = @ + 1] /\ spent'.tokens = spent.tokens /\ spent' \in Spent
    BY <2>1, <2>2, <2>3 DEF Spent
  <2> QED
    BY <2>3, <2>4 DEF f
<1> HIDE DEF z, n
<1>7. /\ DOMAIN call' = Calls /\ call' = [d \in Calls |-> call'[d]]
      /\ \A d \in Calls : CallShape(call'[d])
      /\ call'[c] = k /\ \A d \in Calls \ {c} : call'[d] = call[d]
  BY <1>1, <1>4, CallsChanged, RestingRelyOnNothing
<1>8. Shapes'
  BY <1>1, <1>2, <1>4, <1>6, <1>7 DEF Shapes, CallShape
<1>9. SessionsSound'
  BY <1>1, <1>6, <1>7, SessionsKept, RestingRelyOnNothing DEF Shapes
<1>10. ASSUME NEW d \in Calls \ {c}
       PROVE  CopySound(call[d], z) /\ (call[d].do \in Readers => call[d].seen.v # z.v)
  BY <1>1, <1>2, <1>5, CopyAfterSave DEF Shapes, AuthInv, CopiesSound
<1>11. \A d \in Calls : CopySound(call'[d], z)
  BY <1>7, <1>10, RestingRelyOnNothing
<1>12. CopiesSound'
  BY <1>4, <1>11 DEF CopiesSound, CopySound, LockOver
<1>13. ASSUME NEW d \in Calls PROVE CodeSound(call[d])'
  <2>1. CASE d # c
    BY <1>4, <1>7, <1>10, <2>1 DEF CodeSound, AuthInv, CodesSound
  <2>2. CASE d = c
    BY <1>7, <2>2, RestingRelyOnNothing DEF CodeSound
  <2> QED
    BY <2>1, <2>2
<1>14. CodesSound'
  <2>1. account'.code.n = 0 /\ issued.codes \in Nat
    BY <1>1, <1>2, <1>4, NoCodeIsCode DEF Shapes, Issued
  <2>2. \A j \in 1..MaxCodes : j > issued'.codes => spent'.codes[j] = 0
    BY <1>3, <1>6, <2>1 DEF AuthInv, CodesSound
  <2> QED
    BY <1>13, <2>1, <2>2 DEF CodesSound, Unused
<1>15. AccountSound'
  BY <1>2, <1>4, <1>5 DEF AuthInv, AccountSound, Writable, LockOver
<1> QED
  BY <1>8, <1>9, <1>12, <1>14, <1>15 DEF AuthInv

\* What a fresh copy says of the account.
LEMMA FreshCopy ==
  ASSUME AuthInv, NEW c \in Calls, call[c].do \in Readers
  PROVE  /\ call[c].seen \in Account /\ account \in Account
         /\ CopySound(call[c], account)
         /\ FreshAccount(c) => /\ account.status = call[c].seen.status
                               /\ account.wrong = call[c].seen.wrong
                               /\ account.tries = call[c].seen.tries
  BY ShapeOfReader DEF AuthInv, Shapes, CopiesSound, CopySound, FreshAccount

\* For the saves that send no code: the account keeps its own, or loses it.
LEMMA PlainSaveKeepsAuthInv ==
  ASSUME AuthInv, NEW c \in Calls, call[c].do \in Readers, NEW y \in Account, y.v = account.v,
         NEW k, Follows(k, y), SaveAccount(c, y, k),
         FreshAccount(c) => Writable(y),
         y.code \in {account.code, NoCode},
         UNCHANGED <<session, granted, issued, spent>>
  PROVE  AuthInv'
<1>1. issued \in Issued /\ issued.codes \in Nat
  BY DEF AuthInv, Shapes, Issued
<1>2. y.code.n <= issued.codes /\ Unused(y.code.n)
  BY <1>1, NoCodeIsCode DEF AuthInv, CodesSound, Unused
<1> QED
  BY <1>1, <1>2, SaveKeepsAuthInv

-----------------------------------------------------------------------------
(* The actions *)

\* A request that begins holds a copy that agrees with the account in everything.
LEMMA StartKeepsAuthInv ==
  ASSUME AuthInv, NEW c \in Calls, NEW do \in Requests, Start(c, do)
  PROVE  AuthInv'
<1> DEFINE k == [do |-> do, seen |-> account]
<1>1. call' = [call EXCEPT ![c] = k] /\ UNCHANGED <<account, session, granted, issued, spent>>
  BY DEF Start
<1>2. account \in Account /\ do \in Readers /\ Shapes
  BY DEF AuthInv, Shapes, Readers
<1>3. CallShape(k)
  BY <1>2 DEF CallShape
<1>4. /\ DOMAIN call' = Calls /\ call' = [d \in Calls |-> call'[d]]
      /\ \A d \in Calls : CallShape(call'[d])
      /\ call'[c] = k /\ \A d \in Calls \ {c} : call'[d] = call[d]
  BY <1>1, <1>2, <1>3, CallsChanged
<1>5. Shapes'
  BY <1>1, <1>2, <1>4 DEF Shapes, CallShape
<1>6. k.do # "refresh"
  BY DEF Requests, Closed
<1>7. SessionsSound'
  BY <1>1, <1>2, <1>4, <1>6, SessionsKept DEF Shapes
<1>8. do \in {"sendActivation", "verifyActivation", "activate"} => granted # {} /\ ~Barred(account)
  BY DEF Start, MayStart, Closed
<1>9. do = "verify" => account.code.kind = "login"
  BY DEF Start, MayStart, Closed
<1>10. CopySound(k, account)
  <2>1. do \in Guarded => do \in {"sendActivation", "verifyActivation", "activate"}
    BY DEF Guarded, Requests, Closed
  <2>2. do \in Guarded => account.status # "locked"
    BY <1>8, <2>1 DEF Barred, AuthInv, AccountSound, LockOver
  <2>3. LockOver(account) => do \notin Guarded
    BY <2>2 DEF LockOver
  <2>4. do # "lock" /\ account.v <= account.v
    BY <1>2 DEF Requests, Closed, Account
  <2> QED
    BY <1>9, <2>2, <2>3, <2>4 DEF CopySound, LockOver
<1>11. CodeSound(k)
  BY DEF CodeSound, AuthInv, CodesSound
<1> HIDE DEF k
<1> QED
  BY <1>1, <1>4, <1>5, <1>7, <1>10, <1>11, AccountRests

\* The login that unlocks goes on with the copy it has just saved.
LEMMA UnlockKeepsAuthInv ==
  ASSUME AuthInv, NEW c \in Calls, Unlock(c)
  PROVE  AuthInv'
<1> DEFINE y == [account EXCEPT !.status = "active", !.wrong = 0, !.lockedNow = FALSE]
           k == [do |-> "login", seen |-> [y EXCEPT !.v = @ + 1]]
<1>1. call[c].do \in Readers /\ SaveAccount(c, y, k) /\ UNCHANGED <<session, granted, issued, spent>>
  BY DEF Unlock, Readers, Requests
<1>2. account \in Account
  BY DEF AuthInv, Shapes
<1>3. /\ y \in Account /\ y.v = account.v /\ y.code = account.code /\ y.status = "active"
      /\ y.tries = account.tries
  BY <1>2, Numbers DEF Account, Statuses
<1>4. Writable(y)
  BY <1>3 DEF Writable, LockOver, AuthInv, AccountSound
<1>5. Follows(k, y)
  BY <1>3 DEF Follows
<1> HIDE DEF y, k
<1> QED
  BY <1>1, <1>3, <1>4, <1>5, PlainSaveKeepsAuthInv

\* The last wrong password: the sessions are closed first.
LEMMA LastWrongKeepsAuthInv ==
  ASSUME AuthInv, NEW c \in Calls, WrongPassword(c), TooMany(call[c].seen)
  PROVE  AuthInv'
<1> DEFINE x == call[c].seen
           k == [do |-> "lock", seen |-> x]
<1>1. /\ call[c].do = "login" /\ x.status # "locked" /\ x.wrong <= MaxWrong
      /\ session' = AllClosed /\ call' = [call EXCEPT ![c].do = "lock"]
      /\ UNCHANGED <<account, granted, issued, spent>>
  BY DEF WrongPassword
<1>2. call[c].do \in Readers /\ Shapes /\ CallShape(call[c])
  BY <1>1 DEF AuthInv, Shapes, Readers, Requests
<1>3. /\ x \in Account /\ account \in Account /\ CopySound(call[c], account)
  BY <1>2, FreshCopy
<1>4. call[c] = [do |-> "login", seen |-> x]
  BY <1>1, <1>2, ShapeOfReader
<1>5. call' = [call EXCEPT ![c] = k]
  <2>1. [call[c] EXCEPT !.do = "lock"] = k
    BY <1>4
  <2>2. call' = [call EXCEPT ![c] = [call[c] EXCEPT !.do = "lock"]]
    BY <1>1, <1>2 DEF Shapes
  <2> HIDE DEF k, x
  <2> QED
    BY <2>1, <2>2
<1>6. CallShape(k)
  BY <1>3 DEF CallShape, Readers
<1>7. /\ DOMAIN call' = Calls /\ call' = [d \in Calls |-> call'[d]]
      /\ \A d \in Calls : CallShape(call'[d])
      /\ call'[c] = k /\ \A d \in Calls \ {c} : call'[d] = call[d]
  BY <1>2, <1>5, <1>6, CallsChanged
<1>8. /\ session' \in [Sessions -> Session]
      /\ \A s \in Sessions : /\ session'[s].token = session[s].token
                             /\ session'[s].v = session[s].v /\ ~session'[s].valid
  BY <1>1, <1>2 DEF AllClosed, Shapes, Session
<1>9. Shapes'
  BY <1>1, <1>2, <1>7, <1>8 DEF Shapes, CallShape
<1>10. SessionsSound'
  BY <1>1, <1>7, <1>8, SessionsKept
<1>11. CopySound(k, account)
  <2>1. x.wrong + 1 >= MaxWrong
    BY DEF TooMany
  <2>2. ~LockOver(account) /\ x.v <= account.v
        /\ (x.v = account.v => account.status = x.status /\ account.wrong = x.wrong
                               /\ account.tries = x.tries)
    BY <1>1, <1>2, <1>3 DEF CopySound
  <2> QED
    BY <1>1, <2>1, <2>2 DEF CopySound
<1>12. CodeSound(k)
  BY <1>2 DEF CodeSound, AuthInv, CodesSound
<1> HIDE DEF k, x
<1> QED
  BY <1>1, <1>7, <1>9, <1>10, <1>11, <1>12, AccountRests

\* A counted wrong password, or the sessions closed before the lock.
LEMMA WrongPasswordKeepsAuthInv ==
  ASSUME AuthInv, NEW c \in Calls, WrongPassword(c)
  PROVE  AuthInv'
<1>1. CASE TooMany(call[c].seen)
  BY <1>1, LastWrongKeepsAuthInv
<1>2. CASE ~TooMany(call[c].seen)
  <2> DEFINE x == call[c].seen
             y == [account EXCEPT !.wrong = x.wrong + 1]
  <2>1. /\ call[c].do \in Readers /\ x.status # "locked" /\ SaveAccount(c, y, NoCall)
        /\ UNCHANGED <<session, granted, issued, spent>>
    BY <1>2 DEF WrongPassword, Readers, Requests
  <2>2. x \in Account /\ account \in Account
        /\ (FreshAccount(c) => account.status = x.status)
    BY <2>1, FreshCopy
  <2>3. x.wrong + 1 \in 0..(MaxWrong + 1)
    BY <1>2, <2>2, Numbers DEF Account, TooMany
  <2>4. /\ y \in Account /\ y.v = account.v /\ y.code = account.code /\ y.status = account.status
        /\ y.tries = account.tries
    BY <2>2, <2>3 DEF Account
  <2>5. FreshAccount(c) => Writable(y)
    BY <2>1, <2>2, <2>4 DEF Writable, LockOver, AuthInv, AccountSound
  <2> HIDE DEF x, y
  <2> QED
    BY <2>1, <2>4, <2>5, PlainSaveKeepsAuthInv DEF Follows, Resting
<1> QED
  BY <1>1, <1>2

\* The lock is saved with the last wrong password counted.
LEMMA LockKeepsAuthInv ==
  ASSUME AuthInv, NEW c \in Calls, Lock(c)
  PROVE  AuthInv'
<1> DEFINE x == call[c].seen
           y == [account EXCEPT !.status = "locked", !.lockedNow = TRUE, !.wrong = x.wrong + 1]
<1>1. /\ call[c].do = "lock" /\ SaveAccount(c, y, NoCall)
      /\ UNCHANGED <<session, granted, issued, spent>>
  BY DEF Lock
<1>2. call[c].do \in Readers
  BY <1>1 DEF Readers
<1>3. /\ x \in Account /\ account \in Account /\ x.wrong <= MaxWrong /\ x.wrong + 1 >= MaxWrong
  BY <1>1, <1>2, FreshCopy DEF CopySound
<1>4. x.wrong + 1 \in 0..(MaxWrong + 1)
  BY <1>3, Numbers DEF Account
<1>5. /\ y \in Account /\ y.v = account.v /\ y.code = account.code /\ y.lockedNow
      /\ y.tries = account.tries /\ y.wrong >= MaxWrong
  BY <1>3, <1>4 DEF Account, Statuses
<1>6. Writable(y)
  BY <1>5 DEF Writable, LockOver, AuthInv, AccountSound
<1> HIDE DEF x, y
<1> QED
  BY <1>1, <1>2, <1>5, <1>6, PlainSaveKeepsAuthInv DEF Follows, Resting

\* A request stops, or goes on without its copy.
LEMMA RestKeepsAuthInv ==
  ASSUME AuthInv, NEW c \in Calls, NEW k \in Resting, call' = [call EXCEPT ![c] = k],
         granted' = granted \/ ~LockOver(account), UNCHANGED <<account, session, issued, spent>>
  PROVE  AuthInv'
<1>1. Shapes
  BY DEF AuthInv
<1>2. /\ DOMAIN call' = Calls /\ call' = [d \in Calls |-> call'[d]]
      /\ \A d \in Calls : CallShape(call'[d])
      /\ call'[c] = k /\ \A d \in Calls \ {c} : call'[d] = call[d]
  BY <1>1, CallsChanged, RestingRelyOnNothing
<1>3. Shapes'
  BY <1>1, <1>2 DEF Shapes, CallShape
<1>4. SessionsSound'
  BY <1>1, <1>2, SessionsKept, RestingRelyOnNothing DEF Shapes
<1> QED
  BY <1>2, <1>3, <1>4, AccountRests, RestingRelyOnNothing

\* A right password writes nothing; it may grant an activation.
LEMMA RightPasswordKeepsAuthInv ==
  ASSUME AuthInv, NEW c \in Calls, RightPassword(c)
  PROVE  AuthInv'
<1>1. call[c].do \in Readers /\ call[c].do = "login" /\ call[c].seen.status # "locked"
  BY DEF RightPassword, Readers, Requests
<1>2. ~LockOver(account)
  BY <1>1, FreshCopy DEF CopySound
<1>3. PICK k \in Resting : call' = [call EXCEPT ![c] = k]
  BY DEF RightPassword, Resting
<1> QED
  BY <1>2, <1>3, RestKeepsAuthInv DEF RightPassword

\* A new code has a number no code had before.
LEMMA SendCodeKeepsAuthInv ==
  ASSUME AuthInv, NEW c \in Calls, SendCode(c)
  PROVE  AuthInv'
<1> DEFINE y == IF call[c].do = "send" THEN [account EXCEPT !.code = NewCode("login")]
                ELSE [account EXCEPT !.code = NewCode("activation"), !.tries = 0]
<1>1. /\ call[c].do \in {"send", "sendActivation"} /\ issued.codes < MaxCodes
      /\ SaveAccount(c, y, NoCall)
      /\ issued' = [issued EXCEPT !.codes = @ + 1] /\ UNCHANGED <<session, granted, spent>>
  BY DEF SendCode
<1>2. /\ account \in Account /\ issued \in Issued /\ call[c].do \in Readers
  BY <1>1 DEF AuthInv, Shapes, Readers, Requests
<1>3. /\ issued' \in Issued /\ issued'.tokens = issued.tokens
      /\ issued'.codes = issued.codes + 1 /\ issued'.codes \in 1..MaxCodes
      /\ issued'.codes >= issued.codes /\ issued'.codes > issued.codes
  BY <1>1, <1>2, Numbers DEF Issued
<1>4. ASSUME NEW kind \in {"login", "activation"}
      PROVE  NewCode(kind) \in Codes /\ NewCode(kind).n = issued'.codes /\ NewCode(kind).kind = kind
  BY <1>3 DEF NewCode, Codes
<1>5. /\ y \in Account /\ y.v = account.v /\ y.status = account.status /\ y.wrong = account.wrong
      /\ y.lockedNow = account.lockedNow /\ y.code.n = issued'.codes
      /\ y.code.kind = "activation" => y.tries = 0
  <2>1. CASE call[c].do = "send"
    <3> DEFINE new == NewCode("login")
    <3>1. new \in Codes /\ new.n = issued'.codes /\ new.kind = "login"
      BY <1>4
    <3> HIDE DEF new
    <3>2. y = [account EXCEPT !.code = new]
      BY <2>1 DEF new
    <3> QED
      BY <1>2, <3>1, <3>2 DEF Account
  <2>2. CASE call[c].do # "send"
    <3> DEFINE new == NewCode("activation")
    <3>1. new \in Codes /\ new.n = issued'.codes /\ new.kind = "activation"
      BY <1>4
    <3> HIDE DEF new
    <3>2. y = [account EXCEPT !.code = new, !.tries = 0]
      BY <2>2 DEF new
    <3> QED
      BY <1>2, <3>1, <3>2, Numbers DEF Account
  <2> QED
    BY <2>1, <2>2
<1> HIDE DEF y
<1>6. Writable(y)
  BY <1>5, Numbers DEF Writable, LockOver, AuthInv, AccountSound
<1>7. y.code.n <= issued'.codes /\ Unused(y.code.n)
  BY <1>3, <1>5 DEF Unused, AuthInv, CodesSound
<1> QED
  BY <1>1, <1>2, <1>3, <1>5, <1>6, <1>7, SaveKeepsAuthInv DEF Follows, Resting

\* A refused save accepts no code.
LEMMA NothingAccepted ==
  ASSUME AuthInv, NEW c \in Calls, Accept(c), ~FreshAccount(c)
  PROVE  spent' = spent
<1>1. spent \in Spent
  BY DEF AuthInv, Shapes
<1>2. spent' = [spent EXCEPT !.codes[call[c].seen.code.n] = @]
  BY DEF Accept
<1>3. [spent.codes EXCEPT ![call[c].seen.code.n] = @] = spent.codes
  BY <1>1 DEF Spent
<1> QED
  BY <1>1, <1>2, <1>3 DEF Spent

\* The login code that is accepted was fresh, so it had not been accepted.
LEMMA VerifyKeepsAuthInv ==
  ASSUME AuthInv, NEW c \in Calls, VerifyOTP(c)
  PROVE  AuthInv'
<1> DEFINE y == [account EXCEPT !.code = NoCode]
           k == [do |-> "open"]
<1>1. /\ call[c].do = "verify" /\ SaveAccount(c, y, k) /\ Accept(c)
      /\ UNCHANGED <<session, granted, issued>>
  BY DEF VerifyOTP
<1>2. call[c].do \in Readers /\ k \in Resting
  BY <1>1 DEF Readers, Requests, Resting
<1>3. account \in Account /\ call[c].seen.code.kind = "login"
  BY <1>1, <1>2, FreshCopy DEF CopySound
<1>4. /\ y \in Account /\ y.v = account.v /\ y.code = NoCode /\ y.status = account.status
      /\ y.lockedNow = account.lockedNow /\ y.wrong = account.wrong
  BY <1>3, NoCodeIsCode DEF Account
<1>5. Writable(y)
  BY <1>4, NoCodeIsCode DEF Writable, LockOver, AuthInv, AccountSound
<1> HIDE DEF y, k
<1>6. CASE FreshAccount(c)
  BY <1>1, <1>2, <1>3, <1>4, <1>5, <1>6, AcceptKeepsAuthInv DEF Accept
<1>7. CASE ~FreshAccount(c)
  <2>1. spent' = spent
    BY <1>1, <1>7, NothingAccepted
  <2> QED
    BY <1>1, <1>2, <1>4, <1>5, <2>1, PlainSaveKeepsAuthInv DEF Follows
<1> QED
  BY <1>6, <1>7

\* The three outcomes of an activation code.
LEMMA VerifyActivationKeepsAuthInv ==
  ASSUME AuthInv, NEW c \in Calls, VerifyActivationOTP(c)
  PROVE  AuthInv'
<1> DEFINE x == call[c].seen
<1>1. /\ call[c].do = "verifyActivation" /\ UNCHANGED <<session, issued>>
  BY DEF VerifyActivationOTP
<1>2. call[c].do \in Readers /\ call[c].do \in Guarded /\ NoCall \in Resting /\ Follows(NoCall, account)
  BY <1>1 DEF Readers, Requests, Guarded, Resting, Follows
<1>3. /\ x \in Account /\ account \in Account /\ x.status # "locked"
      /\ FreshAccount(c) => account.status = x.status /\ account.tries = x.tries
  BY <1>2, FreshCopy DEF CopySound
<1>4. CASE SaveAccount(c, [account EXCEPT !.code = NoCode], NoCall) /\ UNCHANGED <<granted, spent>>
  <2> DEFINE y == [account EXCEPT !.code = NoCode]
  <2>1. /\ y \in Account /\ y.v = account.v /\ y.code = NoCode /\ y.status = account.status
        /\ y.lockedNow = account.lockedNow /\ y.wrong = account.wrong
    BY <1>3, NoCodeIsCode DEF Account
  <2>2. Writable(y)
    BY <2>1, NoCodeIsCode DEF Writable, LockOver, AuthInv, AccountSound
  <2> HIDE DEF y
  <2>3. SaveAccount(c, y, NoCall) /\ Follows(NoCall, y)
    BY <1>2, <1>4 DEF y, Follows
  <2> QED
    BY <1>1, <1>2, <1>4, <2>1, <2>2, <2>3, PlainSaveKeepsAuthInv
<1>5. CASE x.tries < MaxWrong /\ SaveAccount(c, WrongCode(x), NoCall) /\ UNCHANGED <<granted, spent>>
  <2> DEFINE y == WrongCode(x)
  <2>1. x.tries + 1 \in 0..MaxWrong
    BY <1>3, <1>5, Numbers DEF Account
  <2>2. /\ y \in Account /\ y.v = account.v /\ y.status = account.status
        /\ y.lockedNow = account.lockedNow /\ y.wrong = account.wrong
        /\ y.tries = x.tries + 1
        /\ y.code = IF x.tries + 1 >= MaxWrong THEN NoCode ELSE account.code
    BY <1>3, <2>1, NoCodeIsCode DEF WrongCode, Account
  <2> HIDE DEF y
  <2>3. y.code.kind = "activation" => y.tries < MaxWrong
    BY <2>1, <2>2, NoCodeIsCode, Numbers
  <2>4. Writable(y)
    BY <2>2, <2>3 DEF Writable, LockOver, AuthInv, AccountSound
  <2>5. SaveAccount(c, y, NoCall) /\ Follows(NoCall, y)
    BY <1>2, <1>5 DEF y, Follows
  <2> QED
    BY <1>1, <1>2, <1>5, <2>2, <2>4, <2>5, PlainSaveKeepsAuthInv
<1>6. CASE /\ x.code.kind = "activation"
           /\ SaveAccount(c, [account EXCEPT !.code = NoCode, !.tries = 0], NoCall)
           /\ Accept(c)
           /\ granted' = IF FreshAccount(c) THEN granted \cup {"password-change"} ELSE granted
  <2> DEFINE y == [account EXCEPT !.code = NoCode, !.tries = 0]
  <2>1. /\ y \in Account /\ y.v = account.v /\ y.code = NoCode /\ y.status = account.status
        /\ y.lockedNow = account.lockedNow /\ y.wrong = account.wrong
    BY <1>3, NoCodeIsCode, Numbers DEF Account
  <2>2. Writable(y)
    BY <2>1, NoCodeIsCode DEF Writable, LockOver, AuthInv, AccountSound
  <2> HIDE DEF y
  <2>3. SaveAccount(c, y, NoCall) /\ Follows(NoCall, y)
    BY <1>2, <1>6 DEF y, Follows
  <2>4. CASE FreshAccount(c)
    BY <1>1, <1>2, <1>3, <1>6, <2>1, <2>2, <2>3, <2>4, AcceptKeepsAuthInv DEF Accept
  <2>5. CASE ~FreshAccount(c)
    <3>1. spent' = spent /\ granted' = granted
      BY <1>6, <2>5, NothingAccepted
    <3> QED
      BY <1>1, <1>2, <2>1, <2>2, <2>3, <3>1, PlainSaveKeepsAuthInv
  <2> QED
    BY <2>4, <2>5
<1> QED
  BY <1>4, <1>5, <1>6 DEF VerifyActivationOTP

\* Setting the first password clears code and counts.
LEMMA ActivateKeepsAuthInv ==
  ASSUME AuthInv, NEW c \in Calls, ActivateChangePassword(c)
  PROVE  AuthInv'
<1> DEFINE y == [account EXCEPT !.first = FALSE, !.wrong = 0, !.lockedNow = FALSE,
                                !.code = NoCode, !.tries = 0]
           k == [do |-> "open"]
<1>1. /\ call[c].do = "activate" /\ SaveAccount(c, y, k)
      /\ UNCHANGED <<session, granted, issued, spent>>
  BY DEF ActivateChangePassword
<1>2. call[c].do \in Readers /\ call[c].do \in Guarded /\ k \in Resting
  BY <1>1 DEF Readers, Requests, Guarded, Resting
<1>3. /\ account \in Account /\ (FreshAccount(c) => account.status # "locked")
  BY <1>2, FreshCopy DEF CopySound
<1>4. /\ y \in Account /\ y.v = account.v /\ y.code = NoCode /\ y.status = account.status
  BY <1>3, NoCodeIsCode, Numbers DEF Account
<1>5. FreshAccount(c) => Writable(y)
  BY <1>3, <1>4, NoCodeIsCode DEF Writable, LockOver
<1> HIDE DEF y, k
<1> QED
  BY <1>1, <1>2, <1>4, <1>5, PlainSaveKeepsAuthInv DEF Follows

\* A reset that is asked for changes only its own mark.
LEMMA ForgotKeepsAuthInv ==
  ASSUME AuthInv, NEW c \in Calls, ForgotPassword(c)
  PROVE  AuthInv'
<1> DEFINE y == [account EXCEPT !.reset = TRUE]
<1>1. /\ call[c].do = "forgot" /\ SaveAccount(c, y, NoCall)
      /\ UNCHANGED <<session, granted, issued, spent>>
  BY DEF ForgotPassword
<1>2. call[c].do \in Readers /\ account \in Account
  BY <1>1 DEF Readers, Requests, AuthInv, Shapes
<1>3. /\ y \in Account /\ y.v = account.v /\ y.code = account.code /\ y.status = account.status
      /\ y.lockedNow = account.lockedNow /\ y.wrong = account.wrong /\ y.tries = account.tries
  BY <1>2 DEF Account
<1>4. Writable(y)
  BY <1>3 DEF Writable, LockOver, AuthInv, AccountSound
<1> HIDE DEF y
<1> QED
  BY <1>1, <1>2, <1>3, <1>4, PlainSaveKeepsAuthInv DEF Follows, Resting

\* A reset makes the account active and forgets the wrong passwords.
LEMMA ResetKeepsAuthInv ==
  ASSUME AuthInv, NEW c \in Calls, ResetPassword(c)
  PROVE  AuthInv'
<1> DEFINE y == [account EXCEPT !.reset = FALSE, !.wrong = 0, !.status = "active"]
           k == [do |-> "closeAll"]
<1>1. /\ call[c].do = "reset" /\ SaveAccount(c, y, k)
      /\ UNCHANGED <<session, granted, issued, spent>>
  BY DEF ResetPassword
<1>2. call[c].do \in Readers /\ account \in Account /\ k \in Resting
  BY <1>1 DEF Readers, Requests, AuthInv, Shapes, Resting
<1>3. /\ y \in Account /\ y.v = account.v /\ y.code = account.code /\ y.status = "active"
      /\ y.tries = account.tries
  BY <1>2, Numbers DEF Account, Statuses
<1>4. Writable(y)
  BY <1>3 DEF Writable, LockOver, AuthInv, AccountSound
<1> HIDE DEF y, k
<1> QED
  BY <1>1, <1>2, <1>3, <1>4, PlainSaveKeepsAuthInv DEF Follows

\* The administrator's status change, which may unlock.
LEMMA StatusKeepsAuthInv ==
  ASSUME AuthInv, NEW c \in Calls, UpdateUserStatus(c)
  PROVE  AuthInv'
<1> DEFINE status == call[c].do
           y == IF status = "active" /\ call[c].seen.status = "locked"
                  THEN [account EXCEPT !.status = status, !.wrong = 0, !.lockedNow = FALSE]
                  ELSE [account EXCEPT !.status = status]
           k == IF status \in Closed THEN [do |-> "closeAll"] ELSE NoCall
<1>1. /\ status \in {"active"} \cup Closed /\ SaveAccount(c, y, k)
      /\ UNCHANGED <<session, granted, issued, spent>>
  BY DEF UpdateUserStatus
<1>2. call[c].do \in Readers /\ account \in Account /\ k \in Resting /\ status \in Statuses
      /\ status # "locked"
  BY <1>1 DEF Readers, Requests, AuthInv, Shapes, Resting, Statuses, Closed
<1>3. /\ y \in Account /\ y.v = account.v /\ y.code = account.code /\ y.status = status
      /\ y.tries = account.tries
  BY <1>2, Numbers DEF Account
<1>4. Writable(y)
  BY <1>2, <1>3 DEF Writable, LockOver, AuthInv, AccountSound
<1> HIDE DEF y, k
<1> QED
  BY <1>1, <1>2, <1>3, <1>4, PlainSaveKeepsAuthInv DEF Follows

\* Sessions that are closed by a request that ends with it, or by a logout.
LEMMA ClosingKeepsAuthInv ==
  ASSUME AuthInv, NEW c \in Calls, NEW k \in Resting,
         call' = [call EXCEPT ![c] = k] \/ call' = call,
         session' \in [Sessions -> Session],
         \A s \in Sessions : /\ session'[s].token = session[s].token /\ session'[s].v = session[s].v
                             /\ session'[s].valid => session[s].valid,
         UNCHANGED <<account, granted, issued, spent>>
  PROVE  AuthInv'
<1>1. Shapes
  BY DEF AuthInv
<1>2. /\ DOMAIN call' = Calls /\ call' = [d \in Calls |-> call'[d]]
      /\ \A d \in Calls : CallShape(call'[d])
      /\ call'[c] \in {k, call[c]} /\ \A d \in Calls \ {c} : call'[d] = call[d]
  <2>1. CASE call' = call
    BY <1>1, <2>1 DEF Shapes
  <2>2. CASE call' = [call EXCEPT ![c] = k]
    BY <1>1, <2>2, CallsChanged, RestingRelyOnNothing
  <2> QED
    BY <2>1, <2>2
<1>3. Shapes'
  BY <1>1, <1>2 DEF Shapes, CallShape
<1>4. SessionsSound'
  BY <1>2, SessionsKept, RestingRelyOnNothing
<1>5. CopySound(call'[c], account) /\ CodeSound(call'[c])
  BY <1>2, RestingRelyOnNothing DEF AuthInv, CopiesSound, CodesSound
<1> QED
  BY <1>2, <1>3, <1>4, <1>5, AccountRests

\* Closing every session touches neither tokens nor versions.
LEMMA CloseAllKeepsAuthInv ==
  ASSUME AuthInv, NEW c \in Calls, CloseAll(c)
  PROVE  AuthInv'
<1>1. /\ session' = AllClosed /\ call' = [call EXCEPT ![c] = NoCall]
      /\ UNCHANGED <<account, granted, issued, spent>> /\ NoCall \in Resting
  BY DEF CloseAll, Resting
<1>2. /\ session' \in [Sessions -> Session]
      /\ \A s \in Sessions : /\ session'[s].token = session[s].token
                             /\ session'[s].v = session[s].v /\ ~session'[s].valid
  BY <1>1 DEF AllClosed, AuthInv, Shapes, Session
<1> QED
  BY <1>1, <1>2, ClosingKeepsAuthInv

\* Closing one session touches neither its token nor its version.
LEMMA LogoutKeepsAuthInv ==
  ASSUME AuthInv, NEW s \in Sessions, Logout(s)
  PROVE  AuthInv'
<1>1. /\ session' = [session EXCEPT ![s].valid = FALSE]
      /\ UNCHANGED <<account, call, granted, issued, spent>>
  BY DEF Logout
<1>2. /\ session' \in [Sessions -> Session]
      /\ \A r \in Sessions : /\ session'[r].token = session[r].token
                             /\ session'[r].v = session[r].v
                             /\ session'[r].valid => session[r].valid
  BY <1>1 DEF AuthInv, Shapes, Session
<1>3. Shapes'
  BY <1>1, <1>2 DEF AuthInv, Shapes, CallShape
<1>4. SessionsSound'
  BY <1>1, <1>2, SessionsKept
<1>5. CopiesSound' /\ CodesSound' /\ AccountSound'
  BY <1>1 DEF AuthInv, CopiesSound, CopySound, CodesSound, CodeSound, Unused, AccountSound, LockOver
<1> QED
  BY <1>3, <1>4, <1>5 DEF AuthInv

\* A request that fails leaves nothing behind.
LEMMA FailsKeepsAuthInv ==
  ASSUME AuthInv, NEW c \in Calls, RequestFails(c)
  PROVE  AuthInv'
  BY RestKeepsAuthInv DEF RequestFails, Resting

\* One session is written, by a request that ends with it.
LEMMA SessionWritten ==
  ASSUME AuthInv, NEW c \in Calls, NEW s \in Sessions, NEW x \in Session,
         session' = [session EXCEPT ![s] = x], call' = [call EXCEPT ![c] = NoCall],
         issued' \in Issued, issued'.codes = issued.codes, issued'.tokens >= issued.tokens,
         spent' \in Spent, spent'.codes = spent.codes,
         \A r \in Sessions \ {s} : spent'.tokens[r] = spent.tokens[r],
         x.token <= issued'.tokens, x.valid => x.token # 0,
         \A t \in 1..MaxTokens : t >= x.token => spent'.tokens[s][t] = 0,
         session[s].token # 0 => x.token # 0 /\ x.v = session[s].v + 1,
         UNCHANGED <<account, granted>>
  PROVE  AuthInv'
<1>1. Shapes /\ NoCall \in Resting
  BY DEF AuthInv, Resting
<1>2. /\ DOMAIN call' = Calls /\ call' = [d \in Calls |-> call'[d]]
      /\ \A d \in Calls : CallShape(call'[d])
      /\ call'[c] = NoCall /\ \A d \in Calls \ {c} : call'[d] = call[d]
  BY <1>1, CallsChanged, RestingRelyOnNothing
<1>3. /\ session' \in [Sessions -> Session] /\ session'[s] = x
      /\ \A r \in Sessions \ {s} : session'[r] = session[r]
  BY <1>1 DEF Shapes
<1>4. Shapes'
  BY <1>1, <1>2, <1>3 DEF Shapes, CallShape
<1>5. ASSUME NEW d \in Calls PROVE TokenSound(call[d])'
  <2>1. CASE d = c \/ call[d].do # "refresh"
    BY <1>1, <1>2, <2>1, RestingRelyOnNothing DEF TokenSound
  <2>2. CASE d # c /\ call[d].do = "refresh"
    <3> DEFINE r == call[d].on
    <3>1. /\ r \in Sessions /\ call[d].seen \in Session /\ TokenSound(call[d])
          /\ call'[d] = call[d]
      BY <1>1, <1>2, <2>2, ShapeOfRefresh DEF Shapes, AuthInv, SessionsSound
    <3>2. /\ session[r].token # 0 /\ call[d].seen.v <= session[r].v
          /\ call[d].seen.v = session[r].v => call[d].seen.token = session[r].token
          /\ call[d].seen.v \in Nat /\ session[r].v \in Nat
      BY <1>1, <2>2, <3>1 DEF TokenSound, Shapes, Session
    <3>3. CASE r # s
      BY <1>3, <3>1, <3>2, <3>3 DEF TokenSound
    <3>4. CASE r = s
      <4>1. x.token # 0 /\ call[d].seen.v <= x.v /\ call[d].seen.v # x.v
        BY <3>2, <3>4
      <4> QED
        BY <1>3, <3>1, <3>4, <4>1 DEF TokenSound
    <3> QED
      BY <3>3, <3>4
  <2> QED
    BY <2>1, <2>2
<1>6. ASSUME NEW r \in Sessions
      PROVE  /\ session'[r].token <= issued'.tokens
             /\ session'[r].valid => session'[r].token # 0
             /\ \A t \in 1..MaxTokens : t >= session'[r].token => spent'.tokens[r][t] = 0
  <2>1. CASE r = s
    BY <1>3, <2>1
  <2>2. CASE r # s
    <3>1. /\ session[r].token <= issued.tokens /\ session[r].token \in Nat
          /\ issued.tokens \in Nat /\ issued'.tokens \in Nat
      BY <1>1 DEF AuthInv, SessionsSound, Shapes, Session, Issued
    <3>2. session'[r].token <= issued'.tokens
      BY <1>3, <2>2, <3>1
    <3> QED
      BY <1>3, <2>2, <3>2 DEF AuthInv, SessionsSound
  <2> QED
    BY <2>1, <2>2
<1>7. SessionsSound'
  BY <1>5, <1>6 DEF SessionsSound
<1>8. CopySound(call'[c], account) /\ CodeSound(call'[c])
  BY <1>1, <1>2, RestingRelyOnNothing
<1> QED
  BY <1>2, <1>4, <1>7, <1>8, AccountRests

\* A new token is not older than any that was issued.
LEMMA NewTokens ==
  ASSUME AuthInv, NEW token \in NewToken
  PROVE  /\ token \in 1..MaxTokens /\ token >= issued.tokens
         /\ [issued EXCEPT !.tokens = token] \in Issued
         /\ [issued EXCEPT !.tokens = token].codes = issued.codes
         /\ [issued EXCEPT !.tokens = token].tokens = token
<1>1. issued \in Issued
  BY DEF AuthInv, Shapes
<1>2. token \in 1..MaxTokens /\ token \in {issued.tokens, issued.tokens + 1} /\ issued.tokens \in Nat
  BY <1>1 DEF NewToken, Issued
<1>3. token \in 0..MaxTokens /\ token >= issued.tokens
  BY <1>2, Numbers
<1> QED
  BY <1>1, <1>2, <1>3 DEF Issued

\* A new session starts with a token no older than any issued.
LEMMA OpenKeepsAuthInv ==
  ASSUME AuthInv, NEW c \in Calls, NEW s \in Sessions, NEW token \in NewToken,
         OpenSession(c, s, token)
  PROVE  AuthInv'
<1> DEFINE x == [token |-> token, valid |-> TRUE, v |-> 0]
<1>1. /\ session[s].token = 0 /\ issued' = [issued EXCEPT !.tokens = token]
      /\ session' = [session EXCEPT ![s] = x] /\ call' = [call EXCEPT ![c] = NoCall]
      /\ UNCHANGED <<account, granted, spent>>
  BY DEF OpenSession
<1>2. /\ token \in 1..MaxTokens /\ token >= issued.tokens /\ issued' \in Issued
      /\ issued'.codes = issued.codes /\ issued'.tokens = token
  BY <1>1, NewTokens
<1>3. x \in Session /\ x.token = token /\ token \in 0..MaxTokens /\ token # 0 /\ token <= token
  BY <1>2, Numbers DEF Session
<1>4. spent \in Spent /\ \A t \in 1..MaxTokens : spent.tokens[s][t] = 0
  <2>1. \A t \in 1..MaxTokens : t >= session[s].token
    BY <1>1, Numbers
  <2> QED
    BY <2>1 DEF AuthInv, Shapes, SessionsSound
<1> HIDE DEF x
<1> QED
  BY <1>1, <1>2, <1>3, <1>4, SessionWritten

\* A refresh holds the copy of the session it found.
LEMMA FindKeepsAuthInv ==
  ASSUME AuthInv, NEW c \in Calls, NEW s \in Sessions, FindByToken(c, s)
  PROVE  AuthInv'
<1> DEFINE k == [do |-> "refresh", on |-> s, seen |-> session[s]]
<1>1. /\ session[s].valid /\ call' = [call EXCEPT ![c] = k]
      /\ UNCHANGED <<account, session, granted, issued, spent>>
  BY DEF FindByToken
<1>2. Shapes /\ session[s] \in Session
  BY DEF AuthInv, Shapes
<1>3. CallShape(k)
  BY <1>2 DEF CallShape
<1>4. /\ DOMAIN call' = Calls /\ call' = [d \in Calls |-> call'[d]]
      /\ \A d \in Calls : CallShape(call'[d])
      /\ call'[c] = k /\ \A d \in Calls \ {c} : call'[d] = call[d]
  BY <1>1, <1>2, <1>3, CallsChanged
<1>5. Shapes'
  BY <1>1, <1>2, <1>4 DEF Shapes, CallShape
<1>6. TokenSound(k)
  BY <1>1, <1>2 DEF TokenSound, AuthInv, SessionsSound, Session
<1>7. \A d \in Calls : TokenSound(call'[d])
  BY <1>4, <1>6 DEF AuthInv, SessionsSound
<1>8. SessionsSound'
  BY <1>1, <1>7 DEF AuthInv, SessionsSound, TokenSound
<1>9. k.do \notin Readers
  BY DEF Readers, Requests, Closed
<1>10. CopySound(k, account) /\ CodeSound(k)
  BY <1>9 DEF CopySound, CodeSound
<1> HIDE DEF k
<1> QED
  BY <1>1, <1>4, <1>5, <1>8, <1>10, AccountRests

\* What a request that refreshes has in hand.
LEMMA RefreshInHand ==
  ASSUME AuthInv, NEW c \in Calls, call[c].do = "refresh"
  PROVE  LET s == call[c].on
         IN  /\ s \in Sessions /\ session[s] \in Session /\ session[s].token # 0
             /\ session[s].v \in Nat /\ session[s].token \in 1..MaxTokens
             /\ session[s].token <= issued.tokens
             /\ FreshSession(c) => call[c].seen.token = session[s].token
<1> DEFINE s == call[c].on
<1>1. s \in Sessions /\ TokenSound(call[c])
  BY ShapeOfRefresh DEF AuthInv, Shapes, SessionsSound
<1>2. session[s] \in Session /\ session[s].token <= issued.tokens
  BY <1>1 DEF AuthInv, Shapes, SessionsSound
<1>3. /\ session[s].token # 0 /\ (FreshSession(c) => call[c].seen.token = session[s].token)
  BY <1>1 DEF TokenSound, FreshSession
<1>4. session[s].v \in Nat /\ session[s].token \in 1..MaxTokens
  BY <1>2, <1>3, Numbers DEF Session
<1> QED
  BY <1>1, <1>2, <1>3, <1>4

\* A rotation replaces the session's own token, which had not been exchanged.
LEMMA RefreshKeepsAuthInv ==
  ASSUME AuthInv, NEW c \in Calls, NEW token \in NewToken, Refresh(c, token)
  PROVE  AuthInv'
<1> DEFINE s == call[c].on
           old == session[s].token
           x == [session[s] EXCEPT !.token = token, !.v = @ + 1]
<1>1. /\ call[c].do = "refresh" /\ call' = [call EXCEPT ![c] = NoCall]
      /\ UNCHANGED <<account, granted>>
  BY DEF Refresh
<1>2. CASE ~FreshSession(c)
  BY <1>1, <1>2, RestKeepsAuthInv DEF Refresh, Resting
<1>3. CASE FreshSession(c)
  <2>1. /\ s \in Sessions /\ session[s] \in Session /\ old # 0 /\ session[s].v \in Nat
        /\ old \in 1..MaxTokens /\ old <= issued.tokens /\ call[c].seen.token = old
    BY <1>1, <1>3, RefreshInHand
  <2>2. /\ issued' = [issued EXCEPT !.tokens = token]
        /\ session' = [session EXCEPT ![s] = x]
        /\ spent' = IF token = old THEN spent
                    ELSE [spent EXCEPT !.tokens[s][old] = @ + 1]
    BY <1>3, <2>1 DEF Refresh, Rotated
  <2>3. /\ token \in 1..MaxTokens /\ token >= issued.tokens /\ issued' \in Issued
        /\ issued'.codes = issued.codes /\ issued'.tokens = token
    BY <2>2, NewTokens
  <2>4. token \in 0..MaxTokens /\ token # 0 /\ token <= token
    BY <2>3, Numbers
  <2>5. x \in Session /\ x.token = token /\ x.v = session[s].v + 1
    <3> DEFINE e == session[s]
    <3>1. e \in Session /\ x = [e EXCEPT !.token = token, !.v = @ + 1]
      BY <2>1
    <3>2. e \in Session => /\ [e EXCEPT !.token = token, !.v = @ + 1] \in Session
                           /\ [e EXCEPT !.token = token, !.v = @ + 1].token = token
                           /\ [e EXCEPT !.token = token, !.v = @ + 1].v = e.v + 1
      <4> HIDE DEF e
      <4> QED
        BY <2>4, SessionMoved DEF Session
    <3> QED
      BY <3>1, <3>2
  <2>6. token >= old
    <3>1. issued.tokens \in Nat
      BY DEF AuthInv, Shapes, Issued
    <3> QED
      BY <2>1, <2>3, <3>1
  <2>7. spent \in Spent /\ \A t \in 1..MaxTokens : t >= old => spent.tokens[s][t] = 0
    BY <2>1 DEF AuthInv, Shapes, SessionsSound
  <2> HIDE DEF x, old
  <2>8. /\ spent' \in Spent /\ spent'.codes = spent.codes
        /\ \A r \in Sessions \ {s} : spent'.tokens[r] = spent.tokens[r]
        /\ \A t \in 1..MaxTokens : t >= token => spent'.tokens[s][t] = 0
    <3>1. CASE token = old
      BY <2>2, <2>7, <3>1
    <3>2. CASE token # old
      <4> DEFINE f == spent.tokens
                 g == [f[s] EXCEPT ![old] = @ + 1]
      <4>1. f \in [Sessions -> [1..MaxTokens -> {0, 1}]] /\ f[s][old] = 0
        BY <2>1, <2>7 DEF Spent
      <4>2. g \in [1..MaxTokens -> {0, 1}] /\ \A t \in 1..MaxTokens : t # old => g[t] = f[s][t]
        <5> DEFINE h == f[s]
        <5>1. h \in [1..MaxTokens -> {0, 1}] /\ h[old] = 0
          BY <2>1, <4>1
        <5> HIDE DEF h, f
        <5>2. /\ [h EXCEPT ![old] = @ + 1] \in [1..MaxTokens -> {0, 1}]
              /\ \A t \in 1..MaxTokens : t # old => [h EXCEPT ![old] = @ + 1][t] = h[t]
          BY <2>1, <5>1
        <5> QED
          BY <5>2 DEF h
      <4>3. spent' = [spent EXCEPT !.tokens = [f EXCEPT ![s] = g]]
        BY <2>1, <2>2, <2>7, <3>2 DEF Spent
      <4> HIDE DEF f, g, s
      <4>4. /\ [f EXCEPT ![s] = g] \in [Sessions -> [1..MaxTokens -> {0, 1}]]
            /\ [f EXCEPT ![s] = g][s] = g
            /\ \A r \in Sessions \ {s} : [f EXCEPT ![s] = g][r] = f[r]
        BY <2>1, <4>1, <4>2
      <4>5. /\ spent' \in Spent /\ spent'.codes = spent.codes
            /\ spent'.tokens = [f EXCEPT ![s] = g]
        BY <2>7, <4>3, <4>4 DEF Spent
      <4>6. \A t \in 1..MaxTokens : t >= token => t # old /\ t >= old
        BY <2>1, <2>3, <2>6, <3>2
      <4>7. \A t \in 1..MaxTokens : t >= token => g[t] = 0
        BY <2>7, <4>2, <4>6 DEF f
      <4> QED
        BY <4>4, <4>5, <4>7 DEF f
    <3> QED
      BY <3>1, <3>2
  <2>9. /\ s \in Sessions /\ x \in Session
        /\ session' = [session EXCEPT ![s] = x] /\ call' = [call EXCEPT ![c] = NoCall]
        /\ issued' \in Issued /\ issued'.codes = issued.codes
        /\ spent' \in Spent /\ spent'.codes = spent.codes
        /\ \A r \in Sessions \ {s} : spent'.tokens[r] = spent.tokens[r]
        /\ UNCHANGED <<account, granted>>
    BY <1>1, <2>1, <2>2, <2>3, <2>5, <2>8
  <2>10. /\ issued'.tokens >= issued.tokens /\ x.token <= issued'.tokens
         /\ x.valid => x.token # 0
         /\ \A t \in 1..MaxTokens : t >= x.token => spent'.tokens[s][t] = 0
         /\ session[s].token # 0 => x.token # 0 /\ x.v = session[s].v + 1
    BY <2>3, <2>4, <2>5, <2>8
  <2> HIDE DEF s
  <2> QED
    BY <2>9, <2>10, SessionWritten
<1> QED
  BY <1>2, <1>3

\* A session past its expiry is closed, and its version moves.
LEMMA RefreshExpiredKeepsAuthInv ==
  ASSUME AuthInv, NEW c \in Calls, RefreshExpired(c)
  PROVE  AuthInv'
<1> DEFINE s == call[c].on
           x == [session[s] EXCEPT !.valid = FALSE, !.v = @ + 1]
<1>1. /\ call[c].do = "refresh" /\ call' = [call EXCEPT ![c] = NoCall]
      /\ UNCHANGED <<account, granted, issued, spent>>
  BY DEF RefreshExpired
<1>2. CASE ~FreshSession(c)
  BY <1>1, <1>2, RestKeepsAuthInv DEF RefreshExpired, Resting
<1>3. CASE FreshSession(c)
  <2>1. /\ s \in Sessions /\ session[s] \in Session /\ session[s].token # 0 /\ session[s].v \in Nat
        /\ session[s].token <= issued.tokens
    BY <1>1, RefreshInHand
  <2>2. session' = [session EXCEPT ![s] = x]
    BY <1>3, <2>1 DEF RefreshExpired, AuthInv, Shapes
  <2>3. x \in Session /\ x.token = session[s].token /\ x.v = session[s].v + 1 /\ ~x.valid
    <3> DEFINE e == session[s]
    <3>1. e \in Session /\ x = [e EXCEPT !.valid = FALSE, !.v = @ + 1]
      BY <2>1
    <3>2. e \in Session => /\ [e EXCEPT !.valid = FALSE, !.v = @ + 1] \in Session
                           /\ [e EXCEPT !.valid = FALSE, !.v = @ + 1].token = e.token
                           /\ [e EXCEPT !.valid = FALSE, !.v = @ + 1].v = e.v + 1
                           /\ ~[e EXCEPT !.valid = FALSE, !.v = @ + 1].valid
      <4> HIDE DEF e
      <4> QED
        BY Numbers, SessionMoved DEF Session
    <3> QED
      BY <3>1, <3>2
  <2>4. /\ issued \in Issued /\ spent \in Spent /\ issued.tokens >= issued.tokens
        /\ \A t \in 1..MaxTokens : t >= x.token => spent.tokens[s][t] = 0
    BY <2>1, <2>3 DEF AuthInv, Shapes, SessionsSound, Issued
  <2> HIDE DEF x
  <2> QED
    BY <1>1, <2>1, <2>2, <2>3, <2>4, SessionWritten
<1> QED
  BY <1>2, <1>3

\* Time passes: the copies that are fresh agree with the account but for the code
\* and the lock.
LEMMA LockRunsOutKeepsAuthInv ==
  ASSUME AuthInv, LockRunsOut
  PROVE  AuthInv'
<1> DEFINE a == [account EXCEPT !.lockedNow = FALSE]
<1>1. /\ account' = a /\ granted' = {} /\ UNCHANGED <<session, call, issued, spent>>
      /\ \A c \in Calls : call[c].do \notin Refusable
  BY DEF LockRunsOut
<1>2. account \in Account
  BY DEF AuthInv, Shapes
<1>3. /\ a \in Account /\ a.v = account.v /\ a.code = account.code /\ a.status = account.status
      /\ a.tries = account.tries /\ a.wrong = account.wrong
  BY <1>2 DEF Account
<1> HIDE DEF a
<1>4. Shapes'
  BY <1>1, <1>3 DEF AuthInv, Shapes, CallShape
<1>5. AccountSound'
  BY <1>1, <1>3 DEF AuthInv, AccountSound, LockOver
<1>6. ASSUME NEW c \in Calls PROVE CopySound(call[c], a)
  <2>1. call[c].do \notin Guarded /\ call[c].do # "login" /\ call[c].do # "lock"
    BY <1>1 DEF Guarded, Refusable
  <2>2. CopySound(call[c], account)
    BY DEF AuthInv, CopiesSound
  <2> QED
    BY <1>3, <2>1, <2>2 DEF CopySound
<1>7. CopiesSound'
  BY <1>1, <1>6 DEF CopiesSound, CopySound, LockOver
<1>8. CodesSound' /\ SessionsSound'
  BY <1>1, <1>3 DEF AuthInv, CodesSound, CodeSound, Unused, SessionsSound, TokenSound
<1> QED
  BY <1>4, <1>5, <1>7, <1>8 DEF AuthInv

\* A code that expires is gone from the account only.
LEMMA CodeExpiresKeepsAuthInv ==
  ASSUME AuthInv, CodeExpires
  PROVE  AuthInv'
<1> DEFINE a == [account EXCEPT !.code = NoCode]
<1>1. account' = a /\ UNCHANGED <<session, call, granted, issued, spent>>
  BY DEF CodeExpires
<1>2. account \in Account /\ issued.codes \in Nat
  BY DEF AuthInv, Shapes, Issued
<1>3. /\ a \in Account /\ a.v = account.v /\ a.code = NoCode /\ a.status = account.status
      /\ a.tries = account.tries /\ a.wrong = account.wrong /\ a.lockedNow = account.lockedNow
  BY <1>2, NoCodeIsCode DEF Account
<1> HIDE DEF a
<1>4. Shapes'
  BY <1>1, <1>3 DEF AuthInv, Shapes, CallShape
<1>5. AccountSound'
  BY <1>1, <1>3, NoCodeIsCode DEF AuthInv, AccountSound, LockOver
<1>6. CopiesSound'
  BY <1>1, <1>3 DEF AuthInv, CopiesSound, CopySound, LockOver
<1>7. CodesSound'
  BY <1>1, <1>2, <1>3, NoCodeIsCode DEF AuthInv, CodesSound, CodeSound, Unused
<1>8. SessionsSound'
  BY <1>1 DEF AuthInv, SessionsSound, TokenSound
<1> QED
  BY <1>4, <1>5, <1>6, <1>7, <1>8 DEF AuthInv

-----------------------------------------------------------------------------
\* The invariant holds of an account before any request.
LEMMA InitAuthInv == AuthInit => AuthInv
<1> SUFFICES ASSUME AuthInit PROVE AuthInv
  OBVIOUS
<1>1. /\ account.status = "active" /\ account.code = NoCode /\ ~account.lockedNow
      /\ account \in Account
  <2> DEFINE First == [status : {"active"}, wrong : {0}, lockedNow : {FALSE}, code : {NoCode},
                       tries : {0, MaxWrong}, first : BOOLEAN, reset : {FALSE}, v : {0}]
  <2>1. account \in First
    BY DEF AuthInit
  <2>2. MaxWrong \in 0..MaxWrong
    BY Numbers
  <2>3. PICK t \in {0, MaxWrong}, f \in BOOLEAN :
          account = [status |-> "active", wrong |-> 0, lockedNow |-> FALSE, code |-> NoCode,
                     tries |-> t, first |-> f, reset |-> FALSE, v |-> 0]
    BY <2>1
  <2>4. account \in Account
    BY <2>2, <2>3, NoCodeIsCode, Numbers DEF Account, Statuses
  <2> QED
    BY <2>3, <2>4
<1>2. /\ session \in [Sessions -> Session]
      /\ \A s \in Sessions : session[s].token = 0 /\ ~session[s].valid
  BY Numbers DEF AuthInit, Session
<1>3. /\ issued \in Issued /\ issued.codes = 0 /\ issued.tokens = 0
  BY Numbers DEF AuthInit, Issued
<1>4. /\ spent \in Spent /\ \A n \in 1..MaxCodes : spent.codes[n] = 0
      /\ \A s \in Sessions, t \in 1..MaxTokens : spent.tokens[s][t] = 0
  BY DEF AuthInit, Spent
<1>5. /\ DOMAIN call = Calls /\ call = [c \in Calls |-> call[c]]
      /\ \A c \in Calls : call[c] = NoCall /\ NoCall \in Resting
  BY DEF AuthInit, Resting
<1>6. Shapes
  BY <1>1, <1>2, <1>3, <1>4, <1>5, RestingRelyOnNothing DEF Shapes
<1>7. AccountSound
  BY <1>1, NoCodeIsCode DEF AccountSound, LockOver
<1>8. CopiesSound
  BY <1>5, RestingRelyOnNothing DEF CopiesSound
<1>9. CodesSound
  BY <1>1, <1>3, <1>4, <1>5, NoCodeIsCode, RestingRelyOnNothing DEF CodesSound, Unused
<1>10. SessionsSound
  BY <1>2, <1>3, <1>4, <1>5, RestingRelyOnNothing DEF SessionsSound
<1> QED
  BY <1>6, <1>7, <1>8, <1>9, <1>10 DEF AuthInv

\* Every action keeps the invariant.
LEMMA StepKeepsAuthInv == AuthInv /\ [AuthNext]_authVars => AuthInv'
<1> SUFFICES ASSUME AuthInv, [AuthNext]_authVars PROVE AuthInv'
  OBVIOUS
<1>1. ASSUME NEW c \in Calls, NEW do \in Requests, Start(c, do) PROVE AuthInv'
  BY <1>1, StartKeepsAuthInv
<1>2. ASSUME NEW c \in Calls, Unlock(c) \/ WrongPassword(c) \/ Lock(c) \/ RightPassword(c)
      PROVE  AuthInv'
  BY <1>2, UnlockKeepsAuthInv, WrongPasswordKeepsAuthInv, LockKeepsAuthInv, RightPasswordKeepsAuthInv
<1>3. ASSUME NEW c \in Calls,
             SendCode(c) \/ VerifyOTP(c) \/ VerifyActivationOTP(c) \/ ActivateChangePassword(c)
      PROVE  AuthInv'
  BY <1>3, SendCodeKeepsAuthInv, VerifyKeepsAuthInv, VerifyActivationKeepsAuthInv, ActivateKeepsAuthInv
<1>4. ASSUME NEW c \in Calls,
             ForgotPassword(c) \/ ResetPassword(c) \/ UpdateUserStatus(c) \/ CloseAll(c)
      PROVE  AuthInv'
  BY <1>4, ForgotKeepsAuthInv, ResetKeepsAuthInv, StatusKeepsAuthInv, CloseAllKeepsAuthInv
<1>5. ASSUME NEW c \in Calls, NEW token \in NewToken, Refresh(c, token) PROVE AuthInv'
  BY <1>5, RefreshKeepsAuthInv
<1>6. ASSUME NEW c \in Calls, NEW token \in NewToken, NEW s \in Sessions, OpenSession(c, s, token)
      PROVE  AuthInv'
  BY <1>6, OpenKeepsAuthInv
<1>7. ASSUME NEW c \in Calls, RefreshExpired(c) \/ RequestFails(c) PROVE AuthInv'
  BY <1>7, RefreshExpiredKeepsAuthInv, FailsKeepsAuthInv
<1>8. ASSUME NEW c \in Calls, NEW s \in Sessions, FindByToken(c, s) PROVE AuthInv'
  BY <1>8, FindKeepsAuthInv
<1>9. ASSUME NEW s \in Sessions, Logout(s) PROVE AuthInv'
  BY <1>9, LogoutKeepsAuthInv
<1>10. CASE LockRunsOut \/ CodeExpires
  BY <1>10, LockRunsOutKeepsAuthInv, CodeExpiresKeepsAuthInv
<1>11. CASE UNCHANGED authVars
  <2>1. UNCHANGED <<account, session, call, granted, issued, spent>>
    BY <1>11 DEF authVars
  <2>2. Shapes' /\ AccountSound'
    BY <2>1 DEF AuthInv, Shapes, CallShape, AccountSound, LockOver
  <2>3. CopiesSound' /\ CodesSound' /\ SessionsSound'
    BY <2>1 DEF AuthInv, CopiesSound, CopySound, CodesSound, CodeSound, Unused, SessionsSound,
       TokenSound, LockOver
  <2> QED
    BY <2>2, <2>3 DEF AuthInv
<1> QED
  BY <1>1, <1>2, <1>3, <1>4, <1>5, <1>6, <1>7, <1>8, <1>9, <1>10, <1>11 DEF AuthNext

\* AuthInv holds of every reachable state of an account and its sessions.
THEOREM AuthInvariant == AuthSpec => []AuthInv
  BY InitAuthInv, StepKeepsAuthInv, PTL DEF AuthSpec

\* An account is locked only after the last wrong password that is allowed, and
\* an activation code that met the last wrong answer is gone.
THEOREM WrongAnswersCount == AuthSpec => []AuthTypeOK
<1>1. AuthInv => AuthTypeOK
  BY DEF AuthInv, Shapes, Account, Session, Codes, AccountSound, AuthTypeOK, Statuses
<1> QED
  BY <1>1, AuthInvariant, PTL

\* A refresh token is exchanged at most once in a session, and a one-time code
\* accepted at most once, by any number of overlapping requests.
THEOREM TokensAreSingleUse == AuthSpec => []AcceptedOnce
<1>1. AuthInv => AcceptedOnce
  <2> SUFFICES ASSUME AuthInv PROVE AcceptedOnce
    OBVIOUS
  <2>1. spent.codes \in [1..MaxCodes -> {0, 1}] /\ spent.tokens \in [Sessions -> [1..MaxTokens -> {0, 1}]]
    BY DEF AuthInv, Shapes, Spent
  <2>2. ASSUME NEW s \in Sessions, NEW t \in 1..MaxTokens PROVE spent.tokens[s][t] <= 1
    <3>1. spent.tokens[s][t] \in {0, 1}
      BY <2>1
    <3> QED
      BY <3>1
  <2>3. ASSUME NEW n \in 1..MaxCodes PROVE spent.codes[n] <= 1
    <3>1. spent.codes[n] \in {0, 1}
      BY <2>1
    <3> QED
      BY <3>1
  <2> QED
    BY <2>2, <2>3 DEF AcceptedOnce
<1> QED
  BY <1>1, AuthInvariant, PTL

\* No step opens a closed session again.
THEOREM ClosedSessionsStayClosed == AuthSpec => ClosedStaysClosed
<1> DEFINE Stays == \A s \in Sessions : session[s].token # 0 /\ ~session[s].valid => ~session'[s].valid
<1>1. AuthInv /\ [AuthNext]_authVars => [Stays]_authVars
  <2> SUFFICES ASSUME AuthInv, AuthNext, NEW s \in Sessions, session[s].token # 0, ~session[s].valid
               PROVE  ~session'[s].valid
    BY DEF authVars
  <2>1. session \in [Sessions -> Session]
    BY DEF AuthInv, Shapes
  <2>2. CASE session' = session \/ session' = AllClosed
    BY <2>1, <2>2 DEF AllClosed, Session
  <2>3. ASSUME NEW c \in Calls, NEW token, Refresh(c, token) PROVE ~session'[s].valid
    <3>1. call[c].on \in Sessions
      BY <2>3, RefreshInHand DEF Refresh
    <3> QED
      BY <2>1, <2>3, <3>1 DEF Refresh, Rotated, Session
  <2>4. ASSUME NEW c \in Calls, RefreshExpired(c) PROVE ~session'[s].valid
    BY <2>1, <2>4 DEF RefreshExpired, Session
  <2>5. ASSUME NEW c \in Calls, NEW t \in Sessions, NEW token, OpenSession(c, t, token)
        PROVE  ~session'[s].valid
    BY <2>1, <2>5 DEF OpenSession, Session
  <2>6. ASSUME NEW t \in Sessions, Logout(t) PROVE ~session'[s].valid
    BY <2>1, <2>6 DEF Logout, Session
  <2> QED
    BY <2>2, <2>3, <2>4, <2>5, <2>6 DEF AuthNext, Start, Unlock, WrongPassword, Lock, RightPassword,
       SendCode, VerifyOTP, VerifyActivationOTP, ActivateChangePassword, ForgotPassword,
       ResetPassword, UpdateUserStatus, CloseAll, FindByToken, LockRunsOut, CodeExpires, RequestFails
<1>2. AuthSpec => [][Stays]_authVars
  BY <1>1, AuthInvariant, PTL DEF AuthSpec
<1> QED
  BY <1>2 DEF ClosedStaysClosed

-----------------------------------------------------------------------------
(***************************************************************************)
(* Proofs about StaffLinks, for any staff, accounts, branches and requests *)
(* under way: the unique index makes up for checks that are out of date,   *)
(* and what never asks the index (a soft delete, an unlinking) shares no   *)
(* account.                                                                *)
(***************************************************************************)


Profile == [exists : BOOLEAN, deleted : BOOLEAN, user : Accounts \cup {NoUser}]

\* Requests that will write a link name a member of staff and an account, or none.
RequestsName ==
  \A r \in underWay :
    /\ r.do \in {"create", "link", "update", "delete"} => r.on \in Staff
    /\ r.do \in {"create", "link", "update"} => r.user \in Accounts \cup {NoUser}

LinkInv ==
  /\ profile \in [Staff -> Profile]
  /\ RequestsName
  /\ OneProfilePerUser

\* The invariant holds before any profile is made.
LEMMA InitLinkInv == StaffInit => LinkInv
  BY DEF StaffInit, LinkInv, Profile, NoProfile, RequestsName, OneProfilePerUser, Live

\* What the index admits has no shared account.
LEMMA AdmittedIsOnePerUser ==
  ASSUME IndexAllows(profile')
  PROVE  OneProfilePerUser'
  BY DEF IndexAllows, OneProfilePerUser, Live

\* A request begins: the documents stay.
LEMMA AskKeepsLinkInv ==
  ASSUME LinkInv, NEW request, Ask(request),
         request.do \in {"create", "link", "update", "delete"} => request.on \in Staff,
         request.do \in {"create", "link", "update"} => request.user \in Accounts \cup {NoUser}
  PROVE  LinkInv'
<1>1. profile' = profile /\ underWay' = underWay \cup {request}
  BY DEF Ask
<1>2. RequestsName'
  BY <1>1 DEF LinkInv, RequestsName
<1> QED
  BY <1>1, <1>2 DEF LinkInv, OneProfilePerUser, Live

\* A request writes what the index admits, or ends without effect.
LEMMA StoreKeepsLinkInv ==
  ASSUME LinkInv, NEW r \in underWay, NEW newProfile \in [Staff -> Profile],
         NEW newPosting, NEW newUser, Store(r, newProfile, newPosting, newUser)
  PROVE  LinkInv'
<1>1. underWay' = underWay \ {r}
  BY DEF Store
<1>2. RequestsName'
  BY <1>1 DEF LinkInv, RequestsName
<1>3. CASE IndexAllows(newProfile)
  <2>1. profile' = newProfile
    BY <1>3 DEF Store
  <2> QED
    BY <1>2, <1>3, <2>1, AdmittedIsOnePerUser DEF LinkInv
<1>4. CASE ~IndexAllows(newProfile)
  <2>1. profile' = profile
    BY <1>4 DEF Store
  <2> QED
    BY <1>2, <2>1 DEF LinkInv, OneProfilePerUser, Live
<1> QED
  BY <1>3, <1>4

\* Setting the link of one member of staff keeps the shape of the documents.
LEMMA LinkedProfile ==
  ASSUME LinkInv, NEW s \in Staff, NEW u \in Accounts \cup {NoUser}
  PROVE  [profile EXCEPT ![s].user = u] \in [Staff -> Profile]
  BY DEF LinkInv, Profile

\* Every action keeps the invariant.
LEMMA NextLinkInv == LinkInv /\ [StaffNext]_staffVars => LinkInv'
<1> SUFFICES ASSUME LinkInv, [StaffNext]_staffVars PROVE LinkInv'
  OBVIOUS
<1>1. CASE UNCHANGED staffVars
  BY <1>1 DEF staffVars, LinkInv, RequestsName, OneProfilePerUser, Live
<1>2. CASE profile' = profile /\ underWay' = underWay
  BY <1>2 DEF LinkInv, RequestsName, OneProfilePerUser, Live
<1>3. ASSUME NEW s \in Staff, NEW u \in Accounts \cup {NoUser},
             \/ \E b \in Branches \cup {NoBranch} : CreateStaff(s, u, b)
             \/ LinkUser(s, u)
             \/ \E closes \in BOOLEAN : UpdateStaff(s, u, closes)
      PROVE  LinkInv'
  BY <1>3, AskKeepsLinkInv DEF CreateStaff, LinkUser, UpdateStaff
<1>4. ASSUME NEW s \in Staff, NEW b \in Branches, NEW primary \in BOOLEAN,
             AssignBranch(s, b, primary)
      PROVE  LinkInv'
  BY <1>4, AskKeepsLinkInv DEF AssignBranch
<1>5. ASSUME NEW u \in Accounts, NEW access \in SUBSET Branches, UpdateUser(u, access)
      PROVE  LinkInv'
  BY <1>5, AskKeepsLinkInv DEF UpdateUser
<1>6. ASSUME NEW s \in Staff, DeleteStaff(s) PROVE LinkInv'
  <2>1. /\ profile' = [profile EXCEPT ![s].deleted = TRUE]
        /\ underWay' = underWay \cup {[do |-> "delete", on |-> s]}
    BY <1>6 DEF DeleteStaff
  <2>2. profile' \in [Staff -> Profile]
    BY <2>1 DEF LinkInv, Profile
  <2>3. RequestsName'
    BY <2>1 DEF LinkInv, RequestsName
  <2>4. \A t \in Staff : Live(t)' => Live(t) /\ profile'[t] = profile[t]
    BY <2>1 DEF LinkInv, Live, Profile
  <2> QED
    BY <2>2, <2>3, <2>4 DEF LinkInv, OneProfilePerUser
<1>7. ASSUME NEW s \in Staff, UnlinkUser(s) PROVE LinkInv'
  <2>1. profile' = [profile EXCEPT ![s].user = NoUser] /\ underWay' = underWay
    BY <1>7 DEF UnlinkUser
  <2>2. profile' \in [Staff -> Profile]
    BY <2>1, LinkedProfile
  <2>3. \A t \in Staff : /\ Live(t)' => Live(t)
                         /\ profile'[t].user \in {profile[t].user, NoUser}
    BY <2>1 DEF LinkInv, Live, Profile
  <2> QED
    BY <2>1, <2>2, <2>3 DEF LinkInv, RequestsName, OneProfilePerUser
<1>8. ASSUME NEW s \in Staff, RestoreStaff(s) PROVE LinkInv'
  <2>1. /\ profile' = [profile EXCEPT ![s].deleted = FALSE] /\ underWay' = underWay
        /\ IndexAllows(profile')
    BY <1>8 DEF RestoreStaff
  <2>2. profile' \in [Staff -> Profile]
    BY <2>1 DEF LinkInv, Profile
  <2> QED
    BY <2>1, <2>2, AdmittedIsOnePerUser DEF LinkInv, RequestsName
<1>9. ASSUME NEW r \in underWay, Create(r) PROVE LinkInv'
  <2>1. r.on \in Staff /\ r.user \in Accounts \cup {NoUser}
    BY <1>9 DEF Create, LinkInv, RequestsName
  <2>2. [profile EXCEPT ![r.on] = [NoProfile EXCEPT !.exists = TRUE, !.user = r.user]]
          \in [Staff -> Profile]
    BY <2>1 DEF LinkInv, Profile, NoProfile
  <2> QED
    BY <1>9, <2>2, StoreKeepsLinkInv DEF Create
<1>10. ASSUME NEW r \in underWay, Link(r) \/ Update(r) PROVE LinkInv'
  <2>1. r.on \in Staff /\ r.user \in Accounts \cup {NoUser}
    BY <1>10 DEF Link, Update, LinkInv, RequestsName
  <2> QED
    BY <1>10, <2>1, LinkedProfile, StoreKeepsLinkInv DEF Link, Update
<1>11. ASSUME NEW r \in underWay, Assign(r) \/ Delete(r) \/ Access(r) PROVE LinkInv'
  <2>1. profile \in [Staff -> Profile]
    BY DEF LinkInv
  <2> QED
    BY <1>11, <2>1, StoreKeepsLinkInv DEF Assign, Delete, Access
<1>12. ASSUME NEW s \in Staff, NEW i \in DOMAIN posting[s], RemoveBranch(s, i) PROVE LinkInv'
  BY <1>2, <1>12 DEF RemoveBranch
<1>13. ASSUME NEW u \in Accounts, NEW active \in BOOLEAN, ChangeUserStatus(u, active)
       PROVE  LinkInv'
  BY <1>2, <1>13 DEF ChangeUserStatus
<1> QED
  BY <1>1, <1>3, <1>4, <1>5, <1>6, <1>7, <1>8, <1>9, <1>10, <1>11, <1>12, <1>13 DEF StaffNext

\* No account ever belongs to two live members of staff, whichever requests
\* overlap, and whoever is deleted and restored in between.
THEOREM AccountsAreNotShared == StaffSpec => []OneProfilePerUser
<1>1. LinkInv => OneProfilePerUser
  BY DEF LinkInv
<1> QED
  BY <1>1, InitLinkInv, NextLinkInv, PTL DEF StaffSpec

-----------------------------------------------------------------------------
(* The branches of a member of staff.                                       *)

Assignment == [branch : Branches, primary : BOOLEAN]

\* No branch twice, and one of them primary.
Distinct(q) == \A i, j \in DOMAIN q : q[i].branch = q[j].branch => i = j
Sole(q) ==
  q # <<>> => \E i \in DOMAIN q : /\ q[i].primary = TRUE
                                  /\ \A j \in DOMAIN q \ {i} : q[j].primary = FALSE

Orderly(q) == q \in Seq(Assignment) /\ Distinct(q) /\ Sole(q)

\* A request about to assign a branch names one that the member does not have:
\* as long as it is under way nobody else changes the assignments.
RequestsFit ==
  /\ \A q, r \in underWay : q.on = r.on => q = r
  /\ \A r \in underWay :
       /\ r.do = "create" => r.branch \in Branches \cup {NoBranch}
       /\ r.do = "assign" => /\ r.on \in Staff /\ r.primary \in BOOLEAN
                             /\ r.branch \in Branches \ BranchesOf(r.on)

PostingInv ==
  /\ posting = [s \in Staff |-> posting[s]]
  /\ \A s \in Staff : Orderly(posting[s])
  /\ RequestsFit

\* The branches of an orderly list are those at its positions.
LEMMA BranchAt ==
  ASSUME NEW s, NEW q \in Seq(Assignment), posting[s] = q
  PROVE  BranchesOf(s) = {q[i].branch : i \in DOMAIN q}
  BY DEF BranchesOf, ToSet

\* An assignment added at the end keeps the list orderly.
LEMMA WithPostingIsOrderly ==
  ASSUME NEW q, Orderly(q), NEW b \in Branches, \A i \in DOMAIN q : q[i].branch # b,
         NEW primary \in BOOLEAN
  PROVE  Orderly(WithPosting(q, b, primary))
<1> DEFINE first == primary \/ q = <<>>
           rest == IF first THEN [i \in DOMAIN q |-> [q[i] EXCEPT !.primary = FALSE]] ELSE q
           x == [branch |-> b, primary |-> first]
           n == Len(q)
<1>1. q \in Seq(Assignment) /\ Distinct(q) /\ Sole(q) /\ n \in Nat /\ DOMAIN q = 1..n
  BY DEF Orderly
<1>2. first \in BOOLEAN /\ x \in Assignment /\ x.branch = b /\ x.primary = first
  BY DEF Assignment
<1>3. /\ rest \in Seq(Assignment) /\ Len(rest) = n /\ DOMAIN rest = 1..n
      /\ \A i \in 1..n : /\ rest[i].branch = q[i].branch
                         /\ rest[i].primary = (IF first THEN FALSE ELSE q[i].primary)
  <2>1. CASE first
    <3>1. ASSUME NEW i \in 1..n
          PROVE  /\ [q[i] EXCEPT !.primary = FALSE] \in Assignment
                 /\ [q[i] EXCEPT !.primary = FALSE].branch = q[i].branch
                 /\ [q[i] EXCEPT !.primary = FALSE].primary = FALSE
      <4>1. q[i] \in Assignment
        BY <1>1
      <4> QED
        BY <4>1 DEF Assignment
    <3>2. rest = [i \in 1..n |-> [q[i] EXCEPT !.primary = FALSE]]
      BY <1>1, <2>1
    <3> HIDE DEF rest
    <3>3. rest \in [1..n -> Assignment] /\ \A i \in 1..n : rest[i] = [q[i] EXCEPT !.primary = FALSE]
      BY <3>1, <3>2
    <3>4. rest \in Seq(Assignment) /\ Len(rest) = n /\ DOMAIN rest = 1..n
      BY <1>1, <3>3
    <3> QED
      BY <2>1, <3>1, <3>3, <3>4
  <2>2. CASE ~first
    BY <1>1, <2>2
  <2> QED
    BY <2>1, <2>2
<1>4. WithPosting(q, b, primary) = Append(rest, x)
  BY DEF WithPosting
<1> HIDE DEF rest, x
<1>5. /\ Append(rest, x) \in Seq(Assignment) /\ DOMAIN Append(rest, x) = 1..(n + 1)
      /\ Append(rest, x)[n + 1] = x
      /\ \A i \in 1..n : Append(rest, x)[i] = rest[i]
  BY <1>1, <1>2, <1>3
<1> DEFINE new == Append(rest, x)
<1> HIDE DEF new
<1>6. Distinct(new)
  <2> SUFFICES ASSUME NEW i \in 1..(n + 1), NEW j \in 1..(n + 1), new[i].branch = new[j].branch
               PROVE  i = j
    BY <1>5 DEF Distinct, new
  <2>1. \A k \in 1..n : new[k].branch = q[k].branch /\ q[k].branch # b
    BY <1>1, <1>3, <1>5 DEF new
  <2>2. new[n + 1].branch = b
    BY <1>2, <1>5 DEF new
  <2> QED
    BY <1>1, <2>1, <2>2 DEF Distinct
<1>7. Sole(new)
  <2>1. CASE first
    <3>1. new[n + 1].primary = TRUE /\ \A j \in 1..n : new[j].primary = FALSE
      BY <1>2, <1>3, <1>5, <2>1 DEF new
    <3> QED
      BY <1>1, <1>5, <3>1 DEF Sole, new
  <2>2. CASE ~first
    <3>1. PICK i \in 1..n : q[i].primary = TRUE /\ \A j \in (1..n) \ {i} : q[j].primary = FALSE
      BY <1>1, <2>2 DEF Sole
    <3>2. new[n + 1].primary = FALSE /\ \A j \in 1..n : new[j].primary = q[j].primary
      BY <1>2, <1>3, <1>5, <2>2 DEF new
    <3>3. i \in 1..(n + 1) /\ \A j \in (1..(n + 1)) \ {i} : j = n + 1 \/ j \in (1..n) \ {i}
      BY <1>1, <3>1
    <3> QED
      BY <1>5, <3>1, <3>2, <3>3 DEF Sole, new
  <2> QED
    BY <2>1, <2>2
<1> QED
  BY <1>4, <1>5, <1>6, <1>7 DEF Orderly, new

\* Without one of them, the list is orderly still: the oldest one left takes the
\* place of the primary one.
LEMMA WithoutPostingIsOrderly ==
  ASSUME NEW q, Orderly(q), NEW i \in DOMAIN q
  PROVE  Orderly(WithoutPosting(q, i))
<1> DEFINE n == Len(q)
           rest == RemoveAt(q, i)
           new == WithoutPosting(q, i)
           At(j) == IF j < i THEN j ELSE j + 1
<1>1. q \in Seq(Assignment) /\ Distinct(q) /\ Sole(q) /\ n \in Nat /\ DOMAIN q = 1..n /\ i \in 1..n
  BY DEF Orderly
<1>2. /\ rest \in Seq(Assignment) /\ Len(rest) = n - 1 /\ DOMAIN rest = 1..(n - 1)
      /\ \A j \in 1..(n - 1) : At(j) \in 1..n /\ At(j) # i /\ rest[j] = q[At(j)]
  <2> HIDE DEF rest, n
  <2>1. /\ rest \in Seq(Assignment) /\ Len(rest) = n - 1
        /\ \A j \in 1..(n - 1) : rest[j] = IF j < i THEN q[j] ELSE q[j + 1]
    BY <1>1, RemovedAt DEF rest, n
  <2> QED
    BY <1>1, <2>1
<1>3. \A j, k \in 1..(n - 1) : At(j) = At(k) => j = k
  BY <1>1
<1>4. ASSUME NEW m \in 1..n, m # i PROVE \E j \in 1..(n - 1) : At(j) = m
  <2>1. CASE m < i
    BY <1>1, <2>1
  <2>2. CASE m > i
    <3>1. m - 1 \in 1..(n - 1) /\ At(m - 1) = m
      BY <1>1, <2>2
    <3> QED
      BY <3>1
  <2> QED
    BY <1>1, <1>4, <2>1, <2>2
<1> HIDE DEF At, rest
<1>5. PICK k \in 1..n : q[k].primary = TRUE /\ \A j \in (1..n) \ {k} : q[j].primary = FALSE
  <2>1. q # <<>>
    BY <1>1
  <2> QED
    BY <1>1, <2>1 DEF Sole
<1>6. \A j \in DOMAIN rest : rest[j] \in Assignment
  BY <1>2
<1>7. CASE ~(q[i].primary /\ rest # <<>>)
  <2>1. new = rest
    BY <1>7 DEF WithoutPosting, rest
  <2>2. Distinct(rest)
    <3> SUFFICES ASSUME NEW j \in 1..(n - 1), NEW m \in 1..(n - 1), rest[j].branch = rest[m].branch
                 PROVE  j = m
      BY <1>2 DEF Distinct
    <3>1. q[At(j)].branch = q[At(m)].branch /\ At(j) \in 1..n /\ At(m) \in 1..n
      BY <1>2
    <3> QED
      BY <1>1, <1>3, <3>1 DEF Distinct
  <2>3. Sole(rest)
    <3> SUFFICES ASSUME rest # <<>> PROVE Sole(rest)
      BY DEF Sole
    <3>1. k # i
      BY <1>1, <1>5, <1>7
    <3>2. PICK j \in 1..(n - 1) : At(j) = k
      BY <1>4, <3>1
    <3>3. rest[j].primary = TRUE /\ \A m \in (1..(n - 1)) \ {j} : rest[m].primary = FALSE
      BY <1>2, <1>3, <1>5, <3>2
    <3> QED
      BY <1>2, <3>3 DEF Sole
  <2> QED
    BY <1>2, <2>1, <2>2, <2>3 DEF Orderly
<1>8. CASE q[i].primary /\ rest # <<>>
  <2> DEFINE x == [rest[1] EXCEPT !.primary = TRUE]
  <2>1. new = [rest EXCEPT ![1] = x]
    BY <1>8 DEF WithoutPosting, rest
  <2>2. 1 \in 1..(n - 1)
    <3>1. n - 1 # 0
      BY <1>2, <1>8
    <3> QED
      BY <1>1, <3>1
  <2>3. x \in Assignment /\ x.branch = rest[1].branch /\ x.primary = TRUE
    BY <1>2, <1>6, <2>2 DEF Assignment
  <2> HIDE DEF x, new
  <2>4. /\ new \in Seq(Assignment) /\ DOMAIN new = 1..(n - 1) /\ new[1] = x
        /\ \A j \in 1..(n - 1) : j # 1 => new[j] = rest[j]
    BY <1>2, <2>1, <2>2, <2>3
  <2>5. \A j \in 1..(n - 1) : new[j].branch = q[At(j)].branch /\ At(j) \in 1..n
    BY <1>2, <2>3, <2>4
  <2>6. Distinct(new)
    <3> SUFFICES ASSUME NEW j \in 1..(n - 1), NEW m \in 1..(n - 1), new[j].branch = new[m].branch
                 PROVE  j = m
      BY <2>4 DEF Distinct
    <3> QED
      BY <1>1, <1>3, <2>5 DEF Distinct
  <2>7. Sole(new)
    <3>1. k = i
      BY <1>1, <1>5, <1>8
    <3>2. new[1].primary = TRUE /\ \A j \in (1..(n - 1)) \ {1} : new[j].primary = FALSE
      BY <1>2, <1>5, <2>2, <2>3, <2>4, <3>1
    <3> QED
      BY <2>2, <2>4, <3>2 DEF Sole
  <2> QED
    BY <2>4, <2>6, <2>7 DEF Orderly, new
<1> QED
  BY <1>7, <1>8

\* At first nobody is posted, and nobody asks.
LEMMA InitPostingInv == StaffInit => PostingInv
<1> SUFFICES ASSUME StaffInit PROVE PostingInv
  OBVIOUS
<1>1. Orderly(<<>>)
  BY DEF Orderly, Distinct, Sole
<1> QED
  BY <1>1 DEF StaffInit, PostingInv, RequestsFit

\* Requests that name nothing about branches may begin and end at any time.
LEMMA AskKeepsPostingInv ==
  ASSUME PostingInv, NEW request, Ask(request),
         request.do = "create" => request.branch \in Branches \cup {NoBranch},
         request.do = "assign" => /\ request.on \in Staff /\ request.primary \in BOOLEAN
                                  /\ request.branch \in Branches \ BranchesOf(request.on)
  PROVE  PostingInv'
<1>1. /\ posting' = posting /\ underWay' = underWay \cup {request}
      /\ \A r \in underWay : r.on # request.on
  BY DEF Ask
<1>2. \A s : BranchesOf(s)' = BranchesOf(s)
  BY <1>1 DEF BranchesOf
<1>3. RequestsFit'
  BY <1>1, <1>2 DEF PostingInv, RequestsFit
<1> QED
  BY <1>1, <1>3 DEF PostingInv

\* When the assignments of one member change, the requests about others still fit.
LEMMA OneListChanges ==
  ASSUME PostingInv, NEW s \in Staff, NEW q, Orderly(q), posting' = [posting EXCEPT ![s] = q],
         underWay' \subseteq underWay, \A r \in underWay' : r.on # s
  PROVE  PostingInv'
<1>1. /\ posting'[s] = q /\ posting' = [t \in Staff |-> posting'[t]]
      /\ \A t \in Staff \ {s} : posting'[t] = posting[t]
  BY DEF PostingInv
<1>2. \A t \in Staff : Orderly(posting'[t])
  BY <1>1 DEF PostingInv
<1>3. \A t \in Staff \ {s} : BranchesOf(t)' = BranchesOf(t)
  BY <1>1 DEF BranchesOf
<1>4. RequestsFit'
  BY <1>3 DEF PostingInv, RequestsFit
<1> QED
  BY <1>1, <1>2, <1>4 DEF PostingInv

\* A request that leaves the assignments alone ends.
LEMMA EndKeepsPostingInv ==
  ASSUME PostingInv, posting' = posting, underWay' \subseteq underWay
  PROVE  PostingInv'
<1>1. \A s : BranchesOf(s)' = BranchesOf(s)
  BY DEF BranchesOf
<1>2. RequestsFit'
  BY <1>1 DEF PostingInv, RequestsFit
<1> QED
  BY <1>2 DEF PostingInv

\* A request stores an orderly list for the member it is about, or changes nothing.
LEMMA StoreKeepsPostingInv ==
  ASSUME PostingInv, NEW r \in underWay, r.on \in Staff, NEW q, Orderly(q),
         NEW newProfile, NEW newUser,
         Store(r, newProfile, [posting EXCEPT ![r.on] = q], newUser)
  PROVE  PostingInv'
<1>1. underWay' = underWay \ {r}
  BY DEF Store
<1>2. \A o \in underWay' : o.on # r.on
  BY <1>1 DEF PostingInv, RequestsFit
<1>3. posting' = [posting EXCEPT ![r.on] = q] \/ posting' = posting
  BY DEF Store
<1> QED
  BY <1>1, <1>2, <1>3, OneListChanges, EndKeepsPostingInv

\* Every action keeps the assignments in order.
LEMMA NextPostingInv == LinkInv /\ PostingInv /\ [StaffNext]_staffVars => PostingInv'
<1> SUFFICES ASSUME LinkInv, PostingInv, [StaffNext]_staffVars PROVE PostingInv'
  OBVIOUS
<1>1. CASE UNCHANGED staffVars
  BY <1>1, EndKeepsPostingInv DEF staffVars
<1>2. ASSUME NEW s \in Staff, NEW u \in Accounts \cup {NoUser},
             \/ \E b \in Branches \cup {NoBranch} : CreateStaff(s, u, b)
             \/ LinkUser(s, u)
             \/ \E closes \in BOOLEAN : UpdateStaff(s, u, closes)
      PROVE  PostingInv'
  BY <1>2, AskKeepsPostingInv DEF CreateStaff, LinkUser, UpdateStaff
<1>3. ASSUME NEW s \in Staff, NEW b \in Branches, NEW primary \in BOOLEAN,
             AssignBranch(s, b, primary)
      PROVE  PostingInv'
  BY <1>3, AskKeepsPostingInv DEF AssignBranch
<1>4. ASSUME NEW u \in Accounts, NEW access \in SUBSET Branches, UpdateUser(u, access)
      PROVE  PostingInv'
  BY <1>4, AskKeepsPostingInv DEF UpdateUser
<1>5. ASSUME NEW s \in Staff, DeleteStaff(s) PROVE PostingInv'
  <2>1. /\ posting' = posting /\ underWay' = underWay \cup {[do |-> "delete", on |-> s]}
        /\ \A r \in underWay : r.on # s
    BY <1>5 DEF DeleteStaff, Free
  <2>2. \A t : BranchesOf(t)' = BranchesOf(t)
    BY <2>1 DEF BranchesOf
  <2>3. RequestsFit'
    BY <2>1, <2>2 DEF PostingInv, RequestsFit
  <2> QED
    BY <2>1, <2>3 DEF PostingInv
<1>6. ASSUME NEW s \in Staff, UnlinkUser(s) \/ RestoreStaff(s) PROVE PostingInv'
  BY <1>6, EndKeepsPostingInv DEF UnlinkUser, RestoreStaff
<1>7. ASSUME NEW u \in Accounts, NEW active \in BOOLEAN, ChangeUserStatus(u, active)
      PROVE  PostingInv'
  BY <1>7, EndKeepsPostingInv DEF ChangeUserStatus
<1>8. ASSUME NEW s \in Staff, NEW i \in DOMAIN posting[s], RemoveBranch(s, i) PROVE PostingInv'
  <2>1. /\ posting' = [posting EXCEPT ![s] = WithoutPosting(posting[s], i)]
        /\ underWay' = underWay /\ \A r \in underWay : r.on # s
    BY <1>8 DEF RemoveBranch, Free
  <2>2. Orderly(WithoutPosting(posting[s], i))
    BY WithoutPostingIsOrderly DEF PostingInv
  <2> QED
    BY <2>1, <2>2, OneListChanges
<1>9. ASSUME NEW r \in underWay, Link(r) \/ Update(r) \/ Access(r) PROVE PostingInv'
  BY <1>9, EndKeepsPostingInv DEF Link, Update, Access, Store
<1>10. ASSUME NEW r \in underWay, Create(r) PROVE PostingInv'
  <2>1. r.on \in Staff /\ r.branch \in Branches \cup {NoBranch}
    BY <1>10 DEF Create, LinkInv, RequestsName, PostingInv, RequestsFit
  <2>2. CASE r.branch = NoBranch
    BY <1>10, <2>2, EndKeepsPostingInv DEF Create, Store
  <2>3. CASE r.branch # NoBranch
    <3> DEFINE q == <<[branch |-> r.branch, primary |-> TRUE]>>
    <3>1. Orderly(q)
      BY <2>1, <2>3 DEF Orderly, Distinct, Sole, Assignment
    <3>2. \E newProfile, newUser : Store(r, newProfile, [posting EXCEPT ![r.on] = q], newUser)
      BY <1>10, <2>3 DEF Create
    <3> HIDE DEF q
    <3> QED
      BY <2>1, <3>1, <3>2, StoreKeepsPostingInv
  <2> QED
    BY <2>2, <2>3
<1>11. ASSUME NEW r \in underWay, Assign(r) PROVE PostingInv'
  <2> DEFINE old == posting[r.on]
             q == WithPosting(old, r.branch, r.primary)
  <2>1. r.on \in Staff /\ r.primary \in BOOLEAN /\ r.branch \in Branches \ BranchesOf(r.on)
    BY <1>11 DEF Assign, PostingInv, RequestsFit
  <2>2. Orderly(old) /\ old \in Seq(Assignment)
    BY <2>1 DEF PostingInv, Orderly
  <2>3. \A i \in DOMAIN old : old[i].branch # r.branch
    BY <2>1, <2>2, BranchAt
  <2>4. Orderly(q)
    <3> HIDE DEF old
    <3> QED
      BY <2>1, <2>2, <2>3, WithPostingIsOrderly
  <2>5. Store(r, profile, [posting EXCEPT ![r.on] = q], user)
    BY <1>11 DEF Assign
  <2> HIDE DEF q
  <2> QED
    BY <2>1, <2>4, <2>5, StoreKeepsPostingInv
<1>12. ASSUME NEW r \in underWay, Delete(r) PROVE PostingInv'
  <2>1. r.on \in Staff
    BY <1>12 DEF Delete, LinkInv, RequestsName
  <2>2. CASE Store(r, profile, posting, user)
    BY <2>2, EndKeepsPostingInv DEF Store
  <2>3. CASE Store(r, profile, [posting EXCEPT ![r.on] = <<>>], Deactivated(profile[r.on].user))
    <3>1. Orderly(<<>>)
      BY DEF Orderly, Distinct, Sole
    <3> QED
      BY <2>1, <2>3, <3>1, StoreKeepsPostingInv
  <2> QED
    BY <1>12, <2>2, <2>3 DEF Delete
<1> QED
  BY <1>1, <1>2, <1>3, <1>4, <1>5, <1>6, <1>7, <1>8, <1>9, <1>10, <1>11, <1>12 DEF StaffNext

\* Every member of staff who has branches has exactly one primary branch and none
\* twice, whatever was assigned, removed, deleted and restored, in any order.
THEOREM OnePrimaryBranch == StaffSpec => []StaffTypeOK
<1>1. LinkInv /\ PostingInv => StaffTypeOK
  <2> SUFFICES ASSUME LinkInv, PostingInv, NEW s \in Staff
               PROVE  /\ profile[s].user \in Accounts \cup {NoUser}
                      /\ Distinct(posting[s])
                      /\ posting[s] # <<>> =>
                           \E i \in DOMAIN posting[s] :
                             \A j \in DOMAIN posting[s] : posting[s][j].primary <=> j = i
    BY DEF StaffTypeOK, Distinct
  <2>1. profile[s].user \in Accounts \cup {NoUser}
    BY DEF LinkInv, Profile
  <2>2. Distinct(posting[s]) /\ Sole(posting[s])
    BY DEF PostingInv, Orderly
  <2>3. ASSUME posting[s] # <<>>
        PROVE  \E i \in DOMAIN posting[s] :
                 \A j \in DOMAIN posting[s] : posting[s][j].primary <=> j = i
    <3>1. PICK i \in DOMAIN posting[s] :
                 /\ posting[s][i].primary = TRUE
                 /\ \A j \in DOMAIN posting[s] \ {i} : posting[s][j].primary = FALSE
      BY <2>2, <2>3 DEF Sole
    <3> QED
      BY <3>1
  <2> QED
    BY <2>1, <2>2, <2>3
<1> QED
  BY <1>1, InitLinkInv, NextLinkInv, InitPostingInv, NextPostingInv, PTL DEF StaffSpec
=============================================================================
