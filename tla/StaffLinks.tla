------------------------------- MODULE StaffLinks -------------------------------
(***************************************************************************)
(* Members of staff, the user accounts they are linked to and the branches *)
(* they are assigned to: staff.service.js, with updateUser of              *)
(* user.controller.js.  A request reads and checks, and later writes: its  *)
(* transaction does not protect what it has only read.  Requests about     *)
(* different documents overlap freely; one member of staff, and one        *)
(* account, has at most one request under way.                             *)
(***************************************************************************)
EXTENDS Integers, SequencesExt

CONSTANTS
  Staff, Accounts, Branches,
  NoUser, NoBranch,
  MaxUnderWay          \* bound on the requests under way

ASSUME StaffAssumption ==
  /\ MaxUnderWay \in Nat
  /\ NoUser \notin Accounts /\ NoBranch \notin Branches

VARIABLES
  profile,     \* staff documents
  posting,     \* active branch assignments of each, oldest first
  user,        \* user accounts: whether active, and the branches they may act for
  underWay     \* requests that have made their checks

staffVars == <<profile, posting, user, underWay>>

NoProfile == [exists |-> FALSE, deleted |-> FALSE, user |-> NoUser]

StaffInit ==
  /\ profile = [s \in Staff |-> NoProfile]
  /\ posting = [s \in Staff |-> <<>>]
  /\ user \in [Accounts -> [active : {TRUE}, access : SUBSET Branches]]
  /\ underWay = {}

Live(s) == profile[s].exists /\ ~profile[s].deleted

\* findOne({userId, isDeleted: false}) finds nobody but s.
LinkedToNoOther(u, s) == \A t \in Staff \ {s} : Live(t) => profile[t].user # u

BranchesOf(s) == {p.branch : p \in ToSet(posting[s])}

\* assertStaffBranchSubsetOfUserAccess
Within(branches, access) == branches \subseteq access

\* Mutant of IndexAllows: there is no unique index.
IndexMissing(new) == TRUE

\* The partial unique index on organizationId and userId.
IndexAllows(new) ==
  \A s, t \in Staff :
    s # t /\ new[s].exists /\ new[t].exists /\ ~new[s].deleted /\ ~new[t].deleted
      /\ new[s].user # NoUser => new[s].user # new[t].user

Ask(request) ==
  /\ \A r \in underWay : r.on # request.on
  /\ Cardinality(underWay) < MaxUnderWay
  /\ underWay' = underWay \cup {request}
  /\ UNCHANGED <<profile, posting, user>>

Free(x) == \A r \in underWay : r.on # x

\* A write that the index refuses ends its request with nothing changed.
Store(request, newProfile, newPosting, newUser) ==
  /\ underWay' = underWay \ {request}
  /\ IF IndexAllows(newProfile)
       THEN profile' = newProfile /\ posting' = newPosting /\ user' = newUser
       ELSE UNCHANGED <<profile, posting, user>>

-----------------------------------------------------------------------------
(* Requests, up to their checks *)

MayLink(s, u) == user[u].active /\ LinkedToNoOther(u, s)

\* The new record has no id yet: the check of its branch returns at once.
CreateStaff(s, u, b) ==
  /\ ~profile[s].exists
  /\ u # NoUser => MayLink(s, u)
  /\ Ask([do |-> "create", on |-> s, user |-> u, branch |-> b])

LinkUser(s, u) ==
  /\ Live(s) /\ profile[s].user \in {NoUser, u}
  /\ MayLink(s, u) /\ Within(BranchesOf(s), user[u].access)
  /\ Ask([do |-> "link", on |-> s, user |-> u])

\* An update that names no user unlinks the one there is; one that makes the
\* member of staff inactive or suspended closes the account linked so far.
UpdateStaff(s, u, closes) ==
  /\ Live(s)
  /\ u \notin {NoUser, profile[s].user}
       => MayLink(s, u) /\ Within(BranchesOf(s), user[u].access)
  /\ Ask([do |-> "update", on |-> s, user |-> u, closes |-> closes])

AssignBranch(s, b, primary) ==
  /\ Live(s) /\ b \notin BranchesOf(s)
  /\ profile[s].user # NoUser
       => Within(BranchesOf(s) \cup {b}, user[profile[s].user].access)
  /\ Ask([do |-> "assign", on |-> s, branch |-> b, primary |-> primary])

\* softDelete() saves outside the transaction that the rest of the request is in.
DeleteStaff(s) ==
  /\ Live(s) /\ Free(s) /\ Cardinality(underWay) < MaxUnderWay
  /\ profile' = [profile EXCEPT ![s].deleted = TRUE]
  /\ underWay' = underWay \cup {[do |-> "delete", on |-> s]}
  /\ UNCHANGED <<posting, user>>

UpdateUser(u, access) ==
  /\ \A s \in Staff : Live(s) /\ profile[s].user = u => Within(BranchesOf(s), access)
  /\ Ask([do |-> "access", on |-> u, access |-> access])

-----------------------------------------------------------------------------
(* Their writes *)

Create(r) ==
  /\ r.do = "create"
  /\ Store(r, [profile EXCEPT ![r.on] = [NoProfile EXCEPT !.exists = TRUE, !.user = r.user]],
           IF r.branch = NoBranch THEN posting
           ELSE [posting EXCEPT ![r.on] = <<[branch |-> r.branch, primary |-> TRUE]>>],
           user)

Link(r) ==
  /\ r.do = "link"
  /\ Store(r, [profile EXCEPT ![r.on].user = r.user], posting, user)

Deactivated(u) == IF u = NoUser THEN user ELSE [user EXCEPT ![u].active = FALSE]

Update(r) ==
  /\ r.do = "update"
  /\ Store(r, [profile EXCEPT ![r.on].user = r.user], posting,
           IF r.closes THEN Deactivated(profile[r.on].user) ELSE user)

\* The first assignment is primary; a new primary one takes over from the others.
WithPosting(assigned, branch, primary) ==
  LET first == primary \/ assigned = <<>>
  IN  Append(IF first THEN [i \in DOMAIN assigned |-> [assigned[i] EXCEPT !.primary = FALSE]]
             ELSE assigned,
             [branch |-> branch, primary |-> first])

Assign(r) ==
  /\ r.do = "assign"
  /\ Store(r, profile, [posting EXCEPT ![r.on] = WithPosting(@, r.branch, r.primary)], user)

\* The transaction of deleteStaff commits, or it fails after the soft delete.
Delete(r) ==
  /\ r.do = "delete"
  /\ \/ Store(r, profile, [posting EXCEPT ![r.on] = <<>>], Deactivated(profile[r.on].user))
     \/ Store(r, profile, posting, user)

Access(r) ==
  /\ r.do = "access"
  /\ Store(r, profile, posting, [user EXCEPT ![r.on].access = r.access])

-----------------------------------------------------------------------------
(* Requests that write what they have read *)

UnlinkUser(s) ==
  /\ Live(s) /\ Free(s) /\ profile[s].user # NoUser
  /\ profile' = [profile EXCEPT ![s].user = NoUser]
  /\ UNCHANGED <<posting, user, underWay>>

\* Mutant of WithoutPosting: nobody takes the place of the primary one.
WithoutPostingOnly(assigned, i) == RemoveAt(assigned, i)

\* The oldest of those that remain becomes primary when the primary one goes.
WithoutPosting(assigned, i) ==
  LET rest == RemoveAt(assigned, i)
  IN  IF assigned[i].primary /\ rest # <<>> THEN [rest EXCEPT ![1].primary = TRUE] ELSE rest

RemoveBranch(s, i) ==
  /\ Live(s) /\ Free(s) /\ i \in DOMAIN posting[s]
  /\ posting' = [posting EXCEPT ![s] = WithoutPosting(@, i)]
  /\ UNCHANGED <<profile, user, underWay>>

RestoreStaff(s) ==
  LET new == [profile EXCEPT ![s].deleted = FALSE]
  IN  /\ profile[s].exists /\ Free(s) /\ IndexAllows(new)
      /\ profile' = new
      /\ UNCHANGED <<posting, user, underWay>>

ChangeUserStatus(u, active) ==
  /\ Free(u)
  /\ user' = [user EXCEPT ![u].active = active]
  /\ UNCHANGED <<profile, posting, underWay>>

StaffNext ==
  \/ \E s \in Staff :
       \/ \E u \in Accounts \cup {NoUser}, b \in Branches \cup {NoBranch} : CreateStaff(s, u, b)
       \/ \E u \in Accounts : LinkUser(s, u)
       \/ \E u \in Accounts \cup {NoUser}, closes \in BOOLEAN : UpdateStaff(s, u, closes)
       \/ \E b \in Branches, primary \in BOOLEAN : AssignBranch(s, b, primary)
       \/ DeleteStaff(s) \/ UnlinkUser(s) \/ RestoreStaff(s)
       \/ \E i \in DOMAIN posting[s] : RemoveBranch(s, i)
  \/ \E u \in Accounts :
       \/ \E access \in SUBSET Branches : UpdateUser(u, access)
       \/ \E active \in BOOLEAN : ChangeUserStatus(u, active)
  \/ \E r \in underWay :
       Create(r) \/ Link(r) \/ Update(r) \/ Assign(r) \/ Delete(r) \/ Access(r)

StaffSpec == StaffInit /\ [][StaffNext]_staffVars

-----------------------------------------------------------------------------
(* Properties *)

\* Types, and the shape of the assignments: no branch twice, and exactly one of
\* them primary, whatever was assigned, removed, deleted and restored before.
StaffTypeOK ==
  \A s \in Staff :
    /\ profile[s].user \in Accounts \cup {NoUser}
    /\ \A i, j \in DOMAIN posting[s] : posting[s][i].branch = posting[s][j].branch => i = j
    /\ posting[s] # <<>> =>
         \E i \in DOMAIN posting[s] : \A j \in DOMAIN posting[s] : posting[s][j].primary <=> j = i

\* An account belongs to one live member of staff at most: two requests that
\* both found it free, or a restore after it was given away, do not share it.
OneProfilePerUser ==
  \A s, t \in Staff :
    s # t /\ Live(s) /\ Live(t) /\ profile[s].user # NoUser => profile[s].user # profile[t].user
=============================================================================
