---------------------------- MODULE Panel_proofs ----------------------------
(***************************************************************************)
(* Theorems about the panel, for any people, sites, rows, rules and        *)
(* requests, from any database at rest.                                    *)
(***************************************************************************)
EXTENDS Panel, FiniteSetTheorems, SequenceTheorems, TLAPS

-----------------------------------------------------------------------------
(* Requests under way: what auth() or the key gave them, and what the      *)
(* handler read, still describe people that there are: users us, in the    *)
(* workspaces up to n, with the invites ms minted.  All of this stays true *)
(* while people, workspaces and invites are added.                         *)

Fields == {"op", "at", "who", "cv", "ws", "role", "top", "arg", "row"}

\* Requests without a session.
Guests == {"none", "setup", "accept", "login", "send", "visit", "report"}

SignedOK(r, us, n) ==
  r.op \notin Guests => /\ r.who \in DOMAIN us /\ r.ws \in 1..n
                        /\ r.top => us[r.who].id = 1

AsMinted(i) == [id |-> i.id, email |-> i.email, role |-> i.role, ws |-> i.ws]

PeopleOK(r, us, n, ms) ==
  /\ r.op = "setup"   => r.who \in Emails
  /\ r.op = "accept"  => AsMinted(r.arg) \in ms
  /\ r.op = "invite"  => r.arg.email \in Emails /\ r.arg.role \in Roles
  /\ r.op = "login"   => r.who \in DOMAIN us /\ r.row \in Row /\ (r.row.plain => r.row.secret = Legacy)
  /\ r.op = "enroll" /\ r.at = "write" => ~ r.row.enabled
  /\ r.op = "confirm" => r.arg \in 0..MaxIds
  /\ r.op = "workspace" /\ r.at = "second" => r.arg \in 1..n /\ r.top

Steps(f) == {Statements(f)[j] : j \in DOMAIN Statements(f)}
SaveOK(r) ==
  r.op = "save" => /\ r.arg \in Forms
                   /\ r.at = "second" => r.row \in Seq(Steps(r.arg)) /\ r.row # <<>>

OwningOK(r) ==
  /\ r.op = "create site" => r.arg \in Names
  /\ r.op = "clone site"  => r.arg.name \in Names
  /\ r.op = "create" => r.arg.kind \in {"campaign", "automation", "key", "template"}
  /\ r.op = "update" => r.arg.kind \in {"template", "automation"}
  /\ r.op = "delete" => r.arg.kind \in {"template", "key"}
  /\ r.op = "send"   => r.ws \in 1..MaxIds /\ Edits(r)

LinkOK(r) ==
  /\ r.op = "create link" => r.arg.forced \in BOOLEAN /\ r.arg.fallback \in BOOLEAN
  /\ r.op \in {"create channel", "delete channel"} /\ r.at = "second" => Edits(r)
  /\ r.op = "visit" => r.arg \in 1..MaxRows /\ r.row.link \in Landing

FormOK(r) ==
  r.op \in {"create segment", "update segment"} => r.arg.rules \in Drafts

RequestOK(r, us, n, ms) ==
  /\ DOMAIN r = Fields /\ r.who \in Emails \cup {NULL} /\ r.role \in Roles
  /\ SignedOK(r, us, n) /\ PeopleOK(r, us, n, ms) /\ SaveOK(r) /\ OwningOK(r) /\ LinkOK(r) /\ FormOK(r)

RequestsOK == DOMAIN requests = Slots /\ \A s \in Slots : RequestOK(requests[s], users, workspaces, minted)

-----------------------------------------------------------------------------
(* People.                                                                 *)

InviteRows ==
  invites \subseteq [id : 1..MaxIds, email : Emails, role : Roles, ws : 1..MaxIds,
                     accepted : BOOLEAN, expired : BOOLEAN]

\* Invites are numbered as they are minted, in workspaces there are, by
\* somebody; who came in by one is not the founder.
Numbering ==
  /\ IsFiniteSet(minted)
  /\ \A i \in minted : i.id <= Cardinality(minted) /\ i.ws <= workspaces
  /\ \A i, j \in minted : i.id = j.id => i = j
  /\ DOMAIN users = {} => minted = {} /\ workspaces <= 1
  /\ \A i \in invites : i.accepted => i.email \in DOMAIN users /\ users[i.email].id # 1

PlainIsLegacy == \A e \in DOMAIN users : users[e].plain => users[e].secret = Legacy

PeopleInv ==
  /\ AccountsTypeOK /\ InviteRows /\ Numbering /\ Membership /\ PlainIsLegacy /\ EnrolledIsLast

-----------------------------------------------------------------------------
(* What a workspace owns, its links and segments.                          *)

\* A channel in the making has its link and nobody else's; one that is being
\* deleted is gone before its link.
ChannelMidway ==
  \A s \in Slots : LET r == requests[s] IN
    /\ r.op = "create channel" /\ r.at = "second" =>
         /\ \E x \in rows : x.id = r.arg /\ x.kind = "link" /\ x.ws = r.ws
         /\ \A x \in rows : x.kind = "channel" => x.ref # r.arg
    /\ r.op = "delete channel" /\ r.at = "second" =>
         \A x \in rows : x.kind = "channel" => x.ref # r.arg

RowsInv == RowsCoherent /\ ChannelMidway
LinksInv == LinksTypeOK /\ LinksLead
StoredInv == SegmentsTypeOK /\ ValidRules

PanelInv == RequestsOK /\ PeopleInv /\ SettingsTypeOK /\ RowsInv /\ LinksInv /\ StoredInv

-----------------------------------------------------------------------------
(* How requests move.                                                      *)

Grows ==
  /\ DOMAIN users \subseteq DOMAIN users' /\ \A e \in DOMAIN users : users'[e].id = users[e].id
  /\ 1..workspaces \subseteq 1..workspaces' /\ minted \subseteq minted'

LEMMA StaysOK ==
  ASSUME Grows, NEW r, RequestOK(r, users, workspaces, minted) PROVE RequestOK(r, users', workspaces', minted')
<1>1. SignedOK(r, users', workspaces')
  BY DEF Grows, RequestOK, SignedOK
<1>2. PeopleOK(r, users', workspaces', minted')
  BY DEF Grows, RequestOK, PeopleOK
<1> QED  BY <1>1, <1>2 DEF RequestOK

\* One request moves, the others wait.
LEMMA OneMoves ==
  ASSUME RequestsOK, Grows, NEW s \in Slots, NEW r, requests' = [requests EXCEPT ![s] = r],
         RequestOK(r, users', workspaces', minted')
  PROVE  RequestsOK'
<1>1. DOMAIN requests' = Slots
  BY DEF RequestsOK
<1>2. ASSUME NEW t \in Slots PROVE RequestOK(requests'[t], users', workspaces', minted')
  <2>1. CASE t = s
    BY <2>1 DEF RequestsOK
  <2>2. CASE t # s
    <3>1. requests'[t] = requests[t] /\ RequestOK(requests[t], users, workspaces, minted)
      BY <2>2 DEF RequestsOK
    <3> QED  BY <3>1, StaysOK
  <2> QED  BY <2>1, <2>2
<1> QED  BY <1>1, <1>2 DEF RequestsOK

LEMMA IdleOK == ASSUME NEW us, NEW n, NEW ms PROVE RequestOK(Idle, us, n, ms)
  BY DEF RequestOK, SignedOK, PeopleOK, SaveOK, OwningOK, LinkOK, FormOK, Idle, Fields, Guests, Roles

LEMMA DoneKeepsRequests == ASSUME RequestsOK, Grows, NEW s \in Slots, Done(s) PROVE RequestsOK'
  BY OneMoves, IdleOK DEF Done

LEMMA WaitKeepsRequests == ASSUME RequestsOK, Grows, requests' = requests PROVE RequestsOK'
  BY StaysOK DEF RequestsOK

LEMMA SameGrows == ASSUME UNCHANGED people PROVE Grows
  BY DEF Grows, people

\* What a signed-in request may ask for.
ArgOK(op, arg) ==
  /\ op \notin Guests
  /\ op = "invite"  => arg.email \in Emails /\ arg.role \in Roles
  /\ op = "confirm" => arg \in 0..MaxIds
  /\ op = "save"    => arg \in Forms
  /\ op = "create site" => arg \in Names
  /\ op = "clone site"  => arg.name \in Names
  /\ op = "create" => arg.kind \in {"campaign", "automation", "key", "template"}
  /\ op = "update" => arg.kind \in {"template", "automation"}
  /\ op = "delete" => arg.kind \in {"template", "key"}
  /\ op = "create link" => arg.forced \in BOOLEAN /\ arg.fallback \in BOOLEAN
  /\ op \in {"create segment", "update segment"} => arg.rules \in Drafts

LEMMA SignedIsOK ==
  ASSUME PeopleInv, NEW t \in sessions, NEW op, NEW arg, ArgOK(op, arg)
  PROVE  RequestOK(Signed(t, op, arg), users, workspaces, minted)
<1>1. /\ t.who \in DOMAIN users /\ t.who \in Emails /\ users[t.who] \in Row /\ users[t.who].ws <= workspaces
      /\ workspaces \in Nat
  BY AccountAssumption DEF PeopleInv, AccountsTypeOK
<1> DEFINE r == Signed(t, op, arg)
<1>2. /\ DOMAIN r = Fields /\ r.op = op /\ r.at = "act" /\ r.arg = arg /\ r.who = t.who
      /\ r.ws = users[t.who].ws /\ r.role = users[t.who].role /\ r.top = (users[t.who].id = 1)
  BY DEF Signed, Idle, Fields
<1> HIDE DEF r
<1>3. r.who \in DOMAIN users /\ r.ws \in 1..workspaces /\ r.role \in Roles
  BY <1>1, <1>2, AccountAssumption DEF Row
<1>4. SignedOK(r, users, workspaces)
  BY <1>2, <1>3 DEF SignedOK
<1>5. PeopleOK(r, users, workspaces, minted)
  BY <1>2 DEF PeopleOK, ArgOK, Guests
<1>6. SaveOK(r) /\ OwningOK(r) /\ LinkOK(r) /\ FormOK(r)
  BY <1>2 DEF SaveOK, OwningOK, LinkOK, FormOK, ArgOK, Guests
<1>7. r.who \in Emails
  BY <1>1, <1>2
<1> QED  BY <1>2, <1>3, <1>4, <1>5, <1>6, <1>7 DEF RequestOK, r

LEMMA Spent == ASSUME budget \in [Parts -> Nat], NEW part, Spend(part) PROVE budget' \in [Parts -> Nat]
<1>1. budget[part] > 0 /\ budget' = [budget EXCEPT ![part] = budget[part] - 1]
  BY DEF Spend
<1>2. CASE part \in Parts
  <2>1. budget[part] - 1 \in Nat
    BY <1>1, <1>2
  <2> QED  BY <1>1, <2>1
<1>3. CASE part \notin Parts
  BY <1>1, <1>3
<1> QED  BY <1>2, <1>3

\* Nobody's account changes: the requests and the budget do.
LEMMA PeopleWait ==
  ASSUME PeopleInv, UNCHANGED people, RequestsOK', budget' \in [Parts -> Nat] PROVE PeopleInv'
<1>1. /\ users' = users /\ workspaces' = workspaces /\ invites' = invites /\ minted' = minted
      /\ sessions' = sessions /\ shown' = shown /\ confirmed' = confirmed
  BY DEF people
<1>2. \A s \in Slots : requests'[s].who \in Emails \cup {NULL} /\ requests'[s].role \in Roles
  BY DEF RequestsOK, RequestOK
<1>3. AccountsTypeOK'
  BY <1>1, <1>2 DEF PeopleInv, AccountsTypeOK, Row, Secrets, Roles, Legacy, Invites
<1>4. InviteRows' /\ Numbering' /\ Membership' /\ PlainIsLegacy' /\ EnrolledIsLast'
  BY <1>1 DEF PeopleInv, InviteRows, Numbering, Membership, PlainIsLegacy, EnrolledIsLast, Roles, Legacy
<1> QED  BY <1>3, <1>4 DEF PeopleInv

\* A request begins: that of a session, or one without.
LEMMA AuthenticateKeeps ==
  ASSUME RequestsOK, PeopleInv, NEW s \in Slots, NEW part, NEW op, NEW arg, ArgOK(op, arg),
         Authenticate(s, part, op, arg)
  PROVE  RequestsOK' /\ PeopleInv'
<1>1. UNCHANGED people /\ Grows /\ Spend(part)
  BY SameGrows DEF Authenticate
<1>2. PICK t \in sessions : requests' = [requests EXCEPT ![s] = Signed(t, op, arg)]
  BY DEF Authenticate, Take
<1>3. PICK r : r = Signed(t, op, arg)
  OBVIOUS
<1>4. RequestOK(r, users, workspaces, minted)
  BY <1>3, SignedIsOK
<1>5. RequestsOK'
  BY <1>1, <1>2, <1>3, <1>4, OneMoves, StaysOK
<1>6. budget' \in [Parts -> Nat]
  BY <1>1, Spent DEF PeopleInv, AccountsTypeOK
<1> QED  BY <1>1, <1>5, <1>6, PeopleWait

LEMMA ArriveKeeps ==
  ASSUME RequestsOK, PeopleInv, NEW s \in Slots, NEW part, NEW r, RequestOK(r, users, workspaces, minted),
         Arrive(s, part, r)
  PROVE  RequestsOK' /\ PeopleInv'
<1>1. UNCHANGED people /\ Grows /\ Spend(part) /\ requests' = [requests EXCEPT ![s] = r]
  BY SameGrows DEF Arrive, Take
<1>2. RequestsOK'
  BY <1>1, OneMoves, StaysOK
<1>3. budget' \in [Parts -> Nat]
  BY <1>1, Spent DEF PeopleInv, AccountsTypeOK
<1> QED  BY <1>1, <1>2, <1>3, PeopleWait

\* A request ends, or no request moves, and nobody's account changes.
LEMMA QuietKeeps ==
  ASSUME RequestsOK, PeopleInv, UNCHANGED people, Kept, requests' = requests \/ \E s \in Slots : Done(s)
  PROVE  RequestsOK' /\ PeopleInv'
<1>1. RequestsOK'
  BY SameGrows, DoneKeepsRequests, WaitKeepsRequests
<1> QED  BY <1>1, PeopleWait DEF PeopleInv, AccountsTypeOK, Kept

\* A request goes on, and nobody's account changes.
LEMMA GoesOnKeeps ==
  ASSUME RequestsOK, PeopleInv, UNCHANGED people, Kept, NEW s \in Slots, NEW r,
         requests' = [requests EXCEPT ![s] = r], RequestOK(r, users, workspaces, minted)
  PROVE  RequestsOK' /\ PeopleInv'
<1>1. RequestsOK'
  BY SameGrows, OneMoves, StaysOK
<1> QED  BY <1>1, PeopleWait DEF PeopleInv, AccountsTypeOK, Kept

-----------------------------------------------------------------------------
(* Accounts: every statement keeps who belongs to the panel and where.     *)

\* A row of a user is rewritten: the address keeps its number and role.
LEMMA RewriteKeeps ==
  ASSUME PeopleInv, RequestsOK', NEW e \in DOMAIN users, NEW u \in Row, Set(e, u),
         u.id = users[e].id, u.role = users[e].role, u.ws <= workspaces, u.ws = users[e].ws \/ u.id = 1,
         u.plain => u.secret = Legacy, u.enabled => u.secret \in {confirmed'[e], Legacy},
         UNCHANGED <<workspaces, invites, minted, sessions, budget>>,
         shown' \in 0..MaxIds, confirmed' \in [Emails -> Secrets],
         \A f \in Emails : f # e => confirmed'[f] = confirmed[f]
  PROVE  PeopleInv'
<1>1. /\ DOMAIN users' = DOMAIN users /\ users'[e] = u /\ DOMAIN users \subseteq Emails
      /\ \A f \in DOMAIN users : f # e => users'[f] = users[f]
  BY DEF Set, With, PeopleInv, AccountsTypeOK
<1>2. \A f \in DOMAIN users : users'[f].id = users[f].id /\ users'[f].role = users[f].role
  BY <1>1
<1>3. \A f \in DOMAIN users : users'[f].id # 1 => users'[f].ws = users[f].ws
  BY <1>1
<1>4. AccountsTypeOK'
  <2>1. \A s \in Slots : requests'[s].who \in Emails \cup {NULL} /\ requests'[s].role \in Roles
    BY DEF RequestsOK, RequestOK
  <2>2. \A f \in DOMAIN users : users'[f] \in Row /\ users'[f].ws <= workspaces
    BY <1>1 DEF PeopleInv, AccountsTypeOK
  <2> QED  BY <1>1, <2>1, <2>2 DEF PeopleInv, AccountsTypeOK, Row, Secrets, Roles, Legacy, Invites
<1>5. InviteRows' /\ Numbering'
  BY <1>1, <1>2 DEF PeopleInv, InviteRows, Numbering, Roles
<1>6. Membership'
  BY <1>1, <1>2, <1>3 DEF PeopleInv, Membership, Numbering
<1>7. PlainIsLegacy' /\ EnrolledIsLast'
  BY <1>1 DEF PeopleInv, PlainIsLegacy, EnrolledIsLast, Legacy
<1> QED  BY <1>4, <1>5, <1>6, <1>7 DEF PeopleInv

LEMMA RewriteGrows ==
  ASSUME NEW e \in DOMAIN users, NEW u, Set(e, u), u.id = users[e].id, UNCHANGED <<workspaces, minted>>
  PROVE  Grows
  BY DEF Set, With, Grows

\* The user of a request has a row.
LEMMA UserIsThere ==
  ASSUME RequestsOK, PeopleInv, NEW s \in Slots, requests[s].op \notin Guests \/ requests[s].op = "login"
  PROVE  /\ Who(s) \in DOMAIN users /\ Who(s) \in Emails /\ users[Who(s)] \in Row
         /\ users[Who(s)].ws <= workspaces /\ (users[Who(s)].plain => users[Who(s)].secret = Legacy)
         /\ (users[Who(s)].enabled => users[Who(s)].secret \in {confirmed[Who(s)], Legacy})
<1>1. Who(s) \in DOMAIN users
  BY DEF RequestsOK, RequestOK, SignedOK, PeopleOK, Who
<1> QED  BY <1>1 DEF PeopleInv, AccountsTypeOK, PlainIsLegacy, EnrolledIsLast

LEMMA EnrollKeeps == ASSUME RequestsOK, PeopleInv, NEW s \in Slots, Enroll(s) PROVE RequestsOK' /\ PeopleInv'
<1> DEFINE e == Who(s)
<1> DEFINE u == Unconfirmed(users[e], shown')
<1>1. /\ e \in DOMAIN users /\ e \in Emails /\ users[e] \in Row /\ users[e].ws <= workspaces
  BY UserIsThere DEF Enroll, At, Guests
<1>2. shown' \in 0..MaxIds /\ shown' \in Secrets
  BY AccountAssumption DEF Enroll, PeopleInv, AccountsTypeOK, Secrets
<1>3. /\ u \in Row /\ u.id = users[e].id /\ u.role = users[e].role /\ u.ws = users[e].ws
      /\ u.plain = FALSE /\ u.enabled = FALSE
  BY <1>1, <1>2 DEF Unconfirmed, Row
<1>4. Set(e, u) /\ Done(s) /\ UNCHANGED <<workspaces, invites, minted, sessions, confirmed, budget>>
  BY DEF Enroll, Kept
<1>5. confirmed' \in [Emails -> Secrets] /\ \A f \in Emails : f # e => confirmed'[f] = confirmed[f]
  BY <1>4 DEF PeopleInv, AccountsTypeOK
<1> HIDE DEF e, u
<1>6. Grows
  BY <1>1, <1>3, <1>4, RewriteGrows
<1>7. RequestsOK'
  BY <1>4, <1>6, DoneKeepsRequests
<1> QED  BY <1>1, <1>2, <1>3, <1>4, <1>5, <1>7, RewriteKeeps

\* The same for a statement that neither shows nor confirms a secret.
LEMMA PlainRewriteKeeps ==
  ASSUME RequestsOK, PeopleInv, NEW s \in Slots, NEW r, requests' = [requests EXCEPT ![s] = r],
         RequestOK(r, users, workspaces, minted),
         NEW e \in DOMAIN users, NEW u \in Row, Set(e, u),
         u.id = users[e].id, u.role = users[e].role, u.ws <= workspaces, u.ws = users[e].ws \/ u.id = 1,
         u.plain => u.secret = Legacy, u.enabled => u.secret \in {confirmed[e], Legacy},
         UNCHANGED <<workspaces, invites, minted, sessions, shown, confirmed, budget>>
  PROVE  RequestsOK' /\ PeopleInv'
<1>1. Grows
  BY RewriteGrows
<1>2. RequestsOK'
  BY <1>1, OneMoves, StaysOK
<1>3. /\ shown' \in 0..MaxIds /\ confirmed' \in [Emails -> Secrets] /\ confirmed' = confirmed
  BY DEF PeopleInv, AccountsTypeOK
<1> QED  BY <1>2, <1>3, RewriteKeeps

LEMMA CheckCodeKeeps == ASSUME RequestsOK, PeopleInv, NEW s \in Slots, CheckCode(s) PROVE RequestsOK' /\ PeopleInv'
<1> DEFINE r == requests[s]
<1> DEFINE e == Who(s)
<1> DEFINE u == [users[e] EXCEPT !.secret = r.row.secret, !.plain = FALSE]
<1> DEFINE q == [r EXCEPT !.at = "sign"]
<1>1. /\ e \in DOMAIN users /\ users[e] \in Row /\ users[e].ws <= workspaces
      /\ users[e].plain => users[e].secret = Legacy
      /\ users[e].enabled => users[e].secret \in {confirmed[e], Legacy}
  BY UserIsThere DEF CheckCode, At
<1>2. /\ RequestOK(r, users, workspaces, minted) /\ r.op = "login" /\ r.row \in Row
      /\ r.row.plain => r.row.secret = Legacy
  BY DEF CheckCode, At, RequestsOK, RequestOK, PeopleOK
<1>3. CASE UNCHANGED users /\ Done(s)
  <2>1. UNCHANGED people /\ Kept
    BY <1>3 DEF CheckCode, people
  <2> QED  BY <1>3, <2>1, QuietKeeps
<1>4. RequestOK(q, users, workspaces, minted)
  <2>1. /\ DOMAIN q = Fields /\ q.op = "login" /\ q.who = r.who /\ q.role = r.role /\ q.row = r.row
    BY <1>2 DEF RequestOK, Fields
  <2> QED  BY <1>2, <2>1 DEF RequestOK, SignedOK, PeopleOK, SaveOK, OwningOK, LinkOK, FormOK, Guests
<1>5. CASE UNCHANGED users /\ Goto(s, "sign")
  <2>1. UNCHANGED people /\ Kept
    BY <1>5 DEF CheckCode, people
  <2>2. requests' = [requests EXCEPT ![s] = q]
    BY <1>5 DEF Goto
  <2> HIDE DEF q
  <2> QED  BY <1>4, <2>1, <2>2, GoesOnKeeps
<1>6. CASE Goto(s, "sign") /\ r.row.enabled /\ r.row.plain /\ Set(e, u)
  <2>1. /\ u \in Row /\ u.id = users[e].id /\ u.role = users[e].role /\ u.ws = users[e].ws
        /\ u.plain = FALSE /\ u.secret = Legacy
    BY <1>1, <1>2, <1>6 DEF Row
  <2>2. requests' = [requests EXCEPT ![s] = q]
    BY <1>6 DEF Goto
  <2>3. UNCHANGED <<workspaces, invites, minted, sessions, shown, confirmed, budget>>
    BY DEF CheckCode, Kept
  <2> HIDE DEF q, e, u
  <2> QED  BY <1>1, <1>4, <1>6, <2>1, <2>2, <2>3, PlainRewriteKeeps
<1> QED  BY <1>3, <1>5, <1>6 DEF CheckCode, Who

LEMMA ConfirmKeeps == ASSUME RequestsOK, PeopleInv, NEW s \in Slots, Confirm(s) PROVE RequestsOK' /\ PeopleInv'
<1> DEFINE e == Who(s)
<1> DEFINE u == [users[e] EXCEPT !.enabled = TRUE]
<1>1. /\ e \in DOMAIN users /\ e \in Emails /\ users[e] \in Row /\ users[e].ws <= workspaces
      /\ users[e].plain => users[e].secret = Legacy
  BY UserIsThere DEF Confirm, At, Guests
<1>2. Done(s) /\ Kept /\ UNCHANGED <<workspaces, invites, minted, sessions, shown>>
  BY DEF Confirm
<1>3. CASE users[e].secret = Arg(s)
  <2>1. Set(e, u) /\ confirmed' = [confirmed EXCEPT ![e] = users[e].secret]
    BY <1>3 DEF Confirm
  <2>2. /\ u \in Row /\ u.id = users[e].id /\ u.role = users[e].role /\ u.ws = users[e].ws
        /\ u.plain = users[e].plain /\ u.secret = users[e].secret
    BY <1>1 DEF Row
  <2>3. confirmed \in [Emails -> Secrets] /\ users[e].secret \in Secrets
    BY <1>1 DEF PeopleInv, AccountsTypeOK, Row
  <2>4. /\ confirmed' \in [Emails -> Secrets] /\ confirmed'[e] = u.secret
        /\ \A f \in Emails : f # e => confirmed'[f] = confirmed[f]
    BY <1>1, <2>1, <2>2, <2>3
  <2>5. shown' \in 0..MaxIds /\ UNCHANGED <<workspaces, invites, minted, sessions, budget>>
    BY <1>2 DEF PeopleInv, AccountsTypeOK, Kept
  <2> HIDE DEF e, u
  <2>6. Grows
    BY <1>1, <2>1, <2>2, <2>5, RewriteGrows
  <2>7. RequestsOK'
    BY <1>2, <2>6, DoneKeepsRequests
  <2> QED  BY <1>1, <2>1, <2>2, <2>4, <2>5, <2>7, RewriteKeeps
<1>4. CASE users[e].secret # Arg(s)
  <2>1. UNCHANGED people
    BY <1>2, <1>4 DEF Confirm, people
  <2> QED  BY <1>2, <2>1, QuietKeeps
<1> QED  BY <1>3, <1>4

LEMMA DisableKeeps == ASSUME RequestsOK, PeopleInv, NEW s \in Slots, Disable(s) PROVE RequestsOK' /\ PeopleInv'
<1> DEFINE e == Who(s)
<1> DEFINE u == [users[e] EXCEPT !.secret = NULL, !.plain = FALSE, !.enabled = FALSE]
<1>1. /\ e \in DOMAIN users /\ users[e] \in Row /\ users[e].ws <= workspaces
  BY UserIsThere DEF Disable, At, Guests
<1>2. /\ u \in Row /\ u.id = users[e].id /\ u.role = users[e].role /\ u.ws = users[e].ws
      /\ u.plain = FALSE /\ u.enabled = FALSE
  BY <1>1 DEF Row, Secrets
<1>3. /\ Set(e, u) /\ requests' = [requests EXCEPT ![s] = Idle]
      /\ UNCHANGED <<workspaces, invites, minted, sessions, shown, confirmed, budget>>
  BY DEF Disable, Kept, Done
<1> HIDE DEF e, u
<1> QED  BY <1>1, <1>2, <1>3, IdleOK, PlainRewriteKeeps

LEMMA ChangePasswordKeeps ==
  ASSUME RequestsOK, PeopleInv, NEW s \in Slots, ChangePassword(s) PROVE RequestsOK' /\ PeopleInv'
<1> DEFINE e == Who(s)
<1> DEFINE u == [users[e] EXCEPT !.password = users[e].password + 1]
<1>1. /\ e \in DOMAIN users /\ users[e] \in Row /\ users[e].ws <= workspaces
      /\ users[e].plain => users[e].secret = Legacy
      /\ users[e].enabled => users[e].secret \in {confirmed[e], Legacy}
  BY UserIsThere DEF ChangePassword, At, Guests
<1>2. users[e].password + 1 \in 1..MaxIds
  BY <1>1, AccountAssumption DEF ChangePassword, Row
<1>3. /\ u \in Row /\ u.id = users[e].id /\ u.role = users[e].role /\ u.ws = users[e].ws
      /\ u.plain = users[e].plain /\ u.secret = users[e].secret /\ u.enabled = users[e].enabled
  BY <1>1, <1>2 DEF Row
<1>4. /\ Set(e, u) /\ requests' = [requests EXCEPT ![s] = Idle]
      /\ UNCHANGED <<workspaces, invites, minted, sessions, shown, confirmed, budget>>
  BY DEF ChangePassword, Kept, Done
<1> HIDE DEF e, u
<1> QED  BY <1>1, <1>3, <1>4, IdleOK, PlainRewriteKeeps

\* Only the founder moves between workspaces.
LEMMA MoveKeeps ==
  ASSUME RequestsOK, PeopleInv, NEW s \in Slots, NEW w \in 1..workspaces,
         requests[s].op \notin Guests, requests[s].top, Done(s),
         Set(Who(s), [users[Who(s)] EXCEPT !.ws = w]),
         UNCHANGED <<workspaces, invites, minted, sessions, shown, confirmed, budget>>
  PROVE  RequestsOK' /\ PeopleInv'
<1> DEFINE e == Who(s)
<1> DEFINE u == [users[e] EXCEPT !.ws = w]
<1>1. /\ e \in DOMAIN users /\ users[e] \in Row /\ users[e].id = 1
      /\ users[e].plain => users[e].secret = Legacy
      /\ users[e].enabled => users[e].secret \in {confirmed[e], Legacy}
  BY UserIsThere DEF RequestsOK, RequestOK, SignedOK, Who
<1>2. w \in 1..MaxIds /\ w <= workspaces
  BY AccountAssumption DEF PeopleInv, AccountsTypeOK
<1>3. /\ u \in Row /\ u.id = users[e].id /\ u.role = users[e].role /\ u.ws = w
      /\ u.plain = users[e].plain /\ u.secret = users[e].secret /\ u.enabled = users[e].enabled
  BY <1>1, <1>2 DEF Row
<1>4. Set(e, u) /\ requests' = [requests EXCEPT ![s] = Idle]
  BY DEF Done
<1> HIDE DEF e, u
<1> QED  BY <1>1, <1>2, <1>3, <1>4, IdleOK, PlainRewriteKeeps

LEMMA EnterKeeps == ASSUME RequestsOK, PeopleInv, NEW s \in Slots, EnterWorkspace(s) PROVE RequestsOK' /\ PeopleInv'
<1>1. requests[s].op = "workspace" /\ Arg(s) \in 1..workspaces /\ requests[s].top
  BY DEF EnterWorkspace, At, RequestsOK, RequestOK, PeopleOK, Arg
<1> QED  BY <1>1, MoveKeeps DEF EnterWorkspace, Kept, Guests

LEMMA SwitchKeeps == ASSUME RequestsOK, PeopleInv, NEW s \in Slots, SwitchWorkspace(s) PROVE RequestsOK' /\ PeopleInv'
<1>1. CASE requests[s].top /\ Known(requests[s].arg) /\ Set(Who(s), [users[Who(s)] EXCEPT !.ws = requests[s].arg])
  BY <1>1, MoveKeeps DEF SwitchWorkspace, Kept, Guests, At, Known
<1>2. CASE UNCHANGED users
  <2>1. UNCHANGED people
    BY <1>2 DEF SwitchWorkspace, people
  <2> QED  BY <2>1, QuietKeeps DEF SwitchWorkspace
<1> QED  BY <1>1, <1>2 DEF SwitchWorkspace, Who

\* A new address gets a row.
LEMMA NewUserIsRow ==
  ASSUME PeopleInv, NEW e \in Emails, e \notin DOMAIN users, NEW role \in Roles, NEW ws \in 1..MaxIds
  PROVE  /\ NewUser(role, ws) \in Row /\ NewUser(role, ws).id = Cardinality(DOMAIN users) + 1
         /\ NewUser(role, ws).ws = ws /\ NewUser(role, ws).role = role
         /\ NewUser(role, ws).plain = FALSE /\ NewUser(role, ws).enabled = FALSE
         /\ IsFiniteSet(DOMAIN users) /\ Cardinality(DOMAIN users) \in Nat
<1>1. DOMAIN users \subseteq Emails /\ IsFiniteSet(Emails)
  BY AccountAssumption DEF PeopleInv, AccountsTypeOK
<1>2. IsFiniteSet(DOMAIN users) /\ IsFiniteSet(DOMAIN users \cup {e}) /\ DOMAIN users \cup {e} \subseteq Emails
  BY <1>1, FS_Subset, FS_AddElement
<1>3. Cardinality(DOMAIN users) \in Nat /\ Cardinality(DOMAIN users \cup {e}) = Cardinality(DOMAIN users) + 1
  BY <1>2, FS_AddElement, FS_CardinalityType
<1>4. Cardinality(DOMAIN users \cup {e}) <= Cardinality(Emails) /\ Cardinality(Emails) \in Nat
  BY <1>1, <1>2, FS_Subset, FS_CardinalityType
<1>5. Cardinality(DOMAIN users) + 1 \in 1..Cardinality(Emails)
  BY <1>3, <1>4
<1>6. 1 \in 1..MaxIds
  BY AccountAssumption
<1> QED  BY <1>2, <1>3, <1>5, <1>6 DEF NewUser, Row, Secrets

LEMMA SetGrows ==
  ASSUME PeopleInv, NEW e, NEW u, e \notin DOMAIN users, Set(e, u)
  PROVE  /\ DOMAIN users' = DOMAIN users \cup {e} /\ users'[e] = u
         /\ \A f \in DOMAIN users : users'[f] = users[f]
  BY DEF Set, With

LEMMA FoundKeeps == ASSUME RequestsOK, PeopleInv, NEW s \in Slots, Found(s) PROVE RequestsOK' /\ PeopleInv'
<1>1. Done(s) /\ Kept /\ UNCHANGED <<invites, minted, sessions, shown, confirmed>>
  BY DEF Found
<1>2. CASE DOMAIN users # {}
  <2>1. UNCHANGED people
    BY <1>1, <1>2 DEF Found, people
  <2> QED  BY <1>1, <2>1, QuietKeeps
<1>3. CASE DOMAIN users = {}
  <2> DEFINE e == Who(s)
  <2> DEFINE u == NewUser("owner", 1)
  <2>1. e \in Emails
    BY DEF Found, At, RequestsOK, RequestOK, PeopleOK, Who
  <2>2. "owner" \in Roles /\ 1 \in 1..MaxIds
    BY AccountAssumption DEF Roles
  <2>3. u \in Row /\ u.id = 1 /\ u.ws = 1 /\ u.plain = FALSE /\ u.enabled = FALSE
    <3>1. Cardinality(DOMAIN users) = 0
      BY <1>3, FS_EmptySet
    <3>2. e \notin DOMAIN users
      BY <1>3
    <3> HIDE DEF e
    <3>3. /\ NewUser("owner", 1) \in Row /\ NewUser("owner", 1).id = Cardinality(DOMAIN users) + 1
          /\ NewUser("owner", 1).ws = 1
          /\ NewUser("owner", 1).plain = FALSE /\ NewUser("owner", 1).enabled = FALSE
      BY <2>1, <2>2, <3>2, NewUserIsRow
    <3> QED  BY <3>1, <3>3
  <2>4. workspaces' = 1 /\ Set(e, u)
    BY <1>3 DEF Found
  <2> HIDE DEF e, u
  <2>5. DOMAIN users' = {e} /\ users'[e] = u
    BY <1>3, <2>4, SetGrows
  <2>6. workspaces \in Nat /\ minted = {} /\ \A i \in invites : i.accepted = FALSE
    BY <1>3 DEF PeopleInv, AccountsTypeOK, Numbering, InviteRows
  <2>7. workspaces' \in 0..MaxIds /\ sessions = {}
    BY <1>3, <2>4, AccountAssumption DEF PeopleInv, AccountsTypeOK
  <2>8. workspaces <= 1 /\ 1..workspaces \subseteq 1..workspaces'
    BY <1>3, <2>4, <2>6 DEF PeopleInv, Numbering
  <2>9. Grows
    BY <1>1, <1>3, <2>5, <2>8 DEF Grows
  <2>10. RequestsOK'
    BY <1>1, <2>9, DoneKeepsRequests
  <2>11. AccountsTypeOK'
    <3>1. \A t \in Slots : requests'[t].who \in Emails \cup {NULL} /\ requests'[t].role \in Roles
      BY <2>10 DEF RequestsOK, RequestOK
    <3>2. DOMAIN users' \subseteq Emails /\ \A f \in DOMAIN users' : users'[f] \in Row /\ users'[f].ws <= workspaces'
      BY <2>1, <2>3, <2>4, <2>5
    <3> QED  BY <1>1, <2>6, <2>7, <3>1, <3>2
             DEF PeopleInv, AccountsTypeOK, Row, Secrets, Roles, Legacy, Invites, Kept
  <2>12. InviteRows' /\ Numbering' /\ Membership' /\ PlainIsLegacy' /\ EnrolledIsLast'
    BY <1>1, <2>3, <2>5, <2>6, FS_EmptySet
       DEF PeopleInv, InviteRows, Numbering, Membership, PlainIsLegacy, EnrolledIsLast, Roles
  <2> QED  BY <2>10, <2>11, <2>12 DEF PeopleInv
<1> QED  BY <1>2, <1>3

LEMMA JoinKeeps == ASSUME RequestsOK, PeopleInv, NEW s \in Slots, Join(s) PROVE RequestsOK' /\ PeopleInv'
<1> DEFINE i == Arg(s)
<1> DEFINE e == i.email
<1> DEFINE u == NewUser(i.role, i.ws)
<1>1. Done(s) /\ Kept /\ UNCHANGED <<workspaces, minted, sessions, shown, confirmed>> /\ Accept(i)
  BY DEF Join
<1>2. AsMinted(i) \in minted
  BY DEF Join, At, RequestsOK, RequestOK, PeopleOK, Arg
<1>3. CASE e \in DOMAIN users
  <2>1. UNCHANGED people
    BY <1>1, <1>3 DEF Accept, people
  <2> QED  BY <1>1, <2>1, QuietKeeps
<1>4. CASE e \notin DOMAIN users
  <2>1. /\ Set(e, u)
        /\ invites' = {IF j.id = i.id THEN [j EXCEPT !.accepted = TRUE] ELSE j : j \in invites}
    BY <1>1, <1>4 DEF Accept
  <2>2. e \in Emails /\ i.role \in Roles /\ i.ws \in 1..MaxIds
    <3>1. AsMinted(i) \in Invites
      BY <1>2 DEF PeopleInv, AccountsTypeOK
    <3> QED  BY <3>1 DEF AsMinted, Invites
  <2>3. i.ws <= workspaces /\ DOMAIN users # {} /\ \A j \in minted : j.id = i.id => j = AsMinted(i)
    <3>1. AsMinted(i).ws <= workspaces /\ DOMAIN users # {}
      BY <1>2 DEF PeopleInv, Numbering
    <3>2. \A j \in minted : j.id = AsMinted(i).id => j = AsMinted(i)
      BY <1>2 DEF PeopleInv, Numbering
    <3> QED  BY <3>1, <3>2 DEF AsMinted
  <2>4. /\ u \in Row /\ u.id = Cardinality(DOMAIN users) + 1 /\ u.ws = i.ws /\ u.role = i.role
        /\ u.plain = FALSE /\ u.enabled = FALSE /\ Cardinality(DOMAIN users) \in Nat /\ IsFiniteSet(DOMAIN users)
    <3>1. PICK em, ro, ws : em = e /\ ro = i.role /\ ws = i.ws
      OBVIOUS
    <3>2. /\ NewUser(ro, ws) \in Row /\ NewUser(ro, ws).id = Cardinality(DOMAIN users) + 1
          /\ NewUser(ro, ws).ws = ws /\ NewUser(ro, ws).role = ro
          /\ NewUser(ro, ws).plain = FALSE /\ NewUser(ro, ws).enabled = FALSE
          /\ IsFiniteSet(DOMAIN users) /\ Cardinality(DOMAIN users) \in Nat
      BY <1>4, <2>2, <3>1, NewUserIsRow
    <3> QED  BY <3>1, <3>2
  <2>5. u.id # 1
    BY <2>3, <2>4, FS_EmptySet
  <2>6. \A x \in invites' : \E j \in invites :
          /\ x.id = j.id /\ x.email = j.email /\ x.role = j.role /\ x.ws = j.ws /\ x.expired = j.expired
          /\ x.accepted \in BOOLEAN /\ (x.accepted => j.accepted \/ j.id = i.id)
          /\ x \in [id : 1..MaxIds, email : Emails, role : Roles, ws : 1..MaxIds,
                    accepted : BOOLEAN, expired : BOOLEAN]
    <3> SUFFICES ASSUME NEW j \in invites, NEW x, x = IF j.id = i.id THEN [j EXCEPT !.accepted = TRUE] ELSE j
        PROVE  /\ x.id = j.id /\ x.email = j.email /\ x.role = j.role /\ x.ws = j.ws /\ x.expired = j.expired
               /\ x.accepted \in BOOLEAN /\ (x.accepted => j.accepted \/ j.id = i.id)
               /\ x \in [id : 1..MaxIds, email : Emails, role : Roles, ws : 1..MaxIds,
                         accepted : BOOLEAN, expired : BOOLEAN]
      BY <2>1
    <3>1. j \in [id : 1..MaxIds, email : Emails, role : Roles, ws : 1..MaxIds,
                 accepted : BOOLEAN, expired : BOOLEAN]
      BY DEF PeopleInv, InviteRows
    <3> QED  BY <3>1
  <2>7. \A j \in invites : AsMinted(j) \in minted
    BY DEF PeopleInv, AccountsTypeOK, AsMinted
  <2> HIDE DEF u
  <2>8. /\ DOMAIN users' = DOMAIN users \cup {e} /\ users'[e] = u
        /\ \A f \in DOMAIN users : users'[f] = users[f]
    BY <1>4, <2>1, SetGrows
  <2>9. Grows
    BY <1>1, <2>8 DEF Grows
  <2>10. RequestsOK'
    BY <1>1, <2>9, DoneKeepsRequests
  <2>11. AccountsTypeOK'
    <3>1. \A t \in Slots : requests'[t].who \in Emails \cup {NULL} /\ requests'[t].role \in Roles
      BY <2>10 DEF RequestsOK, RequestOK
    <3>2. /\ DOMAIN users' \subseteq Emails
          /\ \A f \in DOMAIN users' : users'[f] \in Row /\ users'[f].ws <= workspaces
      BY <2>2, <2>3, <2>4, <2>8 DEF PeopleInv, AccountsTypeOK
    <3>3. \A x \in invites' : AsMinted(x) \in minted /\ x.accepted \in BOOLEAN /\ x.expired \in BOOLEAN
      <4>1. \A x \in invites' : \E j \in invites : AsMinted(x) = AsMinted(j)
        BY <2>6 DEF AsMinted
      <4> QED  BY <2>6, <2>7, <4>1
    <3>4. sessions' \subseteq [who : DOMAIN users', cv : 1..MaxIds]
      BY <1>1, <2>8 DEF PeopleInv, AccountsTypeOK
    <3> QED  BY <1>1, <3>1, <3>2, <3>3, <3>4
             DEF PeopleInv, AccountsTypeOK, Row, Secrets, Roles, Legacy, Invites, Kept, AsMinted
  <2>12. InviteRows'
    BY <2>6 DEF InviteRows, Roles
  <2>13. ASSUME NEW x \in invites', x.accepted
         PROVE  /\ x.email \in DOMAIN users' /\ users'[x.email].id # 1
                /\ users'[x.email].role = x.role /\ users'[x.email].ws = x.ws
    <3>1. PICK j \in invites :
            /\ x.id = j.id /\ x.email = j.email /\ x.role = j.role /\ x.ws = j.ws
            /\ (x.accepted => j.accepted \/ j.id = i.id)
      BY <2>6
    <3>2. CASE j.id = i.id
      <4>1. AsMinted(j) = AsMinted(i)
        BY <2>3, <2>7, <3>2 DEF AsMinted
      <4>2. j.email = i.email /\ j.role = i.role /\ j.ws = i.ws
        BY <4>1 DEF AsMinted
      <4> QED  BY <2>4, <2>5, <2>8, <3>1, <4>2
    <3>3. CASE j.accepted
      <4>1. /\ j.email \in DOMAIN users /\ users[j.email].id # 1
            /\ users[j.email].role = j.role /\ users[j.email].ws = j.ws
        BY <3>3 DEF PeopleInv, Numbering, Membership
      <4> QED  BY <2>8, <3>1, <4>1
    <3> QED  BY <2>13, <3>1, <3>2, <3>3
  <2>14. Numbering' /\ Membership'
    <3>1. \A f \in DOMAIN users' : users'[f].id # 1 =>
            \E j \in minted : j.email = f /\ j.role = users'[f].role /\ j.ws = users'[f].ws
      <4>1. \E j \in minted : j.email = e /\ j.role = u.role /\ j.ws = u.ws
        BY <1>2, <2>4 DEF AsMinted
      <4> QED  BY <2>8, <4>1 DEF PeopleInv, Membership
    <3>2. DOMAIN users' # {}
      BY <2>8
    <3> QED  BY <1>1, <2>13, <3>1, <3>2 DEF PeopleInv, Numbering, Membership
  <2>15. PlainIsLegacy' /\ EnrolledIsLast'
    BY <1>1, <2>4, <2>8 DEF PeopleInv, PlainIsLegacy, EnrolledIsLast, Legacy
  <2> QED  BY <2>10, <2>11, <2>12, <2>14, <2>15 DEF PeopleInv
<1> QED  BY <1>3, <1>4

LEMMA InviteKeeps == ASSUME RequestsOK, PeopleInv, NEW s \in Slots, Invite(s) PROVE RequestsOK' /\ PeopleInv'
<1> DEFINE r == requests[s]
<1> DEFINE i == [id |-> Cardinality(minted) + 1, email |-> r.arg.email, role |-> r.arg.role, ws |-> r.ws]
<1> DEFINE x == [id |-> i.id, email |-> i.email, role |-> i.role, ws |-> i.ws, accepted |-> FALSE, expired |-> FALSE]
<1>1. Done(s) /\ Kept /\ UNCHANGED <<users, workspaces, sessions, shown, confirmed>>
  BY DEF Invite
<1>2. CASE UNCHANGED <<minted, invites>>
  <2>1. UNCHANGED people
    BY <1>1, <1>2 DEF people
  <2> QED  BY <1>1, <2>1, QuietKeeps
<1>3. CASE minted' = minted \cup {i} /\ invites' = invites \cup {x} /\ i.id <= MaxIds
  <2>1. /\ r.arg.email \in Emails /\ r.arg.role \in Roles /\ r.ws \in 1..workspaces /\ r.who \in DOMAIN users
    BY DEF Invite, At, RequestsOK, RequestOK, PeopleOK, SignedOK, Guests
  <2>2. IsFiniteSet(minted) /\ Cardinality(minted) \in Nat /\ workspaces \in 0..MaxIds /\ MaxIds \in Nat
    BY FS_CardinalityType, AccountAssumption DEF PeopleInv, Numbering, AccountsTypeOK
  <2>3. i.id \in 1..MaxIds /\ r.ws \in 1..MaxIds /\ i \in Invites
    BY <1>3, <2>1, <2>2 DEF Invites
  <2>4. \A j \in minted : j.id <= Cardinality(minted) /\ j.id \in Nat /\ j.id # i.id /\ j \in Invites
    BY <2>2 DEF PeopleInv, Numbering, AccountsTypeOK, Invites
  <2>5. i \notin minted
    BY <2>4
  <2>6. IsFiniteSet(minted') /\ Cardinality(minted') = Cardinality(minted) + 1
    BY <1>3, <2>2, <2>5, FS_AddElement
  <2>7. /\ x \in [id : 1..MaxIds, email : Emails, role : Roles, ws : 1..MaxIds, accepted : BOOLEAN, expired : BOOLEAN]
        /\ [id |-> x.id, email |-> x.email, role |-> x.role, ws |-> x.ws] = i /\ x.accepted = FALSE
    BY <2>1, <2>3
  <2>8. i.id = Cardinality(minted) + 1 /\ i.ws <= workspaces
    BY <2>1, <2>2
  <2> HIDE DEF i, x
  <2>9. Grows
    BY <1>1, <1>3 DEF Grows
  <2>10. RequestsOK'
    BY <1>1, <2>9, DoneKeepsRequests
  <2>11. AccountsTypeOK'
    <3>1. \A t \in Slots : requests'[t].who \in Emails \cup {NULL} /\ requests'[t].role \in Roles
      BY <2>10 DEF RequestsOK, RequestOK
    <3>2. \A j \in invites' : /\ [id |-> j.id, email |-> j.email, role |-> j.role, ws |-> j.ws] \in minted'
                              /\ j.accepted \in BOOLEAN /\ j.expired \in BOOLEAN
      BY <1>3, <2>7 DEF PeopleInv, AccountsTypeOK
    <3>3. minted' \subseteq Invites
      BY <1>3, <2>3 DEF PeopleInv, AccountsTypeOK
    <3> QED  BY <1>1, <3>1, <3>2, <3>3
             DEF PeopleInv, AccountsTypeOK, Row, Secrets, Roles, Legacy, Invites, Kept
  <2>12. InviteRows'
    BY <1>3, <2>7 DEF PeopleInv, InviteRows, Roles
  <2>13. Numbering'
    <3>1. \A j \in minted' : j.id <= Cardinality(minted') /\ j.ws <= workspaces
      BY <1>3, <2>2, <2>4, <2>6, <2>8 DEF PeopleInv, Numbering
    <3>2. \A j, k \in minted' : j.id = k.id => j = k
      BY <1>3, <2>4 DEF PeopleInv, Numbering
    <3> QED  BY <1>1, <1>3, <2>1, <2>6, <2>7, <3>1, <3>2 DEF PeopleInv, Numbering
  <2>14. Membership'
    BY <1>1, <1>3, <2>7 DEF PeopleInv, Membership
  <2>15. PlainIsLegacy' /\ EnrolledIsLast'
    BY <1>1 DEF PeopleInv, PlainIsLegacy, EnrolledIsLast, Legacy
  <2> QED  BY <2>10, <2>11, <2>12, <2>13, <2>14, <2>15 DEF PeopleInv
<1> QED  BY <1>2, <1>3 DEF Invite

\* Invites go, or their flag that they are too late is set.
LEMMA InvitesGo ==
  ASSUME PeopleInv, RequestsOK',
         \A x \in invites' : \E j \in invites :
           x \in invites \/ x = [j EXCEPT !.expired = TRUE],
         UNCHANGED <<users, workspaces, minted, sessions, shown, confirmed, budget>>
  PROVE  PeopleInv'
<1>1. ASSUME NEW x \in invites'
      PROVE  \E j \in invites :
               /\ x.email = j.email /\ x.role = j.role /\ x.ws = j.ws /\ x.accepted = j.accepted
               /\ [id |-> x.id, email |-> x.email, role |-> x.role, ws |-> x.ws] \in minted
               /\ x \in [id : 1..MaxIds, email : Emails, role : Roles, ws : 1..MaxIds,
                         accepted : BOOLEAN, expired : BOOLEAN]
  <2>1. PICK j \in invites : x \in invites \/ x = [j EXCEPT !.expired = TRUE]
    OBVIOUS
  <2>2. \A k \in invites :
          /\ k \in [id : 1..MaxIds, email : Emails, role : Roles, ws : 1..MaxIds, accepted : BOOLEAN, expired : BOOLEAN]
          /\ [id |-> k.id, email |-> k.email, role |-> k.role, ws |-> k.ws] \in minted
    BY DEF PeopleInv, InviteRows, AccountsTypeOK
  <2>3. CASE x \in invites
    BY <2>2, <2>3
  <2>4. CASE x = [j EXCEPT !.expired = TRUE]
    <3>1. /\ x.id = j.id /\ x.email = j.email /\ x.role = j.role /\ x.ws = j.ws /\ x.accepted = j.accepted
          /\ x \in [id : 1..MaxIds, email : Emails, role : Roles, ws : 1..MaxIds, accepted : BOOLEAN, expired : BOOLEAN]
      BY <2>2, <2>4
    <3> QED  BY <2>2, <3>1
  <2> QED  BY <2>1, <2>3, <2>4
<1>2. \A x \in invites' : x \in [id : 1..MaxIds, email : Emails, role : Roles, ws : 1..MaxIds,
                                 accepted : BOOLEAN, expired : BOOLEAN]
  BY <1>1
<1>3. AccountsTypeOK'
  <2>1. \A s \in Slots : requests'[s].who \in Emails \cup {NULL} /\ requests'[s].role \in Roles
    BY DEF RequestsOK, RequestOK
  <2>2. \A x \in invites' : /\ [id |-> x.id, email |-> x.email, role |-> x.role, ws |-> x.ws] \in minted
                            /\ x.accepted \in BOOLEAN /\ x.expired \in BOOLEAN
    BY <1>1, <1>2
  <2> QED  BY <2>1, <2>2 DEF PeopleInv, AccountsTypeOK, Row, Secrets, Roles, Legacy, Invites
<1>4. InviteRows'
  BY <1>2 DEF InviteRows, Roles
<1>5. Numbering' /\ Membership'
  <2>1. \A x \in invites' : x.accepted =>
          /\ x.email \in DOMAIN users /\ users[x.email].id # 1
          /\ users[x.email].role = x.role /\ users[x.email].ws = x.ws
    <3> SUFFICES ASSUME NEW x \in invites', x.accepted
        PROVE  /\ x.email \in DOMAIN users /\ users[x.email].id # 1
               /\ users[x.email].role = x.role /\ users[x.email].ws = x.ws
      OBVIOUS
    <3>1. PICK j \in invites : x.email = j.email /\ x.role = j.role /\ x.ws = j.ws /\ x.accepted = j.accepted
      BY <1>1
    <3>2. /\ j.email \in DOMAIN users /\ users[j.email].id # 1
          /\ users[j.email].role = j.role /\ users[j.email].ws = j.ws
      BY <3>1 DEF PeopleInv, Numbering, Membership
    <3> QED  BY <3>1, <3>2
  <2>2. Numbering'
    BY <2>1 DEF PeopleInv, Numbering
  <2>3. Membership'
    BY <2>1 DEF PeopleInv, Membership
  <2> QED  BY <2>2, <2>3
<1>6. PlainIsLegacy' /\ EnrolledIsLast'
  BY DEF PeopleInv, PlainIsLegacy, EnrolledIsLast, Legacy
<1> QED  BY <1>3, <1>4, <1>5, <1>6 DEF PeopleInv

LEMMA InvitesGoGrows == ASSUME UNCHANGED <<users, workspaces, minted>> PROVE Grows
  BY DEF Grows

LEMMA RevokeKeeps == ASSUME RequestsOK, PeopleInv, NEW s \in Slots, Revoke(s) PROVE RequestsOK' /\ PeopleInv'
<1>1. invites' \subseteq invites /\ UNCHANGED <<users, workspaces, minted, sessions, shown, confirmed, budget>> /\ Done(s)
  BY DEF Revoke, Kept
<1>2. RequestsOK'
  BY <1>1, InvitesGoGrows, DoneKeepsRequests
<1> QED  BY <1>1, <1>2, InvitesGo

LEMMA ExpireKeeps == ASSUME RequestsOK, PeopleInv, NEW i \in invites, Expire(i) PROVE RequestsOK' /\ PeopleInv'
<1>1. /\ invites' = (invites \ {i}) \cup {[i EXCEPT !.expired = TRUE]} /\ requests' = requests
      /\ UNCHANGED <<users, workspaces, minted, sessions, shown, confirmed, budget>>
  BY DEF Expire
<1>2. RequestsOK'
  BY <1>1, InvitesGoGrows, WaitKeepsRequests
<1>3. \A x \in invites' : \E j \in invites : x \in invites \/ x = [j EXCEPT !.expired = TRUE]
  BY <1>1
<1> QED  BY <1>1, <1>2, <1>3, InvitesGo

LEMMA PruneInvitesKeeps == ASSUME RequestsOK, PeopleInv, PruneInvites PROVE RequestsOK' /\ PeopleInv'
<1>1. /\ invites' \subseteq invites /\ requests' = requests
      /\ UNCHANGED <<users, workspaces, minted, sessions, shown, confirmed, budget>>
  BY DEF PruneInvites
<1>2. RequestsOK'
  BY <1>1, InvitesGoGrows, WaitKeepsRequests
<1> QED  BY <1>1, <1>2, InvitesGo

LEMMA SignInKeeps == ASSUME RequestsOK, PeopleInv, NEW s \in Slots, SignIn(s) PROVE RequestsOK' /\ PeopleInv'
<1>1. /\ sessions' = sessions \cup {[who |-> Who(s), cv |-> users[Who(s)].password]} /\ Done(s)
      /\ UNCHANGED <<users, workspaces, invites, minted, shown, confirmed, budget>>
  BY DEF SignIn, Kept
<1>2. Who(s) \in DOMAIN users /\ users[Who(s)].password \in 1..MaxIds
  BY UserIsThere DEF SignIn, At, Row
<1>3. RequestsOK'
  BY <1>1, InvitesGoGrows, DoneKeepsRequests
<1>4. AccountsTypeOK'
  <2>1. \A t \in Slots : requests'[t].who \in Emails \cup {NULL} /\ requests'[t].role \in Roles
    BY <1>3 DEF RequestsOK, RequestOK
  <2>2. sessions' \subseteq [who : DOMAIN users, cv : 1..MaxIds]
    BY <1>1, <1>2 DEF PeopleInv, AccountsTypeOK
  <2> QED  BY <1>1, <2>1, <2>2 DEF PeopleInv, AccountsTypeOK, Row, Secrets, Roles, Legacy, Invites
<1>5. InviteRows' /\ Numbering' /\ Membership' /\ PlainIsLegacy' /\ EnrolledIsLast'
  BY <1>1 DEF PeopleInv, InviteRows, Numbering, Membership, PlainIsLegacy, EnrolledIsLast, Roles, Legacy
<1> QED  BY <1>3, <1>4, <1>5 DEF PeopleInv

LEMMA ReadUserKeeps ==
  ASSUME RequestsOK, PeopleInv, NEW s \in Slots, NEW op \in {"enroll", "disable", "password"}, NEW ok \in BOOLEAN,
         ReadUser(s, op, ok), ok /\ op = "enroll" => ~ users[Who(s)].enabled
  PROVE  RequestsOK' /\ PeopleInv'
<1> DEFINE r == requests[s]
<1> DEFINE q == [r EXCEPT !.at = "write", !.row = users[Who(s)]]
<1>1. UNCHANGED people /\ Kept /\ r.op = op /\ RequestOK(r, users, workspaces, minted)
  BY DEF ReadUser, At, RequestsOK
<1>2. CASE Done(s)
  BY <1>1, <1>2, QuietKeeps
<1>3. CASE ok /\ requests' = [requests EXCEPT ![s].at = "write", ![s].row = users[Who(s)]]
  <2>1. requests' = [requests EXCEPT ![s] = q]
    BY <1>3 DEF RequestsOK
  <2>2. /\ DOMAIN q = Fields /\ q.op = op /\ q.who = r.who /\ q.role = r.role /\ q.ws = r.ws /\ q.top = r.top
        /\ q.row = users[Who(s)] /\ q.arg = r.arg /\ q.at = "write"
    BY <1>1 DEF RequestOK, Fields
  <2>3. RequestOK(q, users, workspaces, minted)
    BY <1>1, <1>3, <2>2 DEF RequestOK, SignedOK, PeopleOK, SaveOK, OwningOK, LinkOK, FormOK
  <2> HIDE DEF q
  <2> QED  BY <1>1, <2>1, <2>3, GoesOnKeeps
<1> QED  BY <1>1, <1>2, <1>3 DEF ReadUser

LEMMA CreateWorkspaceKeeps ==
  ASSUME RequestsOK, PeopleInv, NEW s \in Slots, CreateWorkspace(s) PROVE RequestsOK' /\ PeopleInv'
<1> DEFINE r == requests[s]
<1> DEFINE q == [r EXCEPT !.at = "second", !.arg = workspaces + 1]
<1>1. Kept /\ UNCHANGED <<users, invites, minted, sessions, shown, confirmed>>
      /\ r.op = "workspace" /\ RequestOK(r, users, workspaces, minted)
  BY DEF CreateWorkspace, At, RequestsOK
<1>2. CASE Done(s) /\ UNCHANGED workspaces
  <2>1. UNCHANGED people
    BY <1>1, <1>2 DEF people
  <2> QED  BY <1>1, <1>2, <2>1, QuietKeeps
<1>3. CASE /\ r.top /\ workspaces < MaxIds /\ workspaces' = workspaces + 1
           /\ requests' = [requests EXCEPT ![s].at = "second", ![s].arg = workspaces + 1]
  <2>1. requests' = [requests EXCEPT ![s] = q]
    BY <1>3 DEF RequestsOK
  <2>2. /\ DOMAIN q = Fields /\ q.op = "workspace" /\ q.who = r.who /\ q.role = r.role /\ q.ws = r.ws /\ q.top = r.top
        /\ q.row = r.row /\ q.arg = workspaces + 1 /\ q.at = "second"
    BY <1>1 DEF RequestOK, Fields
  <2>3. workspaces \in Nat /\ MaxIds \in Nat
    BY AccountAssumption DEF PeopleInv, AccountsTypeOK
  <2>4. r.who \in DOMAIN users /\ r.ws \in 1..workspaces
    BY <1>1 DEF RequestOK, SignedOK, Guests
  <2>5. q.arg \in 1..workspaces' /\ r.ws \in 1..workspaces' /\ 1..workspaces \subseteq 1..workspaces'
    BY <1>3, <2>2, <2>3, <2>4
  <2>6. Grows
    BY <1>1, <2>5 DEF Grows
  <2> HIDE DEF q
  <2>7. RequestOK(q, users', workspaces', minted')
    BY <1>1, <1>3, <2>2, <2>4, <2>5 DEF RequestOK, SignedOK, PeopleOK, SaveOK, OwningOK, LinkOK, FormOK
  <2>8. RequestsOK'
    BY <2>1, <2>6, <2>7, OneMoves
  <2>9. AccountsTypeOK'
    <3>1. \A t \in Slots : requests'[t].who \in Emails \cup {NULL} /\ requests'[t].role \in Roles
      BY <2>8 DEF RequestsOK, RequestOK
    <3>2. workspaces' \in 0..MaxIds /\ \A f \in DOMAIN users : users[f] \in Row /\ users[f].ws <= workspaces'
      BY <1>3, <2>3 DEF PeopleInv, AccountsTypeOK, Row
    <3> QED  BY <1>1, <3>1, <3>2 DEF PeopleInv, AccountsTypeOK, Row, Secrets, Roles, Legacy, Invites, Kept
  <2>10. Numbering'
    <3>1. \A i \in minted : i.ws \in Nat /\ i.ws <= workspaces
      BY DEF PeopleInv, Numbering, AccountsTypeOK, Invites
    <3>2. \A i \in minted : i.ws <= workspaces'
      BY <1>3, <2>3, <3>1
    <3> QED  BY <1>1, <2>4, <3>2 DEF PeopleInv, Numbering
  <2>11. InviteRows' /\ Membership' /\ PlainIsLegacy' /\ EnrolledIsLast'
    BY <1>1 DEF PeopleInv, InviteRows, Membership, PlainIsLegacy, EnrolledIsLast, Roles, Legacy
  <2> QED  BY <2>8, <2>9, <2>10, <2>11 DEF PeopleInv
<1> QED  BY <1>2, <1>3 DEF CreateWorkspace

LEMMA RestartKeeps == ASSUME RequestsOK, PeopleInv, Restart PROVE RequestsOK' /\ PeopleInv'
<1>1. requests' = [s \in Slots |-> Idle] /\ Spend("faults") /\ UNCHANGED people
  BY DEF Restart
<1>2. RequestsOK'
  BY <1>1, IdleOK DEF RequestsOK
<1> QED  BY <1>1, <1>2, Spent, PeopleWait DEF PeopleInv, AccountsTypeOK

LEMMA AsksKeeps == ASSUME RequestsOK, PeopleInv, NEW s \in Slots, Asks(s) PROVE RequestsOK' /\ PeopleInv'
<1>1. CASE \E e \in Emails : BeginSetup(s, e)
  <2>1. PICK e \in Emails : BeginSetup(s, e)
    BY <1>1
  <2> DEFINE r == [Idle EXCEPT !.op = "setup", !.at = "insert", !.who = e]
  <2>2. DOMAIN r = Fields /\ r.op = "setup" /\ r.who = e /\ r.role = "viewer"
    BY DEF Idle, Fields
  <2>3. Arrive(s, "accounts", r)
    BY <2>1 DEF BeginSetup
  <2> HIDE DEF r
  <2>4. RequestOK(r, users, workspaces, minted)
    BY <2>2 DEF RequestOK, SignedOK, PeopleOK, SaveOK, OwningOK, LinkOK, FormOK, Guests, Roles
  <2> QED  BY <2>3, <2>4, ArriveKeeps
<1>2. CASE \E i \in invites : BeginAccept(s, i)
  <2>1. PICK i \in invites : BeginAccept(s, i)
    BY <1>2
  <2> DEFINE r == [Idle EXCEPT !.op = "accept", !.at = "insert", !.arg = i]
  <2>2. DOMAIN r = Fields /\ r.op = "accept" /\ r.who = NULL /\ r.role = "viewer" /\ r.arg = i
    BY DEF Idle, Fields
  <2>3. Arrive(s, "accounts", r)
    BY <2>1 DEF BeginAccept
  <2>4. AsMinted(i) \in minted
    BY <2>1 DEF PeopleInv, AccountsTypeOK, AsMinted
  <2> HIDE DEF r
  <2>5. RequestOK(r, users, workspaces, minted)
    BY <2>2, <2>4 DEF RequestOK, SignedOK, PeopleOK, SaveOK, OwningOK, LinkOK, FormOK, Guests, Roles
  <2> QED  BY <2>3, <2>5, ArriveKeeps
<1>3. CASE \E e \in DOMAIN users : BeginLogin(s, e)
  <2>1. PICK e \in DOMAIN users : BeginLogin(s, e)
    BY <1>3
  <2> DEFINE r == [Idle EXCEPT !.op = "login", !.at = "verified", !.who = e, !.row = users[e]]
  <2>2. DOMAIN r = Fields /\ r.op = "login" /\ r.who = e /\ r.role = "viewer" /\ r.row = users[e]
    BY DEF Idle, Fields
  <2>3. Arrive(s, "accounts", r)
    BY <2>1 DEF BeginLogin
  <2>4. e \in Emails /\ users[e] \in Row /\ (users[e].plain => users[e].secret = Legacy)
    BY DEF PeopleInv, AccountsTypeOK, PlainIsLegacy
  <2> HIDE DEF r
  <2>5. RequestOK(r, users, workspaces, minted)
    BY <2>2, <2>4 DEF RequestOK, SignedOK, PeopleOK, SaveOK, OwningOK, LinkOK, FormOK, Guests, Roles
  <2> QED  BY <2>3, <2>5, ArriveKeeps
<1>4. CASE \E op \in {"invite", "revoke", "enroll", "disable", "password", "confirm", "workspace", "switch"} :
             \E part, arg : ArgOK(op, arg) /\ Authenticate(s, part, op, arg)
  <2>1. PICK op, part, arg : ArgOK(op, arg) /\ Authenticate(s, part, op, arg)
    BY <1>4
  <2> QED  BY <2>1, AuthenticateKeeps
<1>5. \A op \in {"revoke", "enroll", "disable", "password", "workspace", "switch"} : \A arg : ArgOK(op, arg)
  BY DEF ArgOK, Guests
<1>6. \A e \in Emails, role \in Roles : ArgOK("invite", [email |-> e, role |-> role])
  BY DEF ArgOK, Guests
<1>7. \A n \in 0..shown : ArgOK("confirm", n)
  BY AccountAssumption DEF ArgOK, Guests, PeopleInv, AccountsTypeOK
<1>8. ASSUME \E e \in Emails, role \in Roles : Authenticate(s, "team", "invite", [email |-> e, role |-> role])
      PROVE  RequestsOK' /\ PeopleInv'
  BY <1>6, <1>8, <1>4
<1>9. ASSUME \E i \in invites : Authenticate(s, "team", "revoke", i.id) PROVE RequestsOK' /\ PeopleInv'
  BY <1>5, <1>9, <1>4
<1>10. ASSUME \E op \in {"enroll", "disable", "password"} : Authenticate(s, "accounts", op, NULL)
       PROVE  RequestsOK' /\ PeopleInv'
  BY <1>5, <1>10, <1>4
<1>11. ASSUME \E n \in 0..shown : Authenticate(s, "accounts", "confirm", n) PROVE RequestsOK' /\ PeopleInv'
  BY <1>7, <1>11, <1>4
<1>12. ASSUME Authenticate(s, "team", "workspace", NULL) PROVE RequestsOK' /\ PeopleInv'
  BY <1>5, <1>12, <1>4
<1>13. ASSUME \E w \in 1..MaxIds : Authenticate(s, "team", "switch", w) PROVE RequestsOK' /\ PeopleInv'
  BY <1>5, <1>13, <1>4
<1> QED  BY <1>1, <1>2, <1>3, <1>8, <1>9, <1>10, <1>11, <1>12, <1>13 DEF Asks

LEMMA BeginEnrollKeeps ==
  ASSUME RequestsOK, PeopleInv, NEW s \in Slots, BeginEnroll(s) PROVE RequestsOK' /\ PeopleInv'
<1>1. PICK ok \in BOOLEAN : ok <=> (MayEnroll(s) /\ Verified(s))
  OBVIOUS
<1>2. ReadUser(s, "enroll", ok)
  BY <1>1 DEF BeginEnroll, ReadUser
<1>3. ok => ~ users[Who(s)].enabled
  BY <1>1 DEF MayEnroll
<1> QED  BY <1>2, <1>3, ReadUserKeeps

LEMMA BeginOtherKeeps ==
  ASSUME RequestsOK, PeopleInv, NEW s \in Slots, BeginDisable(s) \/ BeginPassword(s)
  PROVE  RequestsOK' /\ PeopleInv'
<1>1. PICK ok \in BOOLEAN : ok <=> Verified(s)
  OBVIOUS
<1>2. ReadUser(s, "disable", ok) \/ ReadUser(s, "password", ok)
  BY <1>1 DEF BeginDisable, BeginPassword, ReadUser
<1> QED  BY <1>2, ReadUserKeeps

LEMMA AccountsKeep == ASSUME RequestsOK, PeopleInv, AccountsNext PROVE RequestsOK' /\ PeopleInv'
<1>1. ASSUME NEW s \in Slots, Asks(s) PROVE RequestsOK' /\ PeopleInv'
  BY <1>1, AsksKeeps
<1>2. ASSUME NEW s \in Slots, Answers(s) PROVE RequestsOK' /\ PeopleInv'
  BY <1>2, FoundKeeps, InviteKeeps, RevokeKeeps, JoinKeeps, CheckCodeKeeps, SignInKeeps, BeginEnrollKeeps,
     EnrollKeeps, ConfirmKeeps, BeginOtherKeeps, DisableKeeps, ChangePasswordKeeps, CreateWorkspaceKeeps,
     EnterKeeps, SwitchKeeps DEF Answers
<1> QED  BY <1>1, <1>2, ExpireKeeps, PruneInvitesKeeps, RestartKeeps DEF AccountsNext

-----------------------------------------------------------------------------
(* Settings: a form is worked off from its front.                          *)

Moves == {"set", "clear", "keep"} \X (Plain \cup Sealed)

LEMMA RangeSeq ==
  ASSUME NEW S, NEW t \in Seq(S), t # <<>>
  PROVE  t \in Seq({t[j] : j \in DOMAIN t}) /\ {t[j] : j \in DOMAIN t} \subseteq S
<1>1. Len(t) \in Nat /\ DOMAIN t = 1..Len(t) /\ \A j \in 1..Len(t) : t[j] \in S
  OBVIOUS
<1>2. t = [j \in 1..Len(t) |-> t[j]]
  OBVIOUS
<1> QED  BY <1>1, <1>2

LEMMA ShortSeq ==
  ASSUME NEW S, NEW x \in S, NEW y \in S, NEW z \in S
  PROVE  <<x, y>> \in Seq(S) /\ <<x, y>> # <<>> /\ <<x, y, z>> \in Seq(S) /\ <<x, y, z>> # <<>>
  OBVIOUS

LEMMA StatementsIsSeq ==
  ASSUME NEW f \in Forms
  PROVE  Statements(f) \in Seq(Steps(f)) /\ Statements(f) # <<>> /\ Steps(f) \subseteq Moves
<1>1. f.op \in {"general", "secrets", "drive", "outbound"}
  BY DEF Forms
<1>2. CASE f.op = "general"
  <2>1. Statements(f) = <<<<f.speed, "speed">>, <<"set", "utm">>>> /\ f.speed \in {"set", "keep"}
    BY <1>2 DEF Statements, Forms
  <2>2. <<f.speed, "speed">> \in Moves /\ <<"set", "utm">> \in Moves
    BY <2>1 DEF Moves, Plain
  <2> HIDE DEF Moves
  <2>3. Statements(f) \in Seq(Moves) /\ Statements(f) # <<>>
    BY <2>1, <2>2, ShortSeq
  <2> QED  BY <2>3, RangeSeq DEF Steps
<1>3. CASE f.op = "secrets"
  <2>1. \A k \in {"ai key", "mail key"} : SaveOrClear(f, k) \in {"set", "clear", "keep"}
    BY DEF SaveOrClear, SetSecret
  <2>2. Statements(f) = <<<<SaveOrClear(f, "ai key"), "ai key">>, <<SaveOrClear(f, "mail key"), "mail key">>>>
    BY <1>3 DEF Statements
  <2>3. <<SaveOrClear(f, "ai key"), "ai key">> \in Moves /\ <<SaveOrClear(f, "mail key"), "mail key">> \in Moves
    BY <2>1 DEF Moves, Sealed
  <2> HIDE DEF Moves
  <2>4. Statements(f) \in Seq(Moves) /\ Statements(f) # <<>>
    BY <2>2, <2>3, ShortSeq
  <2> QED  BY <2>4, RangeSeq DEF Steps
<1>4. CASE f.op = "drive"
  <2>1. PICK a \in {"set", "clear"}, b \in {"set", "keep"} :
          Statements(f) = <<<<"set", "drive">>, <<a, "folder">>, <<b, "service json">>>>
    BY <1>4 DEF Statements
  <2>2. <<"set", "drive">> \in Moves /\ <<a, "folder">> \in Moves /\ <<b, "service json">> \in Moves
    BY DEF Moves, Plain, Sealed
  <2> HIDE DEF Moves
  <2>3. Statements(f) \in Seq(Moves) /\ Statements(f) # <<>>
    BY <2>1, <2>2, ShortSeq
  <2> QED  BY <2>3, RangeSeq DEF Steps
<1>5. CASE f.op = "outbound"
  <2>1. PICK a \in {"set", "clear"}, b \in {"keep", "clear"}, c \in {"set", "clear", "keep"} :
          Statements(f) = <<<<a, "url">>, <<b, "signing">>, <<c, "signing">>>>
    BY <1>5 DEF Statements, SetSecret
  <2>2. <<a, "url">> \in Moves /\ <<b, "signing">> \in Moves /\ <<c, "signing">> \in Moves
    BY DEF Moves, Plain, Sealed
  <2> HIDE DEF Moves
  <2>3. Statements(f) \in Seq(Moves) /\ Statements(f) # <<>>
    BY <2>1, <2>2, ShortSeq
  <2> QED  BY <2>3, RangeSeq DEF Steps
<1> QED  BY <1>1, <1>2, <1>3, <1>4, <1>5

\* A secret is cleared by a form that says so.
Says(f, k) ==
  \/ f.op = "secrets" /\ f.typed[k] # "new" /\ (k \in f.clear \/ f.typed[k] = "spaces")
  \/ f.op = "outbound" /\ k = "signing" /\ (~ f.url \/ f.typed = "spaces")

LEMMA StepsOfTwo ==
  ASSUME NEW f, NEW x, NEW y, Statements(f) = <<x, y>> PROVE Steps(f) = {x, y}
<1>1. DOMAIN Statements(f) = {1, 2} /\ Statements(f)[1] = x /\ Statements(f)[2] = y
  OBVIOUS
<1> QED  BY <1>1 DEF Steps

LEMMA StepsOfThree ==
  ASSUME NEW f, NEW x, NEW y, NEW z, Statements(f) = <<x, y, z>> PROVE Steps(f) = {x, y, z}
<1>1. DOMAIN Statements(f) = {1, 2, 3} /\ Statements(f)[1] = x /\ Statements(f)[2] = y /\ Statements(f)[3] = z
  OBVIOUS
<1> QED  BY <1>1 DEF Steps

LEMMA ClearsAsSaid ==
  ASSUME NEW f \in Forms, NEW st \in Steps(f), st[1] = "clear", st[2] \in Sealed PROVE Says(f, st[2])
<1>1. f.op \in {"general", "secrets", "drive", "outbound"}
  BY DEF Forms
<1>2. CASE f.op = "general"
  <2>1. Statements(f) = <<<<f.speed, "speed">>, <<"set", "utm">>>>
    BY <1>2 DEF Statements
  <2>2. st = <<f.speed, "speed">> \/ st = <<"set", "utm">>
    BY <2>1, StepsOfTwo
  <2>3. st[2] \in {"speed", "utm"}
    BY <2>2
  <2> QED  BY <2>3 DEF Sealed
<1>3. CASE f.op = "secrets"
  <2>1. f.typed \in [{"ai key", "mail key"} -> Typed]
    BY <1>3 DEF Forms
  <2>2. Statements(f) = <<<<SaveOrClear(f, "ai key"), "ai key">>, <<SaveOrClear(f, "mail key"), "mail key">>>>
    BY <1>3 DEF Statements
  <2>3. PICK x, y : x = <<SaveOrClear(f, "ai key"), "ai key">> /\ y = <<SaveOrClear(f, "mail key"), "mail key">>
    OBVIOUS
  <2>7. st = x \/ st = y
    <3>1. Statements(f) = <<x, y>>
      BY <2>2, <2>3
    <3> QED  BY <3>1, StepsOfTwo
  <2>4. PICK k \in {"ai key", "mail key"} : st[2] = k /\ SaveOrClear(f, k) = "clear"
    <3>1. CASE st = x
      <4>1. st[1] = SaveOrClear(f, "ai key") /\ st[2] = "ai key"
        BY <2>3, <3>1
      <4> QED  BY <4>1
    <3>2. CASE st = y
      <4>1. st[1] = SaveOrClear(f, "mail key") /\ st[2] = "mail key"
        BY <2>3, <3>2
      <4> QED  BY <4>1
    <3> QED  BY <2>7, <3>1, <3>2
  <2>5. (f.typed[k] = "nothing" /\ k \in f.clear) \/ f.typed[k] = "spaces"
    BY <2>1, <2>4 DEF SaveOrClear, SetSecret, Typed
  <2> QED  BY <1>3, <2>4, <2>5 DEF Says
<1>4. CASE f.op = "drive"
  <2>1. PICK a \in {"set", "clear"}, b \in {"set", "keep"} :
          Statements(f) = <<<<"set", "drive">>, <<a, "folder">>, <<b, "service json">>>>
    BY <1>4 DEF Statements
  <2>2. PICK x, y, z : x = <<"set", "drive">> /\ y = <<a, "folder">> /\ z = <<b, "service json">>
    OBVIOUS
  <2>4. st = x \/ st = y \/ st = z
    <3>1. Statements(f) = <<x, y, z>>
      BY <2>1, <2>2
    <3> QED  BY <3>1, StepsOfThree
  <2>5. x[2] = "drive" /\ y[2] = "folder" /\ z[1] \in {"set", "keep"}
    BY <2>2
  <2>3. st[2] \in {"drive", "folder"} \/ st[1] \in {"set", "keep"}
    BY <2>4, <2>5
  <2> QED  BY <2>3 DEF Sealed
<1>5. CASE f.op = "outbound"
  <2>1. /\ f.typed \in Typed /\ f.url \in BOOLEAN
    BY <1>5 DEF Forms
  <2>2. Statements(f) = <<<<IF f.url THEN "set" ELSE "clear", "url">>,
                          <<IF f.url THEN "keep" ELSE "clear", "signing">>, <<SetSecret(f.typed), "signing">>>>
    BY <1>5 DEF Statements
  <2>3. \/ st = <<IF f.url THEN "set" ELSE "clear", "url">>
        \/ st = <<IF f.url THEN "keep" ELSE "clear", "signing">>
        \/ st = <<SetSecret(f.typed), "signing">>
    BY <2>2, StepsOfThree
  <2>4. st[2] # "url"
    BY DEF Sealed
  <2>5. st[2] = "signing" /\ (~ f.url \/ SetSecret(f.typed) = "clear")
    BY <2>3, <2>4
  <2>6. SetSecret(f.typed) = "clear" => f.typed = "spaces"
    BY <2>1 DEF SetSecret, Typed
  <2> QED  BY <1>5, <2>5, <2>6 DEF Says
<1> QED  BY <1>1, <1>2, <1>3, <1>4, <1>5

VaultStep ==
  \A k \in Sealed : k \in vault /\ k \notin vault' =>
    \E s \in Slots : At(s, "save", "second") /\ Says(requests[s].arg, k)

LEMMA RequireOwnerKeeps ==
  ASSUME RequestsOK, PeopleInv, NEW s \in Slots, RequireOwner(s) PROVE RequestsOK' /\ PeopleInv'
<1> DEFINE r == requests[s]
<1> DEFINE q == [r EXCEPT !.at = "second", !.row = Statements(r.arg)]
<1>1. UNCHANGED people /\ Kept /\ r.op = "save" /\ RequestOK(r, users, workspaces, minted)
  BY DEF RequireOwner, At, RequestsOK
<1>2. CASE Done(s)
  BY <1>1, <1>2, QuietKeeps
<1>3. CASE requests' = [requests EXCEPT ![s].at = "second", ![s].row = Statements(r.arg)]
  <2>1. requests' = [requests EXCEPT ![s] = q]
    BY <1>3 DEF RequestsOK
  <2>2. /\ DOMAIN q = Fields /\ q.op = "save" /\ q.who = r.who /\ q.role = r.role /\ q.ws = r.ws /\ q.top = r.top
        /\ q.row = Statements(r.arg) /\ q.arg = r.arg /\ q.at = "second"
    BY <1>1 DEF RequestOK, Fields
  <2>3. r.arg \in Forms
    BY <1>1 DEF RequestOK, SaveOK
  <2>4. q.row \in Seq(Steps(q.arg)) /\ q.row # <<>>
    BY <2>2, <2>3, StatementsIsSeq
  <2> HIDE DEF q
  <2>5. RequestOK(q, users, workspaces, minted)
    BY <1>1, <2>2, <2>3, <2>4 DEF RequestOK, SignedOK, PeopleOK, SaveOK, OwningOK, LinkOK, FormOK
  <2> QED  BY <1>1, <2>1, <2>5, GoesOnKeeps
<1> QED  BY <1>2, <1>3 DEF RequireOwner

LEMMA SaveKeyKeeps ==
  ASSUME RequestsOK, PeopleInv, SettingsTypeOK, NEW s \in Slots, SaveKey(s)
  PROVE  RequestsOK' /\ PeopleInv' /\ SettingsTypeOK' /\ VaultStep
<1> DEFINE r == requests[s]
<1> DEFINE todo == r.row
<1> DEFINE q == [r EXCEPT !.row = Tail(todo)]
<1>1. /\ UNCHANGED people /\ Kept /\ r.op = "save" /\ r.at = "second" /\ RequestOK(r, users, workspaces, minted)
      /\ At(s, "save", "second") /\ Store(Head(todo))
  BY DEF SaveKey, At, RequestsOK
<1>2. r.arg \in Forms /\ todo \in Seq(Steps(r.arg)) /\ todo # <<>>
  BY <1>1 DEF RequestOK, SaveOK
<1>3. Head(todo) \in Steps(r.arg) /\ Tail(todo) \in Seq(Steps(r.arg)) /\ (Len(todo) # 1 => Tail(todo) # <<>>)
  <2>1. PICK S : S = Steps(r.arg)
    OBVIOUS
  <2>2. PICK t \in Seq(S) : t = todo /\ t # <<>>
    BY <1>2, <2>1
  <2>3. Head(t) \in S /\ Tail(t) \in Seq(S) /\ Len(t) \in Nat /\ Len(Tail(t)) = Len(t) - 1
    BY <2>2
  <2>4. Len(t) # 1 => Tail(t) # <<>>
    BY <2>3
  <2> QED  BY <2>1, <2>2, <2>3, <2>4
<1>4. Head(todo) \in Moves
  BY <1>2, <1>3, StatementsIsSeq
<1>5. RequestsOK' /\ PeopleInv'
  <2>1. CASE Done(s)
    BY <1>1, <2>1, QuietKeeps
  <2>2. CASE Len(todo) # 1 /\ requests' = [requests EXCEPT ![s].row = Tail(todo)]
    <3>1. requests' = [requests EXCEPT ![s] = q]
      BY <2>2 DEF RequestsOK
    <3>2. /\ DOMAIN q = Fields /\ q.op = "save" /\ q.who = r.who /\ q.role = r.role /\ q.ws = r.ws /\ q.top = r.top
          /\ q.row = Tail(todo) /\ q.arg = r.arg /\ q.at = "second"
      BY <1>1 DEF RequestOK, Fields
    <3> HIDE DEF q
    <3>3. RequestOK(q, users, workspaces, minted)
      BY <1>1, <1>2, <1>3, <2>2, <3>2 DEF RequestOK, SignedOK, PeopleOK, SaveOK, OwningOK, LinkOK, FormOK
    <3> QED  BY <1>1, <3>1, <3>3, GoesOnKeeps
  <2> QED  BY <2>1, <2>2 DEF SaveKey
<1>6. SettingsTypeOK'
  BY <1>1, <1>4 DEF SettingsTypeOK, Store, Moves, Plain, Sealed
<1>7. VaultStep
  <2> SUFFICES ASSUME NEW k \in Sealed, k \in vault, k \notin vault'
      PROVE  Says(r.arg, k)
    BY <1>1 DEF VaultStep
  <2>1. Head(todo)[1] = "clear" /\ Head(todo)[2] = k
    BY <1>1, <1>4 DEF Store, Moves
  <2>2. PICK st \in Steps(r.arg) : st = Head(todo)
    BY <1>3
  <2> QED  BY <1>2, <2>1, <2>2, ClearsAsSaid
<1> QED  BY <1>5, <1>6, <1>7

LEMMA SettingsKeep ==
  ASSUME RequestsOK, PeopleInv, SettingsTypeOK, SettingsNext
  PROVE  RequestsOK' /\ PeopleInv' /\ SettingsTypeOK' /\ VaultStep
<1>1. PICK s \in Slots : (\E f \in Forms : SaveForm(s, f)) \/ RequireOwner(s) \/ SaveKey(s)
  BY DEF SettingsNext
<1>2. vault' = vault => SettingsTypeOK' /\ VaultStep
  BY DEF SettingsTypeOK, VaultStep, Plain, Sealed
<1>3. CASE \E f \in Forms : SaveForm(s, f)
  <2>1. PICK f \in Forms : Authenticate(s, "settings", "save", f) /\ vault' = vault
    BY <1>3 DEF SaveForm
  <2>2. ArgOK("save", f)
    BY DEF ArgOK, Guests
  <2> QED  BY <1>2, <2>1, <2>2, AuthenticateKeeps
<1>4. CASE RequireOwner(s)
  BY <1>2, <1>4, RequireOwnerKeeps DEF RequireOwner
<1>5. CASE SaveKey(s)
  BY <1>5, SaveKeyKeeps
<1> QED  BY <1>1, <1>3, <1>4, <1>5

-----------------------------------------------------------------------------
(* An enrolment is touched by a request to end it and two late writers.    *)

\* A row that keeps two factors on under their secret, if they were on.
Stays(u, v) == u.enabled => v.enabled /\ v.secret = u.secret

\* The writers of an enrolment of e, the row being v afterwards.
Writes(e, v) ==
  \E s \in Slots : LET r == requests[s] IN
    /\ r.who = e
    /\ \/ r.op = "disable" /\ r.at = "write"
       \/ r.op = "enroll" /\ r.at = "write" /\ ~r.row.enabled
       \/ /\ r.op = "login" /\ r.at = "verified" /\ r.row.enabled /\ r.row.plain
          /\ v.enabled /\ v.secret = r.row.secret

EnrolStep == \A e \in DOMAIN users : Stays(users[e], users'[e]) \/ Writes(e, users'[e])

LEMMA SameUsersStep == ASSUME users' = users PROVE EnrolStep
  BY DEF EnrolStep, Stays

LEMMA OneRowStep ==
  ASSUME NEW e, NEW u, Set(e, u), e \in DOMAIN users => Stays(users[e], u) \/ Writes(e, u) PROVE EnrolStep
<1>1. \A f \in DOMAIN users : users'[f] = IF f = e THEN u ELSE users[f]
  BY DEF Set, With
<1>2. \A f \in DOMAIN users : f # e => Stays(users[f], users'[f])
  BY <1>1 DEF Stays
<1>3. e \in DOMAIN users => users'[e] = u
  BY <1>1
<1> QED  BY <1>2, <1>3 DEF EnrolStep

\* A request that writes what it was asked to: an enrolment found it off.
LEMMA WriteStep ==
  ASSUME RequestsOK, PeopleInv, NEW s \in Slots, NEW u, Set(Who(s), u),
         requests[s].op \in {"enroll", "disable"}, requests[s].at = "write"
  PROVE  EnrolStep
<1>1. requests[s].op = "enroll" => ~ requests[s].row.enabled
  BY DEF RequestsOK, RequestOK, PeopleOK
<1>2. Writes(Who(s), u)
  BY <1>1 DEF Writes, Who
<1> QED  BY <1>2, OneRowStep

LEMMA AccountsEnrolStep == ASSUME RequestsOK, PeopleInv, AccountsNext PROVE EnrolStep
<1>1. CASE users' = users
  BY <1>1, SameUsersStep
<1>2. ASSUME NEW s \in Slots, Asks(s) PROVE users' = users
  BY <1>2 DEF Asks, BeginSetup, BeginAccept, BeginLogin, Arrive, Authenticate, people
<1>3. ASSUME NEW s \in Slots, Found(s) PROVE EnrolStep
  BY <1>3, SameUsersStep DEF Found, EnrolStep
<1>4. ASSUME NEW s \in Slots, Join(s) PROVE EnrolStep
  <2>1. CASE Arg(s).email \notin DOMAIN users
    <3>1. Set(Arg(s).email, NewUser(Arg(s).role, Arg(s).ws))
      BY <1>4, <2>1 DEF Join, Accept
    <3> QED  BY <2>1, <3>1, OneRowStep
  <2>2. CASE Arg(s).email \in DOMAIN users
    BY <1>4, <2>2, SameUsersStep DEF Join, Accept
  <2> QED  BY <2>1, <2>2
<1>5. ASSUME NEW s \in Slots, CheckCode(s) PROVE EnrolStep
  <2>1. CASE UNCHANGED users
    BY <2>1, SameUsersStep
  <2> DEFINE u == [users[Who(s)] EXCEPT !.secret = requests[s].row.secret, !.plain = FALSE]
  <2>2. CASE requests[s].row.enabled /\ requests[s].row.plain /\ Set(Who(s), u)
    <3>1. users[Who(s)] \in Row
      BY <1>5, UserIsThere DEF CheckCode, At
    <3>2. u.enabled = users[Who(s)].enabled /\ u.secret = requests[s].row.secret
      BY <3>1 DEF Row
    <3> HIDE DEF u
    <3>3. requests[s].op = "login" /\ requests[s].at = "verified"
      BY <1>5 DEF CheckCode, At
    <3>4. Stays(users[Who(s)], u) \/ Writes(Who(s), u)
      BY <2>2, <3>2, <3>3 DEF Stays, Writes, Who
    <3> QED  BY <2>2, <3>4, OneRowStep
  <2> QED  BY <1>5, <2>1, <2>2 DEF CheckCode, Who
<1>6. ASSUME NEW s \in Slots, Enroll(s) \/ Disable(s) PROVE EnrolStep
  <2>1. requests[s].op \in {"enroll", "disable"} /\ requests[s].at = "write" /\ \E u : Set(Who(s), u)
    BY <1>6 DEF Enroll, Disable, At
  <2> QED  BY <2>1, WriteStep
<1>7. ASSUME NEW s \in Slots, Confirm(s) \/ ChangePassword(s) \/ EnterWorkspace(s) \/ SwitchWorkspace(s)
      PROVE  EnrolStep
  <2>1. users[Who(s)] \in Row
    BY <1>7, UserIsThere DEF Confirm, ChangePassword, EnterWorkspace, SwitchWorkspace, At, Guests
  <2>2. CASE UNCHANGED users
    BY <2>2, SameUsersStep
  <2>3. CASE Set(Who(s), [users[Who(s)] EXCEPT !.enabled = TRUE])
    <3>1. Stays(users[Who(s)], [users[Who(s)] EXCEPT !.enabled = TRUE])
      BY <2>1 DEF Row, Stays
    <3> QED  BY <2>3, <3>1, OneRowStep
  <2>4. CASE Set(Who(s), [users[Who(s)] EXCEPT !.password = @ + 1])
    <3>1. Stays(users[Who(s)], [users[Who(s)] EXCEPT !.password = @ + 1])
      BY <2>1 DEF Row, Stays
    <3> QED  BY <2>4, <3>1, OneRowStep
  <2>5. CASE Set(Who(s), [users[Who(s)] EXCEPT !.ws = Arg(s)])
    <3>1. Stays(users[Who(s)], [users[Who(s)] EXCEPT !.ws = Arg(s)])
      BY <2>1 DEF Row, Stays
    <3> QED  BY <2>5, <3>1, OneRowStep
  <2> QED  BY <1>7, <2>2, <2>3, <2>4, <2>5 DEF Confirm, ChangePassword, EnterWorkspace, SwitchWorkspace, Who, Arg
<1>8. ASSUME NEW s \in Slots, Answers(s) PROVE EnrolStep
  <2>1. CASE \/ Invite(s) \/ Revoke(s) \/ SignIn(s) \/ BeginEnroll(s) \/ BeginDisable(s) \/ BeginPassword(s)
             \/ CreateWorkspace(s)
    BY <1>1, <2>1 DEF Invite, Revoke, SignIn, BeginEnroll, BeginDisable, BeginPassword, ReadUser, CreateWorkspace,
                      people
  <2> QED  BY <1>3, <1>4, <1>5, <1>6, <1>7, <1>8, <2>1 DEF Answers
<1>9. CASE (\E i \in invites : Expire(i)) \/ PruneInvites \/ Restart
  BY <1>1, <1>9 DEF Expire, PruneInvites, Restart, people
<1> QED  BY <1>1, <1>2, <1>8, <1>9 DEF AccountsNext

-----------------------------------------------------------------------------
(* The other parts of the panel move requests and leave people alone.      *)

LEMMA HandleKeeps == ASSUME RequestsOK, PeopleInv, NEW s \in Slots, NEW op, Handle(s, op) PROVE RequestsOK' /\ PeopleInv'
  BY QuietKeeps DEF Handle

LEMMA CatalogueKeeps ==
  ASSUME RequestsOK, PeopleInv, rows \subseteq Rows, CatalogueNext PROVE  RequestsOK' /\ PeopleInv'
<1>1. ASSUME NEW s \in Slots, Asked(s) PROVE RequestsOK' /\ PeopleInv'
  <2>1. CASE \E op \in {"create site", "clone site", "prompt", "status", "delete site", "test push", "create",
                        "update", "delete"} : \E arg : ArgOK(op, arg) /\ Demands(s, op, arg)
    <3>1. PICK op, arg : ArgOK(op, arg) /\ Demands(s, op, arg)
      BY <2>1
    <3> QED  BY <3>1, AuthenticateKeeps DEF Demands
  <2>2. ASSUME NEW n \in Names PROVE ArgOK("create site", n)
    BY DEF ArgOK, Guests
  <2>3. ASSUME NEW n \in Names, NEW d PROVE ArgOK("clone site", [site |-> d, name |-> n])
    BY DEF ArgOK, Guests
  <2>4. ASSUME NEW op \in {"prompt", "status", "delete site", "test push"}, NEW d PROVE ArgOK(op, d)
    BY DEF ArgOK, Guests
  <2>5. ASSUME NEW k \in {"campaign", "automation", "key", "template"}, NEW d, NEW ref
        PROVE  ArgOK("create", [kind |-> k, site |-> d, ref |-> ref])
    BY DEF ArgOK, Guests
  <2>6. ASSUME NEW x \in rows
        PROVE  /\ x.kind \in {"template", "automation"} => ArgOK("update", x)
               /\ x.kind \in {"template", "key"} => ArgOK("delete", x)
    BY DEF ArgOK, Guests
  <2>7. CASE \E k \in rows, d \in DOMAIN sites : ApiSend(s, k, d)
    <3>1. PICK k \in rows, d \in DOMAIN sites : ApiSend(s, k, d)
      BY <2>7
    <3> DEFINE r == [Idle EXCEPT !.op = "send", !.at = "act", !.ws = k.ws, !.role = "editor",
                                 !.arg = [scope |-> k.site, site |-> d]]
    <3>2. /\ DOMAIN r = Fields /\ r.op = "send" /\ r.at = "act" /\ r.who = NULL /\ r.role = "editor" /\ r.ws = k.ws
      BY DEF Idle, Fields
    <3>3. Arrive(s, "catalogue", r)
      BY <3>1 DEF ApiSend
    <3> HIDE DEF r
    <3>4. RequestOK(r, users, workspaces, minted)
      <4>1. k.ws \in 1..MaxIds
        BY DEF Rows
      <4> QED  BY <3>2, <4>1 DEF RequestOK, SignedOK, PeopleOK, SaveOK, OwningOK, LinkOK, FormOK, Guests, Roles, Edits
    <3> QED  BY <3>3, <3>4, ArriveKeeps
  <2>8. CASE \E n \in Names : Demands(s, "create site", n)
    BY <2>1, <2>2, <2>8
  <2>9. CASE \E d \in DOMAIN sites, n \in Names : Demands(s, "clone site", [site |-> d, name |-> n])
    BY <2>1, <2>3, <2>9
  <2>10. CASE \E op \in {"prompt", "status", "delete site", "test push"}, d \in DOMAIN sites : Demands(s, op, d)
    BY <2>1, <2>4, <2>10
  <2>11. CASE \E k \in {"campaign", "automation", "key", "template"}, d \in DOMAIN sites \cup {NULL},
                ref \in {x.id : x \in {y \in rows : y.kind = "segment"}} \cup {NULL} :
                (ref # NULL => k = "campaign") /\ Demands(s, "create", [kind |-> k, site |-> d, ref |-> ref])
    BY <2>1, <2>5, <2>11
  <2>12. CASE \E x \in rows : x.kind \in {"template", "automation"} /\ Demands(s, "update", x)
    BY <2>1, <2>6, <2>12
  <2>13. CASE \E x \in rows : x.kind \in {"template", "key"} /\ Demands(s, "delete", x)
    BY <2>1, <2>6, <2>13
  <2> QED  BY <1>1, <2>7, <2>8, <2>9, <2>10, <2>11, <2>12, <2>13 DEF Asked
<1>2. ASSUME NEW s \in Slots, NEW op, Handle(s, op) PROVE RequestsOK' /\ PeopleInv'
  BY <1>2, HandleKeeps
<1>3. CASE \E s \in Slots : \/ CreateDomain(s) \/ CloneDomain(s) \/ UpdatePrompt(s) \/ SetDomainStatus(s)
                           \/ DeleteDomain(s) \/ Create(s) \/ TestPush(s) \/ Update(s) \/ Delete(s) \/ CreateCampaign(s)
  BY <1>2, <1>3 DEF CreateDomain, CloneDomain, UpdatePrompt, SetDomainStatus, ChangeSite, DeleteDomain, Create,
                    TestPush, Update, Delete, CreateCampaign
<1>4. CASE (\E x \in rows : RunAutomation(x)) \/ Enqueue
  <2>1. UNCHANGED settingsVars
    BY <1>4 DEF RunAutomation, Enqueue
  <2> QED  BY <2>1, QuietKeeps DEF settingsVars, accountVars, Kept
<1> QED  BY <1>1, <1>3, <1>4 DEF CatalogueNext

LEMMA GotoKeeps ==
  ASSUME RequestsOK, PeopleInv, UNCHANGED people, Kept, NEW s \in Slots, requests[s].op = "visit", Goto(s, "render")
  PROVE  RequestsOK' /\ PeopleInv'
<1> DEFINE r == requests[s]
<1> DEFINE q == [r EXCEPT !.at = "render"]
<1>1. RequestOK(r, users, workspaces, minted)
  BY DEF RequestsOK
<1>2. /\ DOMAIN q = Fields /\ q.op = "visit" /\ q.who = r.who /\ q.role = r.role /\ q.arg = r.arg /\ q.row = r.row
  BY <1>1 DEF RequestOK, Fields
<1>3. requests' = [requests EXCEPT ![s] = q]
  BY DEF Goto
<1> HIDE DEF q
<1>4. RequestOK(q, users, workspaces, minted)
  BY <1>1, <1>2 DEF RequestOK, SignedOK, PeopleOK, SaveOK, OwningOK, LinkOK, FormOK, Guests
<1> QED  BY <1>3, <1>4, GoesOnKeeps

LEMMA ContinuesKeeps ==
  ASSUME RequestsOK, PeopleInv, NEW s \in Slots, requests[s].op \in {"create channel", "delete channel"},
         Edits(requests[s]), NEW arg, Continues(s, "second", arg)
  PROVE  RequestsOK' /\ PeopleInv'
<1> DEFINE r == requests[s]
<1> DEFINE q == [r EXCEPT !.at = "second", !.arg = arg]
<1>1. RequestOK(r, users, workspaces, minted) /\ UNCHANGED people /\ Kept
  BY DEF RequestsOK, Continues
<1>2. /\ DOMAIN q = Fields /\ q.op = r.op /\ q.who = r.who /\ q.role = r.role /\ q.ws = r.ws /\ q.top = r.top
  BY <1>1 DEF RequestOK, Fields
<1>3. requests' = [requests EXCEPT ![s] = q]
  BY DEF Continues, RequestsOK
<1> HIDE DEF q
<1>4. RequestOK(q, users, workspaces, minted)
  BY <1>1, <1>2 DEF RequestOK, SignedOK, PeopleOK, SaveOK, OwningOK, LinkOK, FormOK, Edits, Guests
<1> QED  BY <1>1, <1>3, <1>4, GoesOnKeeps

\* A link has its row.
LEMMA LinkNumber ==
  ASSUME rows \subseteq Rows, LinksTypeOK, NEW i \in DOMAIN landing
  PROVE  i \in 1..MaxRows /\ landing[i] \in Landing /\ \E x \in rows : x.id = i /\ x.kind = "link"
  BY DEF LinksTypeOK, Rows

LEMMA LinksKeep ==
  ASSUME RequestsOK, PeopleInv, rows \subseteq Rows, LinksTypeOK, LinksNext PROVE RequestsOK' /\ PeopleInv'
<1>1. ASSUME NEW s \in Slots, Request(s) PROVE RequestsOK' /\ PeopleInv'
  <2>1. ASSUME NEW op, NEW arg, ArgOK(op, arg), Wants(s, op, arg) PROVE RequestsOK' /\ PeopleInv'
    BY <2>1, AuthenticateKeeps DEF Wants
  <2>2. ASSUME NEW d, NEW forced \in BOOLEAN, NEW fallback \in BOOLEAN
        PROVE  ArgOK("create link", [site |-> d, forced |-> forced, fallback |-> fallback])
    BY DEF ArgOK, Guests
  <2>3. ASSUME NEW op \in {"delete link", "create channel", "toggle channel", "delete channel"}, NEW arg
        PROVE  ArgOK(op, arg)
    BY DEF ArgOK, Guests
  <2>4. CASE \E d \in DOMAIN sites \cup {NULL}, forced, fallback \in BOOLEAN :
               Wants(s, "create link", [site |-> d, forced |-> forced, fallback |-> fallback])
    BY <2>1, <2>2, <2>4
  <2>5. CASE \E op \in {"delete link", "create channel", "toggle channel", "delete channel"} : \E arg : Wants(s, op, arg)
    BY <2>1, <2>3, <2>5
  <2>6. CASE \E i \in DOMAIN landing : VisitLink(s, i)
    <3>1. PICK i \in DOMAIN landing : VisitLink(s, i)
      BY <2>6
    <3> DEFINE r == [Idle EXCEPT !.op = "visit", !.at = "act", !.arg = i,
                                 !.row = [link |-> landing[i], site |-> RowOf(i).site]]
    <3>2. /\ DOMAIN r = Fields /\ r.op = "visit" /\ r.who = NULL /\ r.role = "viewer" /\ r.arg = i
          /\ r.row.link = landing[i]
      BY DEF Idle, Fields
    <3>3. Arrive(s, "links", r)
      BY <3>1 DEF VisitLink
    <3>4. i \in 1..MaxRows /\ landing[i] \in Landing
      BY LinkNumber
    <3> HIDE DEF r
    <3>5. RequestOK(r, users, workspaces, minted)
      BY <3>2, <3>4 DEF RequestOK, SignedOK, PeopleOK, SaveOK, OwningOK, LinkOK, FormOK, Guests, Roles
    <3> QED  BY <3>3, <3>5, ArriveKeeps
  <2> QED  BY <1>1, <2>4, <2>5, <2>6 DEF Request
<1>2. ASSUME NEW s \in Slots, Subscribed(s) PROVE RequestsOK' /\ PeopleInv'
  <2> DEFINE r == [Idle EXCEPT !.op = "report", !.at = "act", !.arg = visit.link]
  <2>1. DOMAIN r = Fields /\ r.op = "report" /\ r.who = NULL /\ r.role = "viewer"
    BY DEF Idle, Fields
  <2>2. Arrive(s, "links", r)
    BY <1>2 DEF Subscribed
  <2> HIDE DEF r
  <2>3. RequestOK(r, users, workspaces, minted)
    BY <2>1 DEF RequestOK, SignedOK, PeopleOK, SaveOK, OwningOK, LinkOK, FormOK, Guests, Roles
  <2> QED  BY <2>2, <2>3, ArriveKeeps
<1>3. ASSUME NEW s \in Slots, CountVisit(s) PROVE RequestsOK' /\ PeopleInv'
  BY <1>3, QuietKeeps, GotoKeeps DEF CountVisit, At
<1>4. ASSUME NEW s \in Slots, CreateChannel(s) \/ DeleteChannel(s) PROVE RequestsOK' /\ PeopleInv'
  <2>1. requests[s].op \in {"create channel", "delete channel"}
    BY <1>4 DEF CreateChannel, DeleteChannel, At
  <2>2. CASE \E op : Handle(s, op)
    BY <2>2, HandleKeeps
  <2>3. CASE \E arg : Edits(requests[s]) /\ Continues(s, "second", arg)
    BY <2>1, <2>3, ContinuesKeeps
  <2> QED  BY <1>4, <2>2, <2>3 DEF CreateChannel, DeleteChannel
<1>5. ASSUME NEW s \in Slots,
             CreateLink(s) \/ DeleteLink(s) \/ ToggleChannel(s)
      PROVE  RequestsOK' /\ PeopleInv'
  BY <1>5, HandleKeeps DEF CreateLink, DeleteLink, ToggleChannel
<1>6. ASSUME NEW s \in Slots, InsertChannelRow(s) \/ DropChannelLink(s) \/ Render(s) \/ CountSubscriber(s)
      PROVE  RequestsOK' /\ PeopleInv'
  <2>1. Done(s) /\ Kept /\ UNCHANGED people
    BY <1>6 DEF InsertChannelRow, DropChannelLink, Render, CountSubscriber
  <2> QED  BY <2>1, QuietKeeps
<1>7. CASE PageStep
  <2>1. UNCHANGED catalogueVars
    BY <1>7 DEF PageStep, SdkLoads, Press, Skip, Attempt, GiveUp, Refused, MoveOn, AskFails, AskThrows, OnPage
  <2> QED  BY <2>1, QuietKeeps DEF catalogueVars, settingsVars, accountVars, Kept
<1> QED  BY <1>1, <1>2, <1>3, <1>4, <1>5, <1>6, <1>7 DEF LinksNext

LEMMA SegmentsKeep == ASSUME RequestsOK, PeopleInv, SegmentsNext PROVE RequestsOK' /\ PeopleInv'
<1>1. ASSUME NEW s \in Slots, NEW op \in {"create segment", "update segment"}, NEW i, SegmentForm(s, op, i)
      PROVE  RequestsOK' /\ PeopleInv'
  <2>1. PICK d \in Drafts, listed \in SUBSET DOMAIN sites :
          Authenticate(s, "segments", op, [id |-> i, rules |-> d, listed |-> listed])
    BY <1>1 DEF SegmentForm
  <2>2. ArgOK(op, [id |-> i, rules |-> d, listed |-> listed])
    BY DEF ArgOK, Guests
  <2> QED  BY <2>1, <2>2, AuthenticateKeeps
<1>2. ASSUME NEW s \in Slots, NEW i, Authenticate(s, "segments", "delete segment", i) PROVE RequestsOK' /\ PeopleInv'
  <2>1. ArgOK("delete segment", i)
    BY DEF ArgOK, Guests
  <2> QED  BY <1>2, <2>1, AuthenticateKeeps
<1>3. ASSUME NEW s \in Slots, CreateSegment(s) \/ UpdateSegment(s) \/ DeleteSegment(s) PROVE RequestsOK' /\ PeopleInv'
  BY <1>3, HandleKeeps DEF CreateSegment, UpdateSegment, DeleteSegment
<1> QED  BY <1>1, <1>2, <1>3 DEF SegmentsNext

-----------------------------------------------------------------------------
(* What statements do to the rows of a workspace.                          *)

Ids(R, k) == {x.id : x \in {y \in R : y.kind = k}}

\* A row rewritten keeps what others rely on; it may forget its site.
Alike(x, y) ==
  /\ x \in Rows /\ x.id = y.id /\ x.kind = y.kind /\ x.ws = y.ws /\ x.ref = y.ref /\ x.by = y.by
  /\ x.site \in {y.site, NULL}

\* No channel is new, or leads to another link.
ChannelsFrom == \A x \in rows' : x.kind = "channel" => \E y \in rows : y.kind = "channel" /\ y.ref = x.ref

LEMMA InsertKeeps ==
  ASSUME RowsCoherent, NEW x \in Rows, Insert(x), x.id = lastRow + 1, lastRow < MaxRows,
         UNCHANGED <<sites, lastSite>>, run' \in Rows \cup {NULL},
         x.kind \in {"template", "segment", "channel"} => x.site = NULL,
         x.kind = "channel" => x.ref \in 1..lastRow /\ \A y \in rows : y.kind = "channel" => y.ref # x.ref,
         x.site # NULL /\ ~ (x.kind = "campaign" /\ x.by = "automation") => Own(x, x.site)
  PROVE  /\ RowsCoherent' /\ Changed \subseteq {x.ws}
         /\ \A k : Ids(rows', k) = IF k = x.kind THEN Ids(rows, k) \cup {lastRow + 1} ELSE Ids(rows, k)
<1>1. rows' = rows \cup {x} /\ lastRow' = lastRow + 1 /\ lastRow \in 0..MaxRows /\ MaxRows \in Nat
  BY CatalogueAssumption DEF Insert, RowsCoherent, CatalogueTypeOK
<1>2. \A y \in rows : y \in Rows /\ y.id <= lastRow /\ y.id \in Nat /\ y.id # x.id
  BY <1>1 DEF RowsCoherent, CatalogueTypeOK, Numbered, Rows
<1>3. CatalogueTypeOK'
  <2>1. lastRow' \in 0..MaxRows
    BY <1>1
  <2>2. rows' \subseteq Rows /\ \A y, z \in rows' : y.id = z.id => y = z
    BY <1>1, <1>2 DEF RowsCoherent, CatalogueTypeOK
  <2> QED  BY <2>1, <2>2 DEF RowsCoherent, CatalogueTypeOK, Rows, Kinds, Site
<1>4. Numbered'
  BY <1>1, <1>2 DEF Numbered
<1>5. Siteless'
  BY <1>1 DEF RowsCoherent, Siteless
<1>6. NoStrays'
  BY <1>1 DEF RowsCoherent, NoStrays, Own
<1>7. OwnLinks'
  <2>1. \A y \in rows' : y.kind = "channel" => y.ref \in 1..lastRow'
    <3>1. 1..lastRow \subseteq 1..lastRow'
      BY <1>1
    <3> QED  BY <1>1, <3>1 DEF RowsCoherent, OwnLinks
  <2>2. \A y, z \in rows' : y.kind = "channel" /\ z.kind = "channel" /\ y.ref = z.ref => y = z
    BY <1>1 DEF RowsCoherent, OwnLinks
  <2> QED  BY <2>1, <2>2 DEF OwnLinks
<1>8. Changed \subseteq {x.ws}
  BY <1>1 DEF Changed
<1>9. ASSUME NEW k PROVE Ids(rows', k) = IF k = x.kind THEN Ids(rows, k) \cup {lastRow + 1} ELSE Ids(rows, k)
  BY <1>1 DEF Ids
<1> QED  BY <1>3, <1>4, <1>5, <1>6, <1>7, <1>8, <1>9 DEF RowsCoherent

\* Some rows go, others are rewritten, and sites stay.
LEMMA RewriteRowsKeeps ==
  ASSUME RowsCoherent, NEW S \in SUBSET rows, NEW g, rows' = {g[y] : y \in S}, \A y \in S : Alike(g[y], y),
         UNCHANGED lastRow, run' \in Rows \cup {NULL}, lastSite' \in 0..MaxSites, DOMAIN sites' \subseteq 1..lastSite',
         \A d \in DOMAIN sites' : sites'[d] \in Site,
         \A y \in S : g[y].site # NULL /\ Own(y, y.site) => g[y].site \in DOMAIN sites' /\ sites'[g[y].site].ws = y.ws
  PROVE  RowsCoherent' /\ ChannelsFrom /\ \A k : Ids(rows', k) = Ids(S, k)
<1>1. \A x \in rows' : \E y \in S : x = g[y] /\ Alike(x, y)
  OBVIOUS
<1>2. CatalogueTypeOK'
  <2>1. rows' \subseteq Rows
    BY <1>1 DEF Alike
  <2>2. \A w, x \in rows' : w.id = x.id => w = x
    BY <1>1 DEF Alike, RowsCoherent, CatalogueTypeOK
  <2> QED  BY <2>1, <2>2 DEF RowsCoherent, CatalogueTypeOK, Rows, Kinds, Site
<1>3. Numbered' /\ Siteless' /\ OwnLinks'
  <2>1. Numbered'
    BY <1>1 DEF Alike, RowsCoherent, Numbered
  <2>2. Siteless'
    BY <1>1 DEF Alike, RowsCoherent, Siteless
  <2>3. OwnLinks'
    BY <1>1 DEF Alike, RowsCoherent, OwnLinks
  <2> QED  BY <2>1, <2>2, <2>3
<1>4. NoStrays'
  BY <1>1 DEF Alike, RowsCoherent, NoStrays, Own
<1>5. ASSUME NEW k PROVE Ids(rows', k) = Ids(S, k)
  BY <1>1 DEF Ids, Alike
<1>6. ChannelsFrom
  BY <1>1 DEF Alike, ChannelsFrom
<1> QED  BY <1>2, <1>3, <1>4, <1>5, <1>6 DEF RowsCoherent

LEMMA RemoveKeeps ==
  ASSUME RowsCoherent, NEW x \in rows, Remove(x.id), UNCHANGED lastRow, SitesKept
  PROVE  /\ RowsCoherent' /\ Changed \subseteq {x.ws} /\ rows' = rows \ {x}
         /\ \A k : Ids(rows', k) = IF k = x.kind THEN Ids(rows, k) \ {x.id} ELSE Ids(rows, k)
<1> DEFINE S == {y \in rows : y.id # x.id}
<1> DEFINE g == [y \in rows |-> y]
<1>1. rows' = {g[y] : y \in S} /\ S \in SUBSET rows /\ rows' = S
  BY DEF Remove
<1>2. \A y \in rows : y.id = x.id => y = x
  BY DEF RowsCoherent, CatalogueTypeOK
<1>3. rows' = rows \ {x}
  BY <1>1, <1>2
<1>4. \A y \in S : Alike(g[y], y) /\ g[y] = y
  BY DEF Alike, RowsCoherent, CatalogueTypeOK
<1>5. /\ run' \in Rows \cup {NULL} /\ lastSite' \in 0..MaxSites /\ DOMAIN sites' \subseteq 1..lastSite'
      /\ \A d \in DOMAIN sites' : sites'[d] \in Site
  BY DEF SitesKept, RowsCoherent, CatalogueTypeOK
<1>6. \A y \in S : g[y].site # NULL /\ Own(y, y.site) => g[y].site \in DOMAIN sites' /\ sites'[g[y].site].ws = y.ws
  BY <1>4 DEF SitesKept, Own
<1>7. ASSUME NEW k PROVE Ids(rows', k) = IF k = x.kind THEN Ids(rows, k) \ {x.id} ELSE Ids(rows, k)
  BY <1>2, <1>3 DEF Ids
<1>8. Changed \subseteq {x.ws}
  BY <1>3 DEF Changed, SitesKept
<1> HIDE DEF S, g
<1> QED  BY <1>1, <1>3, <1>4, <1>5, <1>6, <1>7, <1>8, RewriteRowsKeeps

\* The row of an id.
LEMMA RowOfIs ==
  ASSUME RowsCoherent, NEW x \in rows PROVE RowOf(x.id) = x
<1>1. \A y \in rows : y.id = x.id => y = x
  BY DEF RowsCoherent, CatalogueTypeOK
<1> QED  BY <1>1 DEF RowOf

LEMMA EditKeeps ==
  ASSUME RowsCoherent, NEW x \in rows, Edit(x.id, [RowOf(x.id) EXCEPT !.on = ~ @]), UNCHANGED lastRow, SitesKept
  PROVE  RowsCoherent' /\ Changed \subseteq {x.ws} /\ ChannelsFrom /\ \A k : Ids(rows', k) = Ids(rows, k)
<1> DEFINE z == [x EXCEPT !.on = ~ x.on]
<1> DEFINE g == [y \in rows |-> IF y.id = x.id THEN z ELSE y]
<1>1. rows' = {IF y.id = x.id THEN z ELSE y : y \in rows}
  BY RowOfIs DEF Edit
<1>2. rows' = {g[y] : y \in rows}
  BY <1>1
<1>3. \A y \in rows : y \in Rows /\ (y.id = x.id => y = x)
  BY DEF RowsCoherent, CatalogueTypeOK
<1>4. Alike(z, x) /\ z.site = x.site /\ z.ws = x.ws
  BY <1>3 DEF Alike, Rows
<1>5. \A y \in rows : Alike(y, y)
  BY <1>3 DEF Alike
<1>6. \A y \in rows : Alike(g[y], y) /\ g[y].site = y.site
  BY <1>3, <1>4, <1>5
<1>7. /\ run' \in Rows \cup {NULL} /\ lastSite' \in 0..MaxSites /\ DOMAIN sites' \subseteq 1..lastSite'
      /\ \A d \in DOMAIN sites' : sites'[d] \in Site
  BY DEF SitesKept, RowsCoherent, CatalogueTypeOK
<1>8. \A y \in rows : g[y].site # NULL /\ Own(y, y.site) => g[y].site \in DOMAIN sites' /\ sites'[g[y].site].ws = y.ws
  BY <1>6 DEF SitesKept, Own
<1>9. Changed \subseteq {x.ws}
  <2>1. \A w \in rows \ rows' : w = x
    BY <1>1, <1>3
  <2>2. \A w \in rows' \ rows : w = z
    BY <1>1
  <2> HIDE DEF z
  <2> QED  BY <1>4, <2>1, <2>2 DEF Changed, SitesKept
<1> HIDE DEF g, z
<1>10. RowsCoherent' /\ ChannelsFrom /\ \A k : Ids(rows', k) = Ids(rows, k)
  <2>1. PICK S \in SUBSET rows : S = rows
    OBVIOUS
  <2>2. rows' = {g[y] : y \in S} /\ \A y \in S : Alike(g[y], y)
    BY <1>2, <1>6, <2>1
  <2>3. \A y \in S : g[y].site # NULL /\ Own(y, y.site) => g[y].site \in DOMAIN sites' /\ sites'[g[y].site].ws = y.ws
    BY <1>8, <2>1
  <2>4. RowsCoherent' /\ ChannelsFrom /\ \A k : Ids(rows', k) = Ids(S, k)
    BY <1>7, <2>2, <2>3, RewriteRowsKeeps
  <2> QED  BY <2>1, <2>4
<1> QED  BY <1>9, <1>10

LEMMA AddSiteKeeps ==
  ASSUME RowsCoherent, NEW ws \in 1..MaxIds, NEW name \in Names, NEW prompt \in {"auto", "edited"},
         lastSite < MaxSites, AddSite(ws, name, prompt), RowsKept
  PROVE  RowsCoherent' /\ Changed \subseteq {ws}
<1> DEFINE z == [ws |-> ws, name |-> name, active |-> TRUE, prompt |-> prompt]
<1>1. /\ lastSite \in 0..MaxSites /\ MaxSites \in Nat /\ lastSite' = lastSite + 1 /\ DOMAIN sites \subseteq 1..lastSite
      /\ \A d \in DOMAIN sites : sites[d] \in Site
  BY CatalogueAssumption DEF RowsCoherent, CatalogueTypeOK, AddSite
<1>2. sites' = [d \in DOMAIN sites \cup {lastSite + 1} |-> IF d = lastSite + 1 THEN z ELSE sites[d]]
  BY DEF AddSite
<1>3. lastSite + 1 \notin DOMAIN sites
  BY <1>1
<1>4. z \in Site /\ z.ws = ws
  BY DEF Site
<1> HIDE DEF z
<1>5. /\ DOMAIN sites' = DOMAIN sites \cup {lastSite + 1} /\ sites'[lastSite + 1] = z
      /\ \A d \in DOMAIN sites : sites'[d] = sites[d]
  BY <1>2, <1>3
<1>6. lastSite' \in 0..MaxSites /\ DOMAIN sites' \subseteq 1..lastSite' /\ \A d \in DOMAIN sites' : sites'[d] \in Site
  BY <1>1, <1>4, <1>5
<1>7. CatalogueTypeOK'
  BY <1>6 DEF RowsCoherent, CatalogueTypeOK, RowsKept, Rows, Kinds, Site
<1>8. Numbered' /\ Siteless' /\ OwnLinks'
  BY DEF RowsCoherent, Numbered, Siteless, OwnLinks, RowsKept
<1>9. NoStrays'
  BY <1>5 DEF RowsCoherent, NoStrays, RowsKept, Own
<1>10. Changed \subseteq {ws}
  BY <1>4, <1>5 DEF Changed, RowsKept
<1> QED  BY <1>7, <1>8, <1>9, <1>10 DEF RowsCoherent

LEMMA ChangeSiteKeeps ==
  ASSUME RowsCoherent, NEW d \in DOMAIN sites, NEW z \in Site, z.ws = sites[d].ws,
         sites' = [sites EXCEPT ![d] = z], UNCHANGED lastSite, RowsKept
  PROVE  RowsCoherent' /\ Changed \subseteq {z.ws}
<1>1. DOMAIN sites' = DOMAIN sites /\ \A e \in DOMAIN sites : sites'[e] = IF e = d THEN z ELSE sites[e]
  OBVIOUS
<1>2. CatalogueTypeOK'
  BY <1>1 DEF RowsCoherent, CatalogueTypeOK, RowsKept, Rows, Kinds, Site
<1>3. Numbered' /\ Siteless' /\ OwnLinks'
  BY DEF RowsCoherent, Numbered, Siteless, OwnLinks, RowsKept
<1>4. NoStrays'
  BY <1>1 DEF RowsCoherent, NoStrays, RowsKept, Own
<1>5. Changed \subseteq {z.ws}
  BY <1>1 DEF Changed, RowsKept
<1> QED  BY <1>2, <1>3, <1>4, <1>5 DEF RowsCoherent

\* A site goes with what lives for it; the links that named it forget it.
LEMMA DeleteSiteKeeps ==
  ASSUME RowsCoherent, NEW d \in DOMAIN sites, NEW ws, sites[d].ws = ws,
         sites' = [e \in DOMAIN sites \ {d} |-> sites[e]],
         rows' = {IF (x.site = d /\ x.ws = ws) /\ x.kind \in {"link", "channel"} THEN [x EXCEPT !.site = NULL] ELSE x :
                   x \in {y \in rows : ~ ((y.site = d /\ y.ws = ws) /\ y.kind \in Purged)}},
         UNCHANGED <<lastSite, lastRow, run>>
  PROVE  /\ RowsCoherent' /\ Changed \subseteq {ws} /\ ChannelsFrom
         /\ \A k \in {"link", "channel", "segment"} : Ids(rows', k) = Ids(rows, k)
<1> DEFINE S == {y \in rows : ~ ((y.site = d /\ y.ws = ws) /\ y.kind \in Purged)}
<1> DEFINE h(x) == IF (x.site = d /\ x.ws = ws) /\ x.kind \in {"link", "channel"} THEN [x EXCEPT !.site = NULL] ELSE x
<1> DEFINE g == [y \in rows |-> h(y)]
<1>1. rows' = {g[y] : y \in S} /\ S \in SUBSET rows
  OBVIOUS
<1>2. \A y \in rows : y \in Rows
  BY DEF RowsCoherent, CatalogueTypeOK
<1>3. \A y \in rows : Alike(g[y], y) /\ g[y].site = (IF (y.site = d /\ y.ws = ws) /\ y.kind \in {"link", "channel"} THEN NULL ELSE y.site)
  <2> TAKE y \in rows
  <2>1. y \in Rows
    BY <1>2
  <2>2. CASE (y.site = d /\ y.ws = ws) /\ y.kind \in {"link", "channel"}
    <3>1. g[y] = [y EXCEPT !.site = NULL]
      BY <2>2
    <3> QED  BY <2>1, <2>2, <3>1 DEF Alike, Rows
  <2>3. CASE ~ ((y.site = d /\ y.ws = ws) /\ y.kind \in {"link", "channel"})
    <3>1. g[y] = y
      BY <2>3
    <3> QED  BY <2>1, <2>3, <3>1 DEF Alike
  <2> QED  BY <2>2, <2>3
<1>4. DOMAIN sites' = DOMAIN sites \ {d} /\ \A e \in DOMAIN sites' : sites'[e] = sites[e]
  OBVIOUS
<1>5. /\ run' \in Rows \cup {NULL} /\ lastSite' \in 0..MaxSites /\ DOMAIN sites' \subseteq 1..lastSite'
      /\ \A e \in DOMAIN sites' : sites'[e] \in Site
  BY <1>4 DEF RowsCoherent, CatalogueTypeOK
<1>6. \A y \in S : g[y].site # NULL /\ Own(y, y.site) => g[y].site \in DOMAIN sites' /\ sites'[g[y].site].ws = y.ws
  <2> SUFFICES ASSUME NEW y \in S, g[y].site # NULL, Own(y, y.site)
      PROVE  g[y].site \in DOMAIN sites' /\ sites'[g[y].site].ws = y.ws
    OBVIOUS
  <2>1. g[y].site = y.site /\ ~ ((y.site = d /\ y.ws = ws) /\ y.kind \in {"link", "channel"})
    BY <1>3
  <2>2. y.site # d
    <3> SUFFICES ASSUME y.site = d PROVE FALSE
      OBVIOUS
    <3>1. y.ws = ws
      BY DEF Own
    <3>2. y.kind \notin {"link", "channel"} /\ y.kind \notin Purged
      BY <2>1, <3>1
    <3>3. y.kind \in {"template", "segment"}
      BY <1>2, <3>2 DEF Rows, Kinds, Purged
    <3>4. y.site = NULL
      BY <3>3 DEF RowsCoherent, Siteless
    <3> QED  BY <2>1, <3>4
  <2> QED  BY <1>4, <2>1, <2>2 DEF Own
<1>7. \A k \in {"link", "channel", "segment"} : Ids(S, k) = Ids(rows, k)
  BY DEF Ids, Purged
<1>8. Changed \subseteq {ws}
  <2>1. \A y \in rows \ rows' : y.ws = ws
    <3> SUFFICES ASSUME NEW y \in rows, y.ws # ws PROVE y \in rows'
      OBVIOUS
    <3>1. y \in S /\ g[y] = y
      OBVIOUS
    <3> QED  BY <1>1, <3>1
  <2>2. \A x \in rows' \ rows : x.ws = ws
    <3> SUFFICES ASSUME NEW x \in rows', x \notin rows PROVE x.ws = ws
      OBVIOUS
    <3>1. PICK y \in S : x = g[y]
      BY <1>1
    <3>2. g[y] # y /\ y \in rows
      BY <3>1
    <3>3. y.ws = ws
      BY <3>2
    <3>4. g[y].ws = y.ws
      BY <1>3 DEF Alike
    <3> QED  BY <3>1, <3>3, <3>4
  <2> HIDE DEF g, h, S
  <2>3. \A w \in {sites[e].ws : e \in {f \in DOMAIN sites : f \notin DOMAIN sites' \/ sites'[f] # sites[f]}} : w = ws
    BY <1>4
  <2>4. DOMAIN sites' \ DOMAIN sites = {}
    BY <1>4
  <2> QED  BY <2>1, <2>2, <2>3, <2>4 DEF Changed
<1> HIDE DEF g, h, S
<1>9. RowsCoherent' /\ ChannelsFrom /\ \A k : Ids(rows', k) = Ids(S, k)
  <2>1. \A y \in S : Alike(g[y], y)
    BY <1>1, <1>3
  <2>2. UNCHANGED lastRow
    OBVIOUS
  <2> QED  BY <1>1, <1>5, <1>6, <2>1, <2>2, RewriteRowsKeeps
<1> QED  BY <1>7, <1>8, <1>9

-----------------------------------------------------------------------------
(* What a workspace owns: every statement stays inside its workspace and   *)
(* leaves links, channels and segments their rows.                         *)

WallStep ==
  run = NULL \/ run' = run =>
    \A w \in Changed : \E s \in Slots : requests[s].ws = w /\ Edits(requests[s]) /\ requests'[s] # requests[s]

LinkedStay == ChannelsFrom /\ \A k \in {"link", "segment"} : Ids(rows', k) = Ids(rows, k)

RowsStep == RowsCoherent' /\ WallStep /\ LinkedStay

LEMMA NothingStep == ASSUME RowsCoherent, UNCHANGED ownings, run' \in Rows \cup {NULL} PROVE RowsStep
<1>1. UNCHANGED <<sites, lastSite, rows, lastRow>>
  BY DEF ownings
<1>2. RowsCoherent'
  <2>1. CatalogueTypeOK'
    BY <1>1 DEF RowsCoherent, CatalogueTypeOK, Rows, Kinds, Site
  <2>2. Numbered' /\ Siteless' /\ NoStrays' /\ OwnLinks'
    BY <1>1 DEF RowsCoherent, Numbered, Siteless, NoStrays, OwnLinks, Own
  <2> QED  BY <2>1, <2>2 DEF RowsCoherent
<1>3. WallStep
  BY <1>1 DEF WallStep, Changed
<1>4. LinkedStay
  BY <1>1 DEF LinkedStay, ChannelsFrom, Ids
<1> QED  BY <1>2, <1>3, <1>4 DEF RowsStep

LEMMA HandleWall ==
  ASSUME RequestsOK, NEW s \in Slots, requests[s].op # "none", Done(s), Edits(requests[s]),
         NEW w, Changed \subseteq {w}, requests[s].ws = w
  PROVE  WallStep
<1>1. requests'[s] = Idle /\ Idle.op = "none"
  BY DEF Done, RequestsOK, Idle
<1>2. requests'[s] # requests[s]
  BY <1>1
<1> QED  BY <1>2 DEF WallStep

\* The workspace of a request is one there is, and its site one of them.
LEMMA RequestWs ==
  ASSUME RequestsOK, PeopleInv, NEW s \in Slots, requests[s].op \notin Guests \/ requests[s].op = "send"
  PROVE  requests[s].ws \in 1..MaxIds
<1>1. workspaces \in 0..MaxIds /\ MaxIds \in Nat
  BY AccountAssumption DEF PeopleInv, AccountsTypeOK
<1>2. CASE requests[s].op = "send"
  BY <1>2 DEF RequestsOK, RequestOK, OwningOK
<1>3. CASE requests[s].op \notin Guests
  <2>1. requests[s].ws \in 1..workspaces
    BY <1>3 DEF RequestsOK, RequestOK, SignedOK
  <2> QED  BY <1>1, <2>1
<1> QED  BY <1>2, <1>3

LEMMA SiteNumber == ASSUME RowsCoherent, NEW d \in DOMAIN sites PROVE d \in 1..MaxSites /\ sites[d] \in Site
<1>1. d \in 1..lastSite /\ lastSite \in 0..MaxSites /\ MaxSites \in Nat /\ sites[d] \in Site
  BY CatalogueAssumption DEF RowsCoherent, CatalogueTypeOK
<1> QED  BY <1>1

\* A row that is neither a link, a segment nor a channel is inserted.
LEMMA NewRowKeeps ==
  ASSUME RequestsOK, RowsCoherent, NEW s \in Slots, requests[s].op # "none", Done(s), Edits(requests[s]),
         requests[s].ws \in 1..MaxIds, NEW k \in {"campaign", "automation", "key", "template"},
         NEW d, NEW ref \in 1..MaxRows \cup {NULL}, NEW by \in {"panel", "api", "automation"},
         d = NULL \/ Own(requests[s], d), k = "template" => d = NULL, lastRow < MaxRows,
         Insert(NewRow(k, requests[s].ws, d, ref, by)), SitesKept
  PROVE  RowsStep
<1> DEFINE x == NewRow(k, requests[s].ws, d, ref, by)
<1>1. lastRow \in 0..MaxRows /\ MaxRows \in Nat /\ run \in Rows \cup {NULL}
  BY CatalogueAssumption DEF RowsCoherent, CatalogueTypeOK
<1>2. d \in 1..MaxSites \cup {NULL}
  BY SiteNumber DEF Own
<1>3. /\ x.kind = k /\ x.id = lastRow + 1 /\ x.ws = requests[s].ws /\ x.site = d
  BY DEF NewRow
<1>4. x \in Rows
  <2>1. lastRow + 1 \in 1..MaxRows /\ k \in Kinds
    BY <1>1 DEF Kinds
  <2> QED  BY <1>2, <2>1 DEF NewRow, Rows
<1>5. x.site # NULL => Own(x, x.site)
  BY <1>3 DEF Own
<1>6. Insert(x) /\ UNCHANGED <<sites, lastSite>> /\ run' = run
  BY DEF SitesKept
<1> HIDE DEF x
<1>7. /\ RowsCoherent' /\ Changed \subseteq {x.ws}
      /\ \A j : Ids(rows', j) = IF j = x.kind THEN Ids(rows, j) \cup {lastRow + 1} ELSE Ids(rows, j)
  BY <1>1, <1>3, <1>4, <1>5, <1>6, InsertKeeps
<1>8. LinkedStay
  <2>1. rows' = rows \cup {x}
    BY <1>6 DEF Insert
  <2> QED  BY <1>3, <1>7, <2>1 DEF LinkedStay, ChannelsFrom
<1>9. WallStep
  BY <1>3, <1>7, HandleWall
<1> QED  BY <1>7, <1>8, <1>9 DEF RowsStep

LEMMA NoneStep == ASSUME RowsCoherent, Nothing PROVE RowsStep
<1>1. UNCHANGED ownings /\ run' \in Rows \cup {NULL}
  BY DEF Nothing, RowsCoherent, CatalogueTypeOK
<1> QED  BY <1>1, NothingStep

LEMMA SitesStep ==
  ASSUME RequestsOK, NEW s \in Slots, requests[s].op # "none", Done(s), Edits(requests[s]),
         RowsCoherent', Changed \subseteq {requests[s].ws}, RowsKept
  PROVE  RowsStep
<1>1. WallStep
  BY HandleWall
<1>2. LinkedStay
  BY DEF LinkedStay, ChannelsFrom, Ids, RowsKept
<1> QED  BY <1>1, <1>2 DEF RowsStep

LEMMA CreateDomainKeeps == ASSUME RequestsOK, PeopleInv, RowsCoherent, NEW s \in Slots, CreateDomain(s) PROVE RowsStep
<1>1. requests[s].op = "create site" /\ Done(s)
  BY DEF CreateDomain, Handle, At
<1>2. requests[s].ws \in 1..MaxIds /\ requests[s].arg \in Names
  BY <1>1, RequestWs DEF Guests, RequestsOK, RequestOK, OwningOK
<1>3. CASE Nothing
  BY <1>3, NoneStep
<1>4. CASE Edits(requests[s]) /\ lastSite < MaxSites /\ AddSite(requests[s].ws, requests[s].arg, "auto") /\ RowsKept
  <2>1. RowsCoherent' /\ Changed \subseteq {requests[s].ws}
    BY <1>2, <1>4, AddSiteKeeps
  <2> QED  BY <1>1, <1>4, <2>1, SitesStep
<1> QED  BY <1>3, <1>4 DEF CreateDomain

LEMMA CloneDomainKeeps == ASSUME RequestsOK, PeopleInv, RowsCoherent, NEW s \in Slots, CloneDomain(s) PROVE RowsStep
<1> DEFINE r == requests[s]
<1>1. r.op = "clone site" /\ Done(s)
  BY DEF CloneDomain, Handle, At
<1>2. r.ws \in 1..MaxIds /\ r.arg.name \in Names
  BY <1>1, RequestWs DEF Guests, RequestsOK, RequestOK, OwningOK
<1>3. CASE Nothing
  BY <1>3, NoneStep
<1>4. CASE /\ Edits(r) /\ Own(r, r.arg.site) /\ lastSite < MaxSites
           /\ AddSite(r.ws, r.arg.name, sites[r.arg.site].prompt) /\ RowsKept
  <2>1. sites[r.arg.site].prompt \in {"auto", "edited"}
    BY <1>4, SiteNumber DEF Own, Site
  <2>2. RowsCoherent' /\ Changed \subseteq {r.ws}
    BY <1>2, <1>4, <2>1, AddSiteKeeps
  <2> QED  BY <1>1, <1>4, <2>2, SitesStep
<1> QED  BY <1>3, <1>4 DEF CloneDomain

LEMMA ChangeKeeps ==
  ASSUME RequestsOK, RowsCoherent, NEW s \in Slots, UpdatePrompt(s) \/ SetDomainStatus(s) PROVE RowsStep
<1> DEFINE r == requests[s]
<1>1. r.op \in {"prompt", "status"} /\ Done(s)
  BY DEF UpdatePrompt, SetDomainStatus, ChangeSite, Handle, At
<1>2. CASE Nothing
  BY <1>2, NoneStep
<1>3. CASE /\ Edits(r) /\ Own(r, r.arg) /\ UNCHANGED lastSite /\ RowsKept
           /\ \/ sites' = [sites EXCEPT ![r.arg] = [sites[r.arg] EXCEPT !.prompt = "edited"]]
              \/ sites' = [sites EXCEPT ![r.arg] = [sites[r.arg] EXCEPT !.active = ~ @]]
  <2>1. r.arg \in DOMAIN sites /\ sites[r.arg] \in Site /\ sites[r.arg].ws = r.ws
    BY <1>3, SiteNumber DEF Own
  <2>2. \E z \in Site : z.ws = sites[r.arg].ws /\ sites' = [sites EXCEPT ![r.arg] = z]
    <3>1. [sites[r.arg] EXCEPT !.prompt = "edited"] \in Site /\ [sites[r.arg] EXCEPT !.prompt = "edited"].ws = sites[r.arg].ws
      BY <2>1 DEF Site
    <3>2. [sites[r.arg] EXCEPT !.active = ~ @] \in Site /\ [sites[r.arg] EXCEPT !.active = ~ @].ws = sites[r.arg].ws
      BY <2>1 DEF Site
    <3> QED  BY <1>3, <3>1, <3>2
  <2>3. PICK z \in Site : z.ws = sites[r.arg].ws /\ sites' = [sites EXCEPT ![r.arg] = z]
    BY <2>2
  <2>4. RowsCoherent' /\ Changed \subseteq {z.ws}
    BY <1>3, <2>1, <2>3, ChangeSiteKeeps
  <2> QED  BY <1>1, <1>3, <2>1, <2>3, <2>4, SitesStep
<1> QED  BY <1>2, <1>3 DEF UpdatePrompt, SetDomainStatus, ChangeSite

LEMMA DeleteDomainKeeps == ASSUME RequestsOK, RowsCoherent, NEW s \in Slots, DeleteDomain(s) PROVE RowsStep
<1> DEFINE r == requests[s]
<1>1. r.op = "delete site" /\ Done(s)
  BY DEF DeleteDomain, Handle, At
<1>2. CASE Nothing
  BY <1>2, NoneStep
<1>3. CASE ~ Nothing
  <2>1. /\ Edits(r) /\ Own(r, r.arg) /\ sites' = [d \in DOMAIN sites \ {r.arg} |-> sites[d]]
        /\ rows' = {IF (x.site = r.arg /\ x.ws = r.ws) /\ x.kind \in {"link", "channel"} THEN [x EXCEPT !.site = NULL]
                    ELSE x : x \in {y \in rows : ~ ((y.site = r.arg /\ y.ws = r.ws) /\ y.kind \in Purged)}}
        /\ UNCHANGED <<lastSite, lastRow, run>>
    BY <1>3 DEF DeleteDomain
  <2>2. r.arg \in DOMAIN sites /\ sites[r.arg].ws = r.ws
    BY <2>1 DEF Own
  <2>3. /\ RowsCoherent' /\ Changed \subseteq {r.ws} /\ ChannelsFrom
        /\ \A k \in {"link", "channel", "segment"} : Ids(rows', k) = Ids(rows, k)
    BY <2>1, <2>2, DeleteSiteKeeps
  <2>4. WallStep
    BY <1>1, <2>1, <2>3, HandleWall
  <2> QED  BY <2>3, <2>4 DEF RowsStep, LinkedStay
<1> QED  BY <1>2, <1>3

LEMMA CreateKeeps == ASSUME RequestsOK, PeopleInv, RowsCoherent, NEW s \in Slots, Create(s) PROVE RowsStep
<1> DEFINE r == requests[s]
<1> DEFINE a == r.arg
<1>1. r.op = "create" /\ Done(s)
  BY DEF Create, Handle, At
<1>2. r.ws \in 1..MaxIds /\ a.kind \in {"campaign", "automation", "key", "template"}
  BY <1>1, RequestWs DEF Guests, RequestsOK, RequestOK, OwningOK
<1>3. CASE Nothing
  BY <1>3, NoneStep
<1>4. CASE ~ Nothing
  <2>1. /\ MayMake(r, a.kind) /\ MayName(r, a.kind, a.site) /\ lastRow < MaxRows
        /\ a.ref = NULL \/ OwnRow(r, "segment", a.ref)
        /\ Insert(NewRow(a.kind, r.ws, a.site, a.ref, "panel")) /\ SitesKept
    BY <1>4 DEF Create
  <2>2. Edits(r)
    BY <2>1 DEF MayMake, Manages, Edits
  <2>3. (a.site = NULL \/ Own(r, a.site)) /\ (a.kind = "template" => a.site = NULL)
    BY <1>2, <2>1 DEF MayName, OwnActive
  <2>4. a.ref \in 1..MaxRows \cup {NULL}
    BY <2>1 DEF OwnRow, RowsCoherent, CatalogueTypeOK, Rows
  <2> QED  BY <1>1, <1>2, <2>1, <2>2, <2>3, <2>4, NewRowKeeps
<1> QED  BY <1>3, <1>4

LEMMA TestPushKeeps == ASSUME RequestsOK, PeopleInv, RowsCoherent, NEW s \in Slots, TestPush(s) PROVE RowsStep
<1> DEFINE r == requests[s]
<1>1. r.op = "test push" /\ Done(s)
  BY DEF TestPush, Handle, At
<1>2. r.ws \in 1..MaxIds
  BY <1>1, RequestWs DEF Guests
<1>3. CASE Nothing
  BY <1>3, NoneStep
<1>4. CASE /\ Edits(r) /\ Own(r, r.arg) /\ lastRow < MaxRows /\ SitesKept
           /\ Insert(NewRow("campaign", r.ws, r.arg, NULL, "panel"))
  BY <1>1, <1>2, <1>4, NewRowKeeps
<1> QED  BY <1>3, <1>4 DEF TestPush, OwnActive

LEMMA CreateCampaignKeeps ==
  ASSUME RequestsOK, PeopleInv, RowsCoherent, NEW s \in Slots, CreateCampaign(s) PROVE RowsStep
<1> DEFINE r == requests[s]
<1>1. r.op = "send" /\ Done(s)
  BY DEF CreateCampaign, Handle, At
<1>2. r.ws \in 1..MaxIds /\ Edits(r)
  BY <1>1, RequestWs DEF RequestsOK, RequestOK, OwningOK
<1>3. CASE Nothing
  BY <1>3, NoneStep
<1>4. CASE /\ Own(r, r.arg.site) /\ lastRow < MaxRows /\ SitesKept
           /\ Insert(NewRow("campaign", r.ws, r.arg.site, NULL, "api"))
  BY <1>1, <1>2, <1>4, NewRowKeeps
<1> QED  BY <1>3, <1>4 DEF CreateCampaign, OwnActive

LEMMA UpdateKeeps == ASSUME RequestsOK, RowsCoherent, NEW s \in Slots, Update(s) PROVE RowsStep
<1> DEFINE r == requests[s]
<1>1. r.op = "update" /\ Done(s)
  BY DEF Update, Handle, At
<1>2. CASE Nothing
  BY <1>2, NoneStep
<1>3. CASE ~ Nothing
  <2>1. /\ Edits(r) /\ OwnRow(r, r.arg.kind, r.arg.id) /\ UNCHANGED lastRow /\ SitesKept
        /\ Edit(r.arg.id, [RowOf(r.arg.id) EXCEPT !.on = ~ @])
    BY <1>3 DEF Update
  <2>2. PICK x \in rows : x.id = r.arg.id /\ x.ws = r.ws
    BY <2>1 DEF OwnRow
  <2>3. RowsCoherent' /\ Changed \subseteq {x.ws} /\ ChannelsFrom /\ \A k : Ids(rows', k) = Ids(rows, k)
    BY <2>1, <2>2, EditKeeps
  <2>4. WallStep
    BY <1>1, <2>1, <2>2, <2>3, HandleWall
  <2> QED  BY <2>3, <2>4 DEF RowsStep, LinkedStay
<1> QED  BY <1>2, <1>3

LEMMA DeleteKeeps == ASSUME RequestsOK, RowsCoherent, NEW s \in Slots, Delete(s) PROVE RowsStep
<1> DEFINE r == requests[s]
<1>1. r.op = "delete" /\ Done(s) /\ r.arg.kind \in {"template", "key"}
  BY DEF Delete, Handle, At, RequestsOK, RequestOK, OwningOK
<1>2. CASE Nothing
  BY <1>2, NoneStep
<1>3. CASE ~ Nothing
  <2>1. /\ MayMake(r, r.arg.kind) /\ OwnRow(r, r.arg.kind, r.arg.id) /\ UNCHANGED lastRow /\ SitesKept
        /\ Remove(r.arg.id)
    BY <1>3 DEF Delete
  <2>2. PICK x \in rows : x.id = r.arg.id /\ x.ws = r.ws /\ x.kind \in {"template", "key"}
    BY <1>1, <2>1 DEF OwnRow
  <2>3. /\ RowsCoherent' /\ Changed \subseteq {x.ws} /\ rows' = rows \ {x}
        /\ \A k : Ids(rows', k) = IF k = x.kind THEN Ids(rows, k) \ {x.id} ELSE Ids(rows, k)
    BY <2>1, <2>2, RemoveKeeps
  <2>4. Edits(r)
    BY <2>1 DEF MayMake, Manages, Edits
  <2>5. WallStep
    BY <1>1, <2>2, <2>3, <2>4, HandleWall
  <2>6. LinkedStay
    BY <2>2, <2>3 DEF LinkedStay, ChannelsFrom
  <2> QED  BY <2>3, <2>5, <2>6 DEF RowsStep
<1> QED  BY <1>2, <1>3

\* The campaign of an automation, whose site may be gone by now.
LEMMA EnqueueKeeps == ASSUME RowsCoherent, Enqueue PROVE RowsStep
<1>1. run # NULL /\ run' = NULL /\ run \in Rows /\ UNCHANGED <<sites, lastSite>>
  BY DEF Enqueue, RowsCoherent, CatalogueTypeOK
<1>2. WallStep
  BY <1>1 DEF WallStep
<1>3. CASE UNCHANGED <<rows, lastRow>>
  <2>1. UNCHANGED ownings
    BY <1>1, <1>3 DEF ownings
  <2> QED  BY <1>1, <2>1, NothingStep
<1>4. CASE lastRow < MaxRows /\ Insert(NewRow("campaign", run.ws, run.site, NULL, "automation"))
  <2> DEFINE x == NewRow("campaign", run.ws, run.site, NULL, "automation")
  <2>1. x.kind = "campaign" /\ x.id = lastRow + 1 /\ x.by = "automation"
    BY DEF NewRow
  <2>2. x \in Rows
    <3>1. lastRow + 1 \in 1..MaxRows
      BY <1>4, CatalogueAssumption DEF RowsCoherent, CatalogueTypeOK
    <3>2. run.ws \in 1..MaxIds /\ run.site \in 1..MaxSites \cup {NULL}
      BY <1>1 DEF Rows
    <3> QED  BY <3>1, <3>2 DEF NewRow, Rows, Kinds
  <2>3. Insert(x)
    BY <1>4
  <2> HIDE DEF x
  <2>4. /\ RowsCoherent'
        /\ \A j : Ids(rows', j) = IF j = x.kind THEN Ids(rows, j) \cup {lastRow + 1} ELSE Ids(rows, j)
    BY <1>1, <1>4, <2>1, <2>2, <2>3, InsertKeeps
  <2>5. LinkedStay
    BY <2>1, <2>3, <2>4 DEF LinkedStay, ChannelsFrom, Insert
  <2> QED  BY <1>2, <2>4, <2>5 DEF RowsStep
<1> QED  BY <1>3, <1>4 DEF Enqueue

LEMMA CatalogueRowsStep ==
  ASSUME RequestsOK, PeopleInv, RowsCoherent, CatalogueNext PROVE RowsStep /\ UNCHANGED vault
<1>1. ASSUME NEW s \in Slots, Asked(s) PROVE RowsStep /\ UNCHANGED vault
  <2>1. Nothing /\ UNCHANGED vault
    BY <1>1 DEF Asked, Demands, ApiSend
  <2> QED  BY <2>1, NoneStep
<1>2. ASSUME NEW s \in Slots,
             \/ CreateDomain(s) \/ CloneDomain(s) \/ UpdatePrompt(s) \/ SetDomainStatus(s) \/ DeleteDomain(s)
             \/ Create(s) \/ TestPush(s) \/ Update(s) \/ Delete(s) \/ CreateCampaign(s)
      PROVE  RowsStep /\ UNCHANGED vault
  <2>1. UNCHANGED vault
    BY <1>2 DEF CreateDomain, CloneDomain, UpdatePrompt, SetDomainStatus, ChangeSite, DeleteDomain, Create,
                TestPush, Update, Delete, CreateCampaign, Handle
  <2> QED  BY <1>2, <2>1, CreateDomainKeeps, CloneDomainKeeps, ChangeKeeps, DeleteDomainKeeps, CreateKeeps,
              TestPushKeeps, UpdateKeeps, DeleteKeeps, CreateCampaignKeeps
<1>3. ASSUME NEW x \in rows, RunAutomation(x) PROVE RowsStep /\ UNCHANGED vault
  <2>1. UNCHANGED ownings /\ UNCHANGED vault /\ run' \in Rows \cup {NULL}
    BY <1>3 DEF RunAutomation, settingsVars, RowsCoherent, CatalogueTypeOK
  <2> QED  BY <2>1, NothingStep
<1>4. CASE Enqueue
  BY <1>4, EnqueueKeeps DEF Enqueue, settingsVars
<1> QED  BY <1>1, <1>2, <1>3, <1>4 DEF CatalogueNext

-----------------------------------------------------------------------------
(* Handlers that stay at a place of Midway.                                *)

Second == {"create channel", "delete channel"}

\* A request that moves while no other is midway is midway alone.
LEMMA MidwayAlone ==
  ASSUME RequestsOK, NEW s \in Slots, Undisturbed(s), NEW r, requests' = [requests EXCEPT ![s] = r],
         r.op = "create channel" /\ r.at = "second" =>
           /\ \E x \in rows' : x.id = r.arg /\ x.kind = "link" /\ x.ws = r.ws
           /\ \A x \in rows' : x.kind = "channel" => x.ref # r.arg,
         r.op = "delete channel" /\ r.at = "second" => \A x \in rows' : x.kind = "channel" => x.ref # r.arg
  PROVE  ChannelMidway'
<1>1. requests'[s] = r /\ \A t \in Slots \ {s} : requests'[t] = requests[t] /\ requests[t].at # "second"
  BY DEF RequestsOK, Undisturbed, Midway
<1> QED  BY <1>1 DEF ChannelMidway

LEMMA MidwayDone == ASSUME RequestsOK, NEW s \in Slots, Undisturbed(s), Done(s) PROVE ChannelMidway'
<1>1. Idle.op = "none"
  BY DEF Idle
<1> QED  BY <1>1, MidwayAlone DEF Done

LEMMA MidwayBegins ==
  ASSUME RequestsOK, NEW s \in Slots, NEW r, r.at # "second",
         Free(s), Take(s, r)
  PROVE  ChannelMidway'
  BY MidwayAlone DEF Free, Take

LEMMA MidwayAuthenticates ==
  ASSUME RequestsOK, NEW s \in Slots, NEW part, NEW op, NEW arg, Authenticate(s, part, op, arg) PROVE ChannelMidway'
<1>1. PICK t \in sessions : Free(s) /\ Take(s, Signed(t, op, arg))
  BY DEF Authenticate
<1>2. Signed(t, op, arg).at = "act"
  BY DEF Signed, Idle
<1>3. PICK r : r = Signed(t, op, arg)
  OBVIOUS
<1> QED  BY <1>1, <1>2, <1>3, MidwayBegins

LEMMA MidwayArrives ==
  ASSUME RequestsOK, NEW s \in Slots, NEW part, NEW r, r.at # "second", Arrive(s, part, r) PROVE ChannelMidway'
  BY MidwayBegins DEF Arrive

\* Nobody moves, and channels and links have their rows.
LEMMA MidwayWaits ==
  ASSUME ChannelMidway, ChannelsFrom, UNCHANGED requests, \A x \in rows : x.kind = "link" => x \in rows'
  PROVE  ChannelMidway'
<1> SUFFICES ASSUME NEW s \in Slots, requests[s].at = "second"
    PROVE  /\ requests[s].op = "create channel" =>
                /\ \E x \in rows' : x.id = requests[s].arg /\ x.kind = "link" /\ x.ws = requests[s].ws
                /\ \A x \in rows' : x.kind = "channel" => x.ref # requests[s].arg
           /\ requests[s].op = "delete channel" => \A x \in rows' : x.kind = "channel" => x.ref # requests[s].arg
  BY DEF ChannelMidway
<1>1. (\A x \in rows : x.kind = "channel" => x.ref # requests[s].arg) =>
        \A x \in rows' : x.kind = "channel" => x.ref # requests[s].arg
  BY DEF ChannelsFrom
<1>2. requests[s].op = "create channel" =>
        /\ \E x \in rows : x.id = requests[s].arg /\ x.kind = "link" /\ x.ws = requests[s].ws
        /\ \A x \in rows : x.kind = "channel" => x.ref # requests[s].arg
  BY DEF ChannelMidway
<1>3. requests[s].op = "delete channel" => \A x \in rows : x.kind = "channel" => x.ref # requests[s].arg
  BY DEF ChannelMidway
<1> QED  BY <1>1, <1>2, <1>3

LEMMA MidwayGoes ==
  ASSUME RequestsOK, NEW s \in Slots, NEW at, Undisturbed(s), at # "second", Goto(s, at) PROVE ChannelMidway'
<1> DEFINE r == [requests[s] EXCEPT !.at = at]
<1>1. DOMAIN requests[s] = Fields
  BY DEF RequestsOK, RequestOK
<1>2. r.at = at /\ requests' = [requests EXCEPT ![s] = r]
  BY <1>1 DEF Goto, Fields
<1> HIDE DEF r
<1> QED  BY <1>2, MidwayAlone

LEMMA AccountsMidway == ASSUME RequestsOK, ChannelMidway, AccountsNext, UNCHANGED rows PROVE ChannelMidway'
<1>1. ASSUME NEW s \in Slots, Asks(s) PROVE ChannelMidway'
  <2>1. CASE \E part, op, arg : Authenticate(s, part, op, arg)
    BY <2>1, MidwayAuthenticates
  <2>2. CASE \E e \in Emails : BeginSetup(s, e)
    <3>1. PICK r : r.at # "second" /\ Arrive(s, "accounts", r)
      BY <2>2 DEF BeginSetup, Idle
    <3> QED  BY <3>1, MidwayArrives
  <2>3. CASE \E i \in invites : BeginAccept(s, i)
    <3>1. PICK r : r.at # "second" /\ Arrive(s, "accounts", r)
      BY <2>3 DEF BeginAccept, Idle
    <3> QED  BY <3>1, MidwayArrives
  <2>4. CASE \E e \in DOMAIN users : BeginLogin(s, e)
    <3>1. PICK r : r.at # "second" /\ Arrive(s, "accounts", r)
      BY <2>4 DEF BeginLogin, Idle
    <3> QED  BY <3>1, MidwayArrives
  <2> QED  BY <1>1, <2>1, <2>2, <2>3, <2>4 DEF Asks
<1>2. ASSUME NEW s \in Slots, Answers(s) PROVE ChannelMidway'
  <2>1. Undisturbed(s)
    BY <1>2 DEF Answers, Found, Invite, Revoke, Join, CheckCode, SignIn, BeginEnroll, Enroll, Confirm, BeginDisable,
                Disable, BeginPassword, ReadUser, ChangePassword, CreateWorkspace, EnterWorkspace, SwitchWorkspace, At
  <2>2. CASE Done(s)
    BY <2>1, <2>2, MidwayDone
  <2>3. CASE Goto(s, "sign")
    BY <2>1, <2>3, MidwayGoes
  <2>4. CASE \E op : /\ requests[s].op = op /\ op \notin Second
                     /\ \E at, arg : requests' = [requests EXCEPT ![s].at = at, ![s].arg = arg]
    <3>1. PICK at, arg : requests' = [requests EXCEPT ![s].at = at, ![s].arg = arg]
      BY <2>4
    <3> DEFINE q == [requests[s] EXCEPT !.at = at, !.arg = arg]
    <3>2. DOMAIN requests[s] = Fields
      BY DEF RequestsOK, RequestOK
    <3>3. q.op \notin Second /\ requests' = [requests EXCEPT ![s] = q]
      BY <2>4, <3>1, <3>2 DEF Fields, RequestsOK
    <3> HIDE DEF q
    <3> QED  BY <2>1, <3>3, MidwayAlone DEF Second
  <2>5. CASE \E row : requests' = [requests EXCEPT ![s].at = "write", ![s].row = row]
    <3>1. PICK row : requests' = [requests EXCEPT ![s].at = "write", ![s].row = row]
      BY <2>5
    <3> DEFINE q == [requests[s] EXCEPT !.at = "write", !.row = row]
    <3>2. DOMAIN requests[s] = Fields
      BY DEF RequestsOK, RequestOK
    <3>3. q.at = "write" /\ requests' = [requests EXCEPT ![s] = q]
      BY <3>1, <3>2 DEF Fields, RequestsOK
    <3> HIDE DEF q
    <3> QED  BY <2>1, <3>3, MidwayAlone
  <2>6. Done(s) \/ Goto(s, "sign") \/ (\E row : requests' = [requests EXCEPT ![s].at = "write", ![s].row = row])
        \/ CreateWorkspace(s)
    BY <1>2 DEF Answers, Found, Invite, Revoke, Join, CheckCode, SignIn, BeginEnroll, Enroll, Confirm, BeginDisable,
                Disable, BeginPassword, ReadUser, ChangePassword, EnterWorkspace, SwitchWorkspace
  <2>7. CreateWorkspace(s) => Done(s) \/ (/\ requests[s].op = "workspace"
                                         /\ \E at, arg : requests' = [requests EXCEPT ![s].at = at, ![s].arg = arg])
    BY DEF CreateWorkspace, At
  <2> QED  BY <2>2, <2>3, <2>4, <2>5, <2>6, <2>7 DEF Second
<1>3. CASE (\E i \in invites : Expire(i)) \/ PruneInvites
  <2>1. UNCHANGED requests
    BY <1>3 DEF Expire, PruneInvites
  <2> QED  BY <2>1 DEF ChannelMidway
<1>4. CASE Restart
  BY <1>4 DEF Restart, ChannelMidway, Idle
<1> QED  BY <1>1, <1>2, <1>3, <1>4 DEF AccountsNext

LEMMA SettingsMidway == ASSUME RequestsOK, SettingsNext PROVE ChannelMidway'
<1>1. PICK s \in Slots : (\E f \in Forms : SaveForm(s, f)) \/ RequireOwner(s) \/ SaveKey(s)
  BY DEF SettingsNext
<1>2. CASE \E f \in Forms : SaveForm(s, f)
  BY <1>2, MidwayAuthenticates DEF SaveForm
<1>3. CASE RequireOwner(s) \/ SaveKey(s)
  <2>1. Undisturbed(s) /\ requests[s].op = "save"
    BY <1>3 DEF RequireOwner, SaveKey, At
  <2>2. CASE Done(s)
    BY <2>1, <2>2, MidwayDone
  <2>3. CASE \E at, row : requests' = [requests EXCEPT ![s].at = at, ![s].row = row]
    <3>1. PICK at, row : requests' = [requests EXCEPT ![s].at = at, ![s].row = row]
      BY <2>3
    <3> DEFINE q == [requests[s] EXCEPT !.at = at, !.row = row]
    <3>2. DOMAIN requests[s] = Fields
      BY DEF RequestsOK, RequestOK
    <3>3. q.op = "save" /\ requests' = [requests EXCEPT ![s] = q]
      BY <2>1, <3>1, <3>2 DEF Fields, RequestsOK
    <3> HIDE DEF q
    <3> QED  BY <2>1, <3>3, MidwayAlone
  <2>4. CASE \E row : requests' = [requests EXCEPT ![s].row = row]
    <3>1. PICK row : requests' = [requests EXCEPT ![s].row = row]
      BY <2>4
    <3> DEFINE q == [requests[s] EXCEPT !.row = row]
    <3>2. DOMAIN requests[s] = Fields
      BY DEF RequestsOK, RequestOK
    <3>3. q.op = "save" /\ requests' = [requests EXCEPT ![s] = q]
      BY <2>1, <3>1, <3>2 DEF Fields, RequestsOK
    <3> HIDE DEF q
    <3> QED  BY <2>1, <3>3, MidwayAlone
  <2> QED  BY <1>3, <2>2, <2>3, <2>4 DEF RequireOwner, SaveKey
<1> QED  BY <1>1, <1>2, <1>3

LEMMA CatalogueMidway ==
  ASSUME RequestsOK, ChannelMidway, RowsCoherent, RowsStep, CatalogueNext PROVE ChannelMidway'
<1>1. ASSUME NEW s \in Slots, Asked(s) PROVE ChannelMidway'
  <2>1. CASE \E op, arg : Demands(s, op, arg)
    BY <2>1, MidwayAuthenticates DEF Demands
  <2>2. CASE \E k \in rows, d \in DOMAIN sites : ApiSend(s, k, d)
    <3>1. PICK r : r.at # "second" /\ Arrive(s, "catalogue", r)
      BY <2>2 DEF ApiSend, Idle
    <3> QED  BY <3>1, MidwayArrives
  <2> QED  BY <1>1, <2>1, <2>2 DEF Asked
<1>2. ASSUME NEW s \in Slots, NEW op, Handle(s, op) PROVE ChannelMidway'
  BY <1>2, MidwayDone DEF Handle, At
<1>3. CASE \E x \in rows : RunAutomation(x)
  <2>1. UNCHANGED <<requests, rows>>
    BY <1>3 DEF RunAutomation, settingsVars, accountVars, ownings
  <2> QED  BY <2>1 DEF ChannelMidway
<1>4. CASE Enqueue
  <2>1. UNCHANGED requests /\ rows \subseteq rows'
    BY <1>4 DEF Enqueue, settingsVars, accountVars, Insert
  <2> QED  BY <2>1, MidwayWaits DEF RowsStep, LinkedStay
<1>5. CASE \E s \in Slots : \/ CreateDomain(s) \/ CloneDomain(s) \/ UpdatePrompt(s) \/ SetDomainStatus(s)
                           \/ DeleteDomain(s) \/ Create(s) \/ TestPush(s) \/ Update(s) \/ Delete(s) \/ CreateCampaign(s)
  BY <1>2, <1>5 DEF CreateDomain, CloneDomain, UpdatePrompt, SetDomainStatus, ChangeSite, DeleteDomain, Create,
                    TestPush, Update, Delete, CreateCampaign
<1> QED  BY <1>1, <1>3, <1>4, <1>5 DEF CatalogueNext

LEMMA SegmentsMidway == ASSUME RequestsOK, SegmentsNext PROVE ChannelMidway'
<1>1. PICK s \in Slots :
        \/ \E op, i : SegmentForm(s, op, i) \/ Authenticate(s, "segments", op, i)
        \/ CreateSegment(s) \/ UpdateSegment(s) \/ DeleteSegment(s)
  BY DEF SegmentsNext
<1>2. CASE \E op, i : SegmentForm(s, op, i) \/ Authenticate(s, "segments", op, i)
  BY <1>2, MidwayAuthenticates DEF SegmentForm
<1>3. CASE CreateSegment(s) \/ UpdateSegment(s) \/ DeleteSegment(s)
  BY <1>3, MidwayDone DEF CreateSegment, UpdateSegment, DeleteSegment, Handle, At
<1> QED  BY <1>1, <1>2, <1>3

-----------------------------------------------------------------------------
(* Links: a channel has its link, wherever a handler stops.                *)

Owning == RequestsOK /\ PeopleInv /\ RowsInv /\ LinksTypeOK /\ ChannelLinked
LinksStep ==
  /\ RowsCoherent' /\ WallStep /\ ChannelMidway' /\ LinksTypeOK' /\ ChannelLinked'
  /\ Ids(rows', "segment") = Ids(rows, "segment")

LEMMA LinksTyped ==
  ASSUME LinksTypeOK, DOMAIN landing' = Ids(rows', "link"), \A i \in DOMAIN landing' : landing'[i] \in Landing,
         UNCHANGED visit
  PROVE  LinksTypeOK'
  BY DEF LinksTypeOK, Ids, Landing, Page

LEMMA LinksOfRows == ASSUME LinksTypeOK PROVE DOMAIN landing = Ids(rows, "link") /\ \A i \in DOMAIN landing : landing[i] \in Landing
  BY DEF LinksTypeOK, Ids

LEMMA LinkPut ==
  ASSUME NEW i, NEW l, WithLink(i, l)
  PROVE  DOMAIN landing' = DOMAIN landing \cup {i} /\ \A j \in DOMAIN landing' : landing'[j] = IF j = i THEN l ELSE landing[j]
  BY DEF WithLink

LEMMA LinkDropped ==
  ASSUME NEW i, DropLink(i)
  PROVE  DOMAIN landing' = DOMAIN landing \ {i} /\ \A j \in DOMAIN landing' : landing'[j] = landing[j]
  BY DEF DropLink

LEMMA NewLandingIs == ASSUME NEW forced \in BOOLEAN, NEW fallback \in BOOLEAN PROVE NewLanding(forced, fallback) \in Landing
  BY DEF NewLanding, Landing

\* Links do not change; rows may, those of links and segments aside.
LEMMA LinksRest ==
  ASSUME LinksTypeOK, ChannelLinked, LinkedStay, UNCHANGED <<landing, visit>>, byHand \subseteq byHand'
  PROVE  LinksTypeOK' /\ ChannelLinked' /\ Ids(rows', "segment") = Ids(rows, "segment")
<1>1. LinksTypeOK'
  BY LinksOfRows, LinksTyped DEF LinkedStay
<1>2. ChannelLinked'
  BY DEF ChannelLinked, LinkedStay, ChannelsFrom
<1> QED  BY <1>1, <1>2 DEF LinkedStay

LEMMA LinksNothing ==
  ASSUME Owning, UNCHANGED ownings, run' = run, UNCHANGED <<landing, visit>>, byHand \subseteq byHand', ChannelMidway'
  PROVE  LinksStep
<1>1. run' \in Rows \cup {NULL}
  BY DEF Owning, RowsInv, RowsCoherent, CatalogueTypeOK
<1>2. RowsStep
  BY <1>1, NothingStep DEF Owning, RowsInv
<1> QED  BY <1>2, LinksRest DEF RowsStep, LinksStep, Owning

LEMMA WallBy ==
  ASSUME NEW s \in Slots, Edits(requests[s]), requests'[s] # requests[s], NEW w, Changed \subseteq {w}, requests[s].ws = w
  PROVE  WallStep
  BY DEF WallStep

\* A request inserts a link or a channel: what it has checked, and what the insertion leaves.
NewLinkAsked(s, k, d, ref) ==
    /\ requests[s].op \notin Guests /\ requests'[s] # requests[s] /\ Edits(requests[s])
    /\ k \in {"link", "channel"} /\ ref \in 1..MaxRows \cup {NULL}
    /\ d = NULL \/ Own(requests[s], d)
    /\ k = "channel" => /\ d = NULL /\ ref \in 1..lastRow
                        /\ \A y \in rows : y.kind = "channel" => y.ref # ref
    /\ lastRow < MaxRows /\ Insert(NewRow(k, requests[s].ws, d, ref, "panel")) /\ SitesKept

NewLinkMade(s, k, ref) ==
    /\ RowsCoherent' /\ WallStep
    /\ \A j \in {"link", "segment"} :
          Ids(rows', j) = IF j = k THEN Ids(rows, j) \cup {lastRow + 1} ELSE Ids(rows, j)
    /\ \E x \in rows' : /\ rows' = rows \cup {x} /\ x.id = lastRow + 1 /\ x.kind = k
                        /\ x.ref = ref /\ x.ws = requests[s].ws

LEMMA NewLinkKeeps ==
  ASSUME Owning, NEW s \in Slots, NEW k, NEW d, NEW ref, NewLinkAsked(s, k, d, ref)
  PROVE  NewLinkMade(s, k, ref)
<1> USE DEF NewLinkAsked
<1> DEFINE x == NewRow(k, requests[s].ws, d, ref, "panel")
<1>1. lastRow \in 0..MaxRows /\ MaxRows \in Nat /\ run \in Rows \cup {NULL}
  BY CatalogueAssumption DEF Owning, RowsInv, RowsCoherent, CatalogueTypeOK
<1>2. d \in 1..MaxSites \cup {NULL}
  BY SiteNumber DEF Own, Owning, RowsInv
<1>3. /\ x.kind = k /\ x.id = lastRow + 1 /\ x.ws = requests[s].ws /\ x.site = d /\ x.ref = ref
  BY DEF NewRow
<1>4. x \in Rows
  <2>1. lastRow + 1 \in 1..MaxRows /\ k \in Kinds /\ requests[s].ws \in 1..MaxIds
    BY <1>1, RequestWs DEF Kinds, Owning
  <2> QED  BY <1>2, <2>1 DEF NewRow, Rows
<1>5. x.site # NULL => Own(x, x.site)
  BY <1>3 DEF Own
<1>6. Insert(x) /\ UNCHANGED <<sites, lastSite>> /\ run' = run /\ RowsCoherent
  BY DEF SitesKept, Owning, RowsInv
<1> HIDE DEF x
<1>7. /\ RowsCoherent' /\ Changed \subseteq {x.ws}
      /\ \A j : Ids(rows', j) = IF j = x.kind THEN Ids(rows, j) \cup {lastRow + 1} ELSE Ids(rows, j)
  BY <1>1, <1>3, <1>4, <1>5, <1>6, InsertKeeps
<1>8. WallStep
  BY <1>3, <1>7, WallBy
<1>9. rows' = rows \cup {x}
  BY <1>6 DEF Insert
<1>10. \A j \in {"link", "segment"} :
         Ids(rows', j) = IF j = k THEN Ids(rows, j) \cup {lastRow + 1} ELSE Ids(rows, j)
  BY <1>3, <1>7
<1>11. \E y \in rows' : /\ rows' = rows \cup {y} /\ y.id = lastRow + 1 /\ y.kind = k
                         /\ y.ref = ref /\ y.ws = requests[s].ws
  BY <1>3, <1>9
<1> QED  BY <1>7, <1>8, <1>10, <1>11 DEF NewLinkMade

LEMMA DoneMoves ==
  ASSUME RequestsOK, NEW s \in Slots, requests[s].op # "none", Done(s) PROVE requests'[s] # requests[s]
<1>1. requests'[s] = Idle /\ Idle.op = "none"
  BY DEF Done, RequestsOK, Idle
<1> QED  BY <1>1

LEMMA CreateLinkKeeps == ASSUME Owning, NEW s \in Slots, CreateLink(s) PROVE LinksStep
<1> DEFINE r == requests[s]
<1>1. /\ r.op = "create link" /\ Done(s) /\ Undisturbed(s) /\ UNCHANGED <<byHand, visit>>
      /\ r.arg.forced \in BOOLEAN /\ r.arg.fallback \in BOOLEAN
  BY DEF CreateLink, Handle, At, Owning, RequestsOK, RequestOK, LinkOK
<1>2. ChannelMidway' /\ requests'[s] # r
  BY <1>1, MidwayDone, DoneMoves DEF Owning
<1>3. CASE Nothing /\ UNCHANGED landing
  BY <1>1, <1>2, <1>3, LinksNothing DEF Nothing
<1>4. CASE /\ Edits(r) /\ MayName(r, "link", r.arg.site) /\ lastRow < MaxRows
           /\ Insert(NewRow("link", r.ws, r.arg.site, NULL, "panel")) /\ SitesKept
           /\ WithLink(lastRow', NewLanding(r.arg.forced, r.arg.fallback))
  <2>1. r.arg.site = NULL \/ Own(r, r.arg.site)
    BY <1>4 DEF MayName
  <2>2. /\ RowsCoherent' /\ WallStep
        /\ \A j \in {"link", "segment"} : Ids(rows', j) = IF j = "link" THEN Ids(rows, j) \cup {lastRow + 1} ELSE Ids(rows, j)
        /\ \E x \in rows' : rows' = rows \cup {x} /\ x.id = lastRow + 1 /\ x.kind = "link"
    <3>1. PICK k, ref, d : k = "link" /\ ref = NULL /\ d = r.arg.site
      OBVIOUS
    <3>2. Insert(NewRow(k, r.ws, d, ref, "panel")) /\ k \in {"link", "channel"} /\ ref \in 1..MaxRows \cup {NULL}
      BY <1>4, <3>1
    <3>3. /\ RowsCoherent' /\ WallStep
          /\ \A j \in {"link", "segment"} : Ids(rows', j) = IF j = k THEN Ids(rows, j) \cup {lastRow + 1} ELSE Ids(rows, j)
          /\ \E x \in rows' : rows' = rows \cup {x} /\ x.id = lastRow + 1 /\ x.kind = k
      <4>1. /\ r.op \notin Guests /\ requests'[s] # requests[s] /\ Edits(requests[s]) /\ lastRow < MaxRows /\ SitesKept
            /\ d = NULL \/ Own(requests[s], d)
            /\ k # "channel"
        BY <1>1, <1>2, <1>4, <2>1, <3>1 DEF Guests
      <4> HIDE DEF r
      <4>2. Insert(NewRow(k, requests[s].ws, d, ref, "panel"))
        BY <3>2 DEF r
      <4>3. requests[s].op \notin Guests
        BY <4>1 DEF r
      <4>4. NewLinkAsked(s, k, d, ref)
        BY <3>2, <4>1, <4>2, <4>3 DEF NewLinkAsked
      <4>5. NewLinkMade(s, k, ref)
        BY <4>4, NewLinkKeeps
      <4> QED  BY <4>5 DEF NewLinkMade
    <3> QED  BY <3>1, <3>3
  <2>3. lastRow' = lastRow + 1
    BY <1>4 DEF Insert, NewRow
  <2>4. /\ DOMAIN landing' = DOMAIN landing \cup {lastRow + 1}
        /\ \A i \in DOMAIN landing' : landing'[i] \in Landing
    BY <1>1, <1>4, <2>3, LinkPut, NewLandingIs, LinksOfRows DEF Owning
  <2>5. LinksTypeOK'
    BY <1>1, <2>2, <2>4, LinksTyped, LinksOfRows DEF Owning
  <2>6. ChannelLinked'
    BY <1>1, <2>2, <2>4 DEF ChannelLinked, Owning
  <2> QED  BY <1>2, <2>2, <2>5, <2>6 DEF LinksStep
<1> QED  BY <1>3, <1>4 DEF CreateLink

\* The row of a link is removed with what only links have.
LEMMA DropKeeps ==
  ASSUME Owning, NEW x \in rows, x.kind = "link", Remove(x.id), DropLink(x.id), UNCHANGED lastRow, SitesKept,
         UNCHANGED visit, byHand \subseteq byHand',
         x.id \in byHand' \/ \A y \in rows : y.kind = "channel" => y.ref # x.id
  PROVE  /\ RowsCoherent' /\ Changed \subseteq {x.ws} /\ LinksTypeOK' /\ ChannelLinked'
         /\ Ids(rows', "segment") = Ids(rows, "segment") /\ rows' = rows \ {x}
<1>1. /\ RowsCoherent' /\ Changed \subseteq {x.ws} /\ rows' = rows \ {x}
      /\ \A k : Ids(rows', k) = IF k = x.kind THEN Ids(rows, k) \ {x.id} ELSE Ids(rows, k)
  BY RemoveKeeps DEF Owning, RowsInv
<1>2. DOMAIN landing' = DOMAIN landing \ {x.id} /\ \A i \in DOMAIN landing' : landing'[i] \in Landing
  BY LinkDropped, LinksOfRows DEF Owning
<1>3. LinksTypeOK'
  BY <1>1, <1>2, LinksTyped, LinksOfRows DEF Owning
<1>4. ChannelLinked'
  BY <1>1, <1>2 DEF ChannelLinked, Owning
<1> QED  BY <1>1, <1>3, <1>4

LEMMA DeleteLinkKeeps == ASSUME Owning, NEW s \in Slots, DeleteLink(s) PROVE LinksStep
<1> DEFINE r == requests[s]
<1>1. r.op = "delete link" /\ Done(s) /\ Undisturbed(s) /\ UNCHANGED visit
  BY DEF DeleteLink, Handle, At
<1>2. ChannelMidway' /\ requests'[s] # r
  BY <1>1, MidwayDone, DoneMoves DEF Owning
<1>3. CASE Nothing /\ UNCHANGED <<landing, byHand>>
  BY <1>1, <1>2, <1>3, LinksNothing DEF Nothing
<1>4. CASE /\ Edits(r) /\ OwnRow(r, "link", r.arg) /\ byHand' = byHand \cup {r.arg} /\ UNCHANGED lastRow /\ SitesKept
           /\ WithLink(r.arg, [landing[r.arg] EXCEPT !.dead = TRUE, !.forced = FALSE]) /\ UNCHANGED rows
  <2>1. UNCHANGED ownings /\ run' \in Rows \cup {NULL}
    BY <1>4 DEF ownings, SitesKept, Owning, RowsInv, RowsCoherent, CatalogueTypeOK
  <2>2. RowsStep
    BY <2>1, NothingStep DEF Owning, RowsInv
  <2>3. r.arg \in DOMAIN landing /\ landing[r.arg] \in Landing
    BY <1>4, LinksOfRows DEF OwnRow, Owning, Ids
  <2>4. [landing[r.arg] EXCEPT !.dead = TRUE, !.forced = FALSE] \in Landing
    BY <2>3 DEF Landing
  <2>5. DOMAIN landing' = DOMAIN landing /\ \A i \in DOMAIN landing' : landing'[i] \in Landing
    <3>1. PICK l \in Landing : WithLink(r.arg, l)
      BY <1>4, <2>4
    <3>2. LinksTypeOK
      BY DEF Owning
    <3>3. \A i \in DOMAIN landing : landing[i] \in Landing
      BY <3>2, LinksOfRows
    <3>4. /\ DOMAIN landing' = DOMAIN landing \cup {r.arg}
          /\ \A j \in DOMAIN landing' : landing'[j] = IF j = r.arg THEN l ELSE landing[j]
      BY <3>1, LinkPut
    <3> HIDE DEF r
    <3> QED  BY <2>3, <3>3, <3>4
  <2>6. LinksTypeOK'
    BY <1>1, <1>4, <2>5, LinksTyped, LinksOfRows DEF Owning
  <2>7. ChannelLinked'
    BY <1>4, <2>5 DEF ChannelLinked, Owning
  <2> QED  BY <1>2, <2>2, <2>6, <2>7 DEF RowsStep, LinkedStay, LinksStep
<1>5. CASE /\ Edits(r) /\ OwnRow(r, "link", r.arg) /\ byHand' = byHand \cup {r.arg} /\ UNCHANGED lastRow /\ SitesKept
           /\ Remove(r.arg) /\ DropLink(r.arg)
  <2>1. PICK x \in rows : x.id = r.arg /\ x.kind = "link" /\ x.ws = r.ws
    BY <1>5 DEF OwnRow
  <2>2. /\ RowsCoherent' /\ Changed \subseteq {x.ws} /\ LinksTypeOK' /\ ChannelLinked'
        /\ Ids(rows', "segment") = Ids(rows, "segment")
    BY <1>1, <1>5, <2>1, DropKeeps
  <2>3. WallStep
    BY <1>2, <1>5, <2>1, <2>2, WallBy
  <2> QED  BY <1>2, <2>2, <2>3 DEF LinksStep
<1> QED  BY <1>3, <1>4, <1>5 DEF DeleteLink

\* A handler stays midway.
LEMMA ContinuesIs ==
  ASSUME RequestsOK, NEW s \in Slots, NEW arg, Continues(s, "second", arg)
  PROVE  \E q : /\ requests' = [requests EXCEPT ![s] = q] /\ requests'[s] = q
                /\ q.op = requests[s].op /\ q.at = "second" /\ q.arg = arg /\ q.ws = requests[s].ws
<1> DEFINE q == [requests[s] EXCEPT !.at = "second", !.arg = arg]
<1>1. DOMAIN requests[s] = Fields
  BY DEF RequestsOK, RequestOK
<1>2. requests' = [requests EXCEPT ![s] = q] /\ requests'[s] = q
  BY DEF Continues, RequestsOK
<1>3. q.op = requests[s].op /\ q.at = "second" /\ q.arg = arg /\ q.ws = requests[s].ws
  BY <1>1 DEF Fields
<1> QED  BY <1>2, <1>3

LEMMA CreateChannelKeeps == ASSUME Owning, NEW s \in Slots, CreateChannel(s) PROVE LinksStep
<1>1. requests[s].op = "create channel" /\ requests[s].at = "act" /\ Undisturbed(s) /\ UNCHANGED <<byHand, visit>>
  BY DEF CreateChannel, At
<1>2. CASE Handle(s, "create channel") /\ Nothing /\ UNCHANGED landing
  <2>1. ChannelMidway'
    BY <1>1, <1>2, MidwayDone DEF Owning, Handle
  <2> QED  BY <1>1, <1>2, <2>1, LinksNothing DEF Nothing
<1>3. CASE /\ Edits(requests[s]) /\ lastRow + 1 < MaxRows /\ Continues(s, "second", lastRow + 1)
           /\ Insert(NewRow("link", requests[s].ws, NULL, NULL, "panel")) /\ SitesKept
           /\ WithLink(lastRow', NewLanding(FALSE, FALSE))
  <2>1. PICK q : /\ requests' = [requests EXCEPT ![s] = q] /\ requests'[s] = q
                 /\ q.op = requests[s].op /\ q.at = "second" /\ q.arg = lastRow + 1 /\ q.ws = requests[s].ws
    BY <1>3, ContinuesIs DEF Owning
  <2>2. requests'[s] # requests[s]
    BY <1>1, <2>1
  <2>3. lastRow \in Nat /\ MaxRows \in Nat /\ lastRow < MaxRows /\ lastRow' = lastRow + 1
    BY <1>3, CatalogueAssumption DEF Owning, RowsInv, RowsCoherent, CatalogueTypeOK, Insert, NewRow
  <2>4. /\ RowsCoherent' /\ WallStep
        /\ \A j \in {"link", "segment"} : Ids(rows', j) = IF j = "link" THEN Ids(rows, j) \cup {lastRow + 1} ELSE Ids(rows, j)
        /\ \E x \in rows' : rows' = rows \cup {x} /\ x.id = lastRow + 1 /\ x.kind = "link" /\ x.ws = requests[s].ws
    <3>1. PICK k, ref, d : k = "link" /\ ref = NULL /\ d = NULL
      OBVIOUS
    <3>2. Insert(NewRow(k, requests[s].ws, d, ref, "panel")) /\ k \in {"link", "channel"} /\ ref \in 1..MaxRows \cup {NULL}
      BY <1>3, <3>1
    <3>3. requests[s].op \notin Guests /\ k # "channel"
      BY <1>1, <3>1 DEF Guests
    <3>4. /\ RowsCoherent' /\ WallStep
          /\ \A j \in {"link", "segment"} : Ids(rows', j) = IF j = k THEN Ids(rows, j) \cup {lastRow + 1} ELSE Ids(rows, j)
          /\ \E x \in rows' : rows' = rows \cup {x} /\ x.id = lastRow + 1 /\ x.kind = k /\ x.ws = requests[s].ws
      <4>1. NewLinkAsked(s, k, d, ref)
        BY <1>3, <2>2, <2>3, <3>1, <3>2, <3>3 DEF NewLinkAsked
      <4>2. NewLinkMade(s, k, ref)
        BY <4>1, NewLinkKeeps
      <4> QED  BY <4>2 DEF NewLinkMade
    <3> QED  BY <3>1, <3>4
  <2>5. /\ DOMAIN landing' = DOMAIN landing \cup {lastRow + 1}
        /\ \A i \in DOMAIN landing' : landing'[i] \in Landing
    BY <1>3, <2>3, LinkPut, NewLandingIs, LinksOfRows DEF Owning
  <2>6. LinksTypeOK'
    BY <1>1, <2>4, <2>5, LinksTyped, LinksOfRows DEF Owning
  <2>7. ChannelLinked'
    BY <1>1, <2>4, <2>5 DEF ChannelLinked, Owning
  <2>8. ChannelMidway'
    <3>1. \A x \in rows : x.kind = "channel" => x.ref # lastRow + 1
      BY <2>3 DEF Owning, RowsInv, RowsCoherent, OwnLinks
    <3>2. \A x \in rows' : x.kind = "channel" => x.ref # lastRow + 1
      BY <2>4, <3>1
    <3>3. RequestsOK /\ Undisturbed(s)
      BY <1>1 DEF Owning
    <3> QED  BY <1>1, <2>1, <2>4, <3>2, <3>3, MidwayAlone
  <2> QED  BY <2>4, <2>6, <2>7, <2>8 DEF LinksStep
<1> QED  BY <1>2, <1>3 DEF CreateChannel

LEMMA InsertChannelKeeps == ASSUME Owning, NEW s \in Slots, InsertChannelRow(s) PROVE LinksStep
<1>1. /\ requests[s].op = "create channel" /\ requests[s].at = "second" /\ Undisturbed(s) /\ Done(s)
      /\ UNCHANGED <<byHand, visit>> /\ Edits(requests[s])
  BY DEF InsertChannelRow, At, Owning, RequestsOK, RequestOK, LinkOK
<1>2. ChannelMidway' /\ requests'[s] # requests[s]
  BY <1>1, MidwayDone, DoneMoves DEF Owning
<1>3. /\ \E x \in rows : x.id = requests[s].arg /\ x.kind = "link" /\ x.ws = requests[s].ws
      /\ \A x \in rows : x.kind = "channel" => x.ref # requests[s].arg
  BY <1>1 DEF Owning, RowsInv, ChannelMidway
<1>4. PICK x \in rows : x.id = requests[s].arg /\ x.kind = "link" /\ x.ws = requests[s].ws
  BY <1>3
<1>5. CASE lastRow < MaxRows /\ Insert(NewRow("channel", requests[s].ws, NULL, requests[s].arg, "panel"))
           /\ SitesKept /\ UNCHANGED landing
  <2>1. requests[s].arg \in 1..lastRow /\ requests[s].arg \in 1..MaxRows
    BY <1>4 DEF Owning, RowsInv, RowsCoherent, CatalogueTypeOK, Numbered, Rows
  <2>2. PICK k, ref, d : k = "channel" /\ ref = requests[s].arg /\ d = NULL
    OBVIOUS
  <2>3. Insert(NewRow(k, requests[s].ws, d, ref, "panel")) /\ k \in {"link", "channel"} /\ ref \in 1..MaxRows \cup {NULL}
    BY <1>5, <2>1, <2>2
  <2>4. requests[s].op \notin Guests /\ d = NULL /\ ref \in 1..lastRow /\ \A y \in rows : y.kind = "channel" => y.ref # ref
    BY <1>1, <1>3, <2>1, <2>2 DEF Guests
  <2>5. /\ RowsCoherent' /\ WallStep
        /\ \A j \in {"link", "segment"} : Ids(rows', j) = IF j = k THEN Ids(rows, j) \cup {lastRow + 1} ELSE Ids(rows, j)
        /\ \E y \in rows' : rows' = rows \cup {y} /\ y.id = lastRow + 1 /\ y.kind = k /\ y.ref = ref
    <3>1. lastRow < MaxRows /\ SitesKept /\ Edits(requests[s]) /\ requests'[s] # requests[s]
      BY <1>1, <1>2, <1>5
    <3>2. NewLinkAsked(s, k, d, ref)
      BY <2>3, <2>4, <3>1 DEF NewLinkAsked
    <3>3. NewLinkMade(s, k, ref)
      BY <3>2, NewLinkKeeps
    <3> QED  BY <3>3 DEF NewLinkMade
  <2>6. LinksTypeOK'
    BY <1>1, <1>5, <2>2, <2>5, LinksTyped, LinksOfRows DEF Owning
  <2>7. requests[s].arg \in DOMAIN landing
    BY <1>4, LinksOfRows DEF Owning, Ids
  <2>8. ChannelLinked'
    BY <1>1, <1>5, <2>2, <2>5, <2>7 DEF ChannelLinked, Owning
  <2> QED  BY <1>2, <2>2, <2>5, <2>6, <2>8 DEF LinksStep
<1>6. CASE Remove(requests[s].arg) /\ DropLink(requests[s].arg) /\ UNCHANGED lastRow /\ SitesKept
  <2>1. /\ RowsCoherent' /\ Changed \subseteq {x.ws} /\ LinksTypeOK' /\ ChannelLinked'
        /\ Ids(rows', "segment") = Ids(rows, "segment")
    BY <1>1, <1>3, <1>4, <1>6, DropKeeps
  <2>2. WallStep
    BY <1>1, <1>2, <1>4, <2>1, WallBy
  <2> QED  BY <1>2, <2>1, <2>2 DEF LinksStep
<1> QED  BY <1>5, <1>6 DEF InsertChannelRow

LEMMA DeleteChannelKeeps == ASSUME Owning, NEW s \in Slots, DeleteChannel(s) PROVE LinksStep
<1>1. requests[s].op = "delete channel" /\ requests[s].at = "act" /\ Undisturbed(s) /\ UNCHANGED linkVars
  BY DEF DeleteChannel, At, LinksKept
<1>2. UNCHANGED <<landing, visit>> /\ byHand \subseteq byHand'
  BY <1>1 DEF linkVars
<1>3. CASE Handle(s, "delete channel") /\ Nothing
  <2>1. ChannelMidway'
    BY <1>1, <1>3, MidwayDone DEF Owning, Handle
  <2> QED  BY <1>2, <1>3, <2>1, LinksNothing DEF Nothing
<1>4. CASE /\ Edits(requests[s]) /\ OwnRow(requests[s], "channel", requests[s].arg)
           /\ Continues(s, "second", RowOf(requests[s].arg).ref)
           /\ Remove(requests[s].arg) /\ UNCHANGED lastRow /\ SitesKept
  <2>1. PICK x \in rows : x.id = requests[s].arg /\ x.kind = "channel" /\ x.ws = requests[s].ws
    BY <1>4 DEF OwnRow
  <2>2. RowOf(requests[s].arg) = x
    BY <2>1, RowOfIs DEF Owning, RowsInv
  <2>3. PICK q : /\ requests' = [requests EXCEPT ![s] = q] /\ requests'[s] = q
                 /\ q.op = requests[s].op /\ q.at = "second" /\ q.arg = x.ref
    BY <1>4, <2>2, ContinuesIs DEF Owning
  <2>4. /\ RowsCoherent' /\ Changed \subseteq {x.ws} /\ rows' = rows \ {x}
        /\ \A k : Ids(rows', k) = IF k = x.kind THEN Ids(rows, k) \ {x.id} ELSE Ids(rows, k)
    BY <1>4, <2>1, RemoveKeeps DEF Owning, RowsInv
  <2>5. \A y \in rows' : y.kind = "channel" => y.ref # x.ref
    BY <2>1, <2>4 DEF Owning, RowsInv, RowsCoherent, OwnLinks
  <2>6. ChannelMidway'
    <3>1. RequestsOK
      BY DEF Owning
    <3> QED  BY <1>1, <2>3, <2>5, <3>1, MidwayAlone
  <2>7. WallStep
    <3>1. requests'[s] # requests[s]
      BY <1>1, <2>3
    <3> QED  BY <1>4, <2>1, <2>4, <3>1, WallBy
  <2>8. LinkedStay
    BY <2>1, <2>4 DEF LinkedStay, ChannelsFrom
  <2> QED  BY <1>2, <2>4, <2>6, <2>7, <2>8, LinksRest DEF LinksStep, Owning
<1> QED  BY <1>3, <1>4 DEF DeleteChannel

LEMMA DropChannelLinkKeeps == ASSUME Owning, NEW s \in Slots, DropChannelLink(s) PROVE LinksStep
<1>1. /\ requests[s].op = "delete channel" /\ requests[s].at = "second" /\ Undisturbed(s) /\ Done(s)
      /\ UNCHANGED <<byHand, visit>> /\ Edits(requests[s])
  BY DEF DropChannelLink, At, Owning, RequestsOK, RequestOK, LinkOK
<1>2. ChannelMidway' /\ requests'[s] # requests[s]
  BY <1>1, MidwayDone, DoneMoves DEF Owning
<1>3. CASE Nothing /\ UNCHANGED landing
  BY <1>1, <1>2, <1>3, LinksNothing DEF Nothing
<1>4. CASE OwnRow(requests[s], "link", Arg(s)) /\ Remove(Arg(s)) /\ DropLink(Arg(s)) /\ UNCHANGED lastRow /\ SitesKept
  <2>1. PICK x \in rows : x.id = Arg(s) /\ x.kind = "link" /\ x.ws = requests[s].ws
    BY <1>4 DEF OwnRow
  <2>2. \A y \in rows : y.kind = "channel" => y.ref # x.id
    BY <1>1, <2>1 DEF Owning, RowsInv, ChannelMidway, Arg
  <2>3. /\ RowsCoherent' /\ Changed \subseteq {x.ws} /\ LinksTypeOK' /\ ChannelLinked'
        /\ Ids(rows', "segment") = Ids(rows, "segment")
    BY <1>1, <1>4, <2>1, <2>2, DropKeeps
  <2>4. WallStep
    BY <1>1, <1>2, <2>1, <2>3, WallBy
  <2> QED  BY <1>2, <2>3, <2>4 DEF LinksStep
<1> QED  BY <1>3, <1>4 DEF DropChannelLink

LEMMA ToggleKeeps == ASSUME Owning, NEW s \in Slots, ToggleChannel(s) PROVE LinksStep
<1>1. requests[s].op = "toggle channel" /\ Done(s) /\ Undisturbed(s) /\ UNCHANGED linkVars
  BY DEF ToggleChannel, Handle, At, LinksKept
<1>2. UNCHANGED <<landing, visit>> /\ byHand \subseteq byHand'
  BY <1>1 DEF linkVars
<1>3. ChannelMidway' /\ requests'[s] # requests[s]
  BY <1>1, MidwayDone, DoneMoves DEF Owning
<1>4. CASE Nothing
  BY <1>2, <1>3, <1>4, LinksNothing DEF Nothing
<1>5. CASE /\ Edits(requests[s]) /\ OwnRow(requests[s], "channel", requests[s].arg)
           /\ Edit(requests[s].arg, [RowOf(requests[s].arg) EXCEPT !.on = ~ @]) /\ UNCHANGED lastRow /\ SitesKept
  <2>1. PICK x \in rows : x.id = requests[s].arg /\ x.ws = requests[s].ws
    BY <1>5 DEF OwnRow
  <2>2. RowsCoherent' /\ Changed \subseteq {x.ws} /\ ChannelsFrom /\ \A k : Ids(rows', k) = Ids(rows, k)
    BY <1>5, <2>1, EditKeeps DEF Owning, RowsInv
  <2>3. WallStep
    BY <1>3, <1>5, <2>1, <2>2, WallBy
  <2> QED  BY <1>2, <1>3, <2>2, <2>3, LinksRest DEF LinksStep, LinkedStay, Owning
<1> QED  BY <1>4, <1>5 DEF ToggleChannel

\* Only the numbers of a link or the visitor's page change.
LEMMA CountsKeep ==
  ASSUME Owning, UNCHANGED ownings, run' = run, ChannelMidway', DOMAIN landing' = DOMAIN landing,
         \A i \in DOMAIN landing' : landing'[i] \in Landing, visit' = NULL \/ visit' \in Page, UNCHANGED byHand
  PROVE  LinksStep
<1>1. run' \in Rows \cup {NULL}
  BY DEF Owning, RowsInv, RowsCoherent, CatalogueTypeOK
<1>2. RowsStep
  BY <1>1, NothingStep DEF Owning, RowsInv
<1>3. DOMAIN landing' = Ids(rows', "link")
  BY <1>2, LinksOfRows DEF Owning, RowsStep, LinkedStay
<1>4. LinksTypeOK'
  BY <1>3 DEF LinksTypeOK, Ids, Landing, Page
<1>5. ChannelLinked'
  BY <1>2 DEF Owning, ChannelLinked, RowsStep, LinkedStay, ChannelsFrom
<1> QED  BY <1>2, <1>4, <1>5 DEF RowsStep, LinkedStay, LinksStep

LEMMA CountKeeps ==
  ASSUME LinksTypeOK, NEW i \in DOMAIN landing, NEW l \in Landing, WithLink(i, l)
  PROVE  DOMAIN landing' = DOMAIN landing /\ \A j \in DOMAIN landing' : landing'[j] \in Landing
<1>1. \A j \in DOMAIN landing : landing[j] \in Landing
  BY LinksOfRows
<1>2. DOMAIN landing' = DOMAIN landing \cup {i} /\ \A j \in DOMAIN landing' : landing'[j] = IF j = i THEN l ELSE landing[j]
  BY LinkPut
<1> QED  BY <1>1, <1>2

LEMMA OneMoreCounts ==
  ASSUME NEW l \in Landing PROVE [l EXCEPT !.clicks = @ + 1] \in Landing /\ [l EXCEPT !.subs = @ + 1] \in Landing
  BY DEF Landing

LEMMA CountVisitKeeps == ASSUME Owning, NEW s \in Slots, CountVisit(s) PROVE LinksStep
<1>1. /\ requests[s].op = "visit" /\ Undisturbed(s) /\ (Done(s) \/ Goto(s, "render")) /\ UNCHANGED <<byHand, visit>>
      /\ UNCHANGED ownings /\ run' = run
  BY DEF CountVisit, At, Nothing
<1>2. ChannelMidway'
  BY <1>1, MidwayDone, MidwayGoes DEF Owning
<1>3. CASE UNCHANGED landing
  BY <1>1, <1>2, <1>3, LinksNothing
<1>4. CASE /\ requests[s].arg \in DOMAIN landing
           /\ WithLink(requests[s].arg, [landing[requests[s].arg] EXCEPT !.clicks = @ + 1])
  <2>1. PICK i \in DOMAIN landing : WithLink(i, [landing[i] EXCEPT !.clicks = @ + 1])
    BY <1>4
  <2>2. PICK l \in Landing : WithLink(i, l)
    BY <2>1, OneMoreCounts, LinksOfRows DEF Owning
  <2>3. DOMAIN landing' = DOMAIN landing /\ \A j \in DOMAIN landing' : landing'[j] \in Landing
    BY <2>2, CountKeeps DEF Owning
  <2> QED  BY <1>1, <1>2, <2>3, CountsKeep DEF Owning, LinksTypeOK
<1> QED  BY <1>3, <1>4 DEF CountVisit

LEMMA CountSubscriberKeeps == ASSUME Owning, NEW s \in Slots, CountSubscriber(s) PROVE LinksStep
<1>1. Undisturbed(s) /\ Done(s) /\ UNCHANGED <<byHand, visit>> /\ UNCHANGED ownings /\ run' = run
  BY DEF CountSubscriber, At, Nothing
<1>2. ChannelMidway'
  BY <1>1, MidwayDone DEF Owning
<1>3. CASE UNCHANGED landing
  BY <1>1, <1>2, <1>3, LinksNothing
<1>4. CASE Arg(s) \in DOMAIN landing /\ WithLink(Arg(s), [landing[Arg(s)] EXCEPT !.subs = @ + 1])
  <2>1. PICK i \in DOMAIN landing : WithLink(i, [landing[i] EXCEPT !.subs = @ + 1])
    BY <1>4
  <2>2. PICK l \in Landing : WithLink(i, l)
    BY <2>1, OneMoreCounts, LinksOfRows DEF Owning
  <2>3. DOMAIN landing' = DOMAIN landing /\ \A j \in DOMAIN landing' : landing'[j] \in Landing
    BY <2>2, CountKeeps DEF Owning
  <2> QED  BY <1>1, <1>2, <2>3, CountsKeep DEF Owning, LinksTypeOK
<1> QED  BY <1>3, <1>4 DEF CountSubscriber

LEMMA RenderKeeps == ASSUME Owning, NEW s \in Slots, Render(s) PROVE LinksStep /\ ForcedMovesOn'
<1> DEFINE v == [link |-> requests[s].arg, forced |-> requests[s].row.link.forced, key |-> SiteKey(requests[s].row.site),
                 sdk |-> FALSE, trying |-> requests[s].row.link.forced, asks |-> 0, busy |-> FALSE, wait |-> FALSE,
                 threw |-> FALSE]
<1>1. /\ requests[s].op = "visit" /\ Undisturbed(s) /\ Done(s) /\ UNCHANGED <<landing, byHand>>
      /\ UNCHANGED ownings /\ run' = run /\ visit' = v
  BY DEF Render, At, Nothing
<1>2. ChannelMidway'
  BY <1>1, MidwayDone DEF Owning
<1>3. requests[s].arg \in 1..MaxRows /\ requests[s].row.link.forced \in BOOLEAN
  <2>1. requests[s].arg \in 1..MaxRows /\ requests[s].row.link \in Landing
    BY <1>1 DEF Owning, RequestsOK, RequestOK, LinkOK
  <2> QED  BY <2>1 DEF Landing
<1>4. SiteKey(requests[s].row.site) \in BOOLEAN
  <2>1. \A d \in DOMAIN sites : sites[d].active \in BOOLEAN
    BY SiteNumber DEF Owning, RowsInv, Site
  <2> QED  BY <2>1 DEF SiteKey
<1>5. v \in Page /\ (v.forced => v.trying)
  BY <1>3, <1>4 DEF Page
<1> HIDE DEF v
<1>6. LinksStep
  <2>1. DOMAIN landing' = DOMAIN landing /\ \A i \in DOMAIN landing' : landing'[i] \in Landing
    BY <1>1, LinksOfRows DEF Owning
  <2> QED  BY <1>1, <1>2, <1>5, <2>1, CountsKeep
<1>7. ForcedMovesOn'
  BY <1>1, <1>5 DEF ForcedMovesOn
<1> QED  BY <1>6, <1>7

\* The page: a forced one never runs out of things to wait for unless its
\* question threw.
MovesOn(v) == v.forced => v.trying \/ v.asks > 0 \/ v.wait \/ v.threw

LEMMA PageKeeps ==
  ASSUME LinksTypeOK, ForcedMovesOn, PageStep PROVE visit' = NULL \/ (visit' \in Page /\ MovesOn(visit'))
<1>1. visit \in Page /\ MovesOn(visit)
  BY DEF PageStep, SdkLoads, Press, Skip, Attempt, GiveUp, Refused, MoveOn, AskFails, AskThrows, OnPage, LinksTypeOK,
         ForcedMovesOn, MovesOn
<1>2. ASSUME NEW v \in Page, MovesOn(v) \/ (v.key => v.sdk), Ask(v)
      PROVE  visit' = NULL \/ (visit' \in Page /\ MovesOn(visit'))
  <2>1. CASE ~ v.key
    BY <1>2, <2>1 DEF Ask, Leave
  <2>2. CASE v.key /\ v.sdk
    <3>1. v.asks \in 0..2 /\ v.asks < 2 /\ visit' = [v EXCEPT !.asks = v.asks + 1, !.busy = TRUE]
      BY <1>2, <2>2 DEF Ask, Page
    <3>2. PICK n \in 0..2 : n = v.asks + 1 /\ n > 0
      BY <3>1
    <3>3. visit' = [v EXCEPT !.asks = n, !.busy = TRUE]
      BY <3>1, <3>2
    <3>4. visit' \in Page /\ visit'.asks = n
      BY <3>3 DEF Page
    <3> QED  BY <3>2, <3>4 DEF MovesOn
  <2>3. CASE v.key /\ ~ v.sdk
    <3>1. visit' = NULL \/ visit' = [v EXCEPT !.busy = FALSE]
      BY <1>2, <2>3 DEF Ask, Leave
    <3>2. [v EXCEPT !.busy = FALSE] \in Page /\ MovesOn([v EXCEPT !.busy = FALSE])
      BY <1>2, <2>3 DEF Page, MovesOn
    <3> QED  BY <3>1, <3>2
  <2> QED  BY <2>1, <2>2, <2>3
<1>3. CASE SdkLoads
  <2>1. visit' = [visit EXCEPT !.sdk = TRUE]
    BY <1>3 DEF SdkLoads
  <2> QED  BY <1>1, <2>1 DEF Page, MovesOn
<1>4. CASE Press
  BY <1>1, <1>2, <1>4 DEF Press
<1>5. CASE Attempt
  <2> DEFINE v == [visit EXCEPT !.trying = FALSE]
  <2>1. v \in Page /\ (v.key => v.sdk) /\ Ask(v)
    BY <1>1, <1>5 DEF Attempt, Page
  <2> HIDE DEF v
  <2> QED  BY <1>2, <2>1
<1>6. CASE Skip \/ GiveUp \/ MoveOn \/ AskFails
  BY <1>6 DEF Skip, GiveUp, MoveOn, AskFails, Leave
<1>7. CASE Refused
  <2>1. visit' = NULL \/ (visit.asks > 0 /\ visit' = [visit EXCEPT !.asks = visit.asks - 1, !.busy = FALSE, !.wait = TRUE])
    BY <1>7 DEF Refused, Leave
  <2>2. CASE visit.asks > 0 /\ visit' = [visit EXCEPT !.asks = visit.asks - 1, !.busy = FALSE, !.wait = TRUE]
    <3>1. PICK n \in 0..2 : n = visit.asks - 1
      BY <1>1, <2>2 DEF Page
    <3>2. visit' = [visit EXCEPT !.asks = n, !.busy = FALSE, !.wait = TRUE]
      BY <2>2, <3>1
    <3>3. visit' \in Page /\ visit'.wait
      BY <1>1, <3>2 DEF Page
    <3> QED  BY <3>3 DEF MovesOn
  <2> QED  BY <2>1, <2>2
<1>8. CASE AskThrows
  <2>1. visit' = NULL \/ (visit.asks > 0 /\ visit' = [visit EXCEPT !.asks = visit.asks - 1, !.busy = FALSE, !.threw = TRUE])
    BY <1>8 DEF AskThrows, Leave
  <2>2. CASE visit.asks > 0 /\ visit' = [visit EXCEPT !.asks = visit.asks - 1, !.busy = FALSE, !.threw = TRUE]
    <3>1. PICK n \in 0..2 : n = visit.asks - 1
      BY <1>1, <2>2 DEF Page
    <3>2. visit' = [visit EXCEPT !.asks = n, !.busy = FALSE, !.threw = TRUE]
      BY <2>2, <3>1
    <3>3. visit' \in Page /\ visit'.threw
      BY <1>1, <3>2 DEF Page
    <3> QED  BY <3>3 DEF MovesOn
  <2> QED  BY <2>1, <2>2
<1> QED  BY <1>3, <1>4, <1>5, <1>6, <1>7, <1>8 DEF PageStep

LEMMA PageStepKeeps == ASSUME Owning, ForcedMovesOn, PageStep PROVE LinksStep /\ ForcedMovesOn'
<1>1. UNCHANGED <<catalogueVars, landing, byHand>>
  BY DEF PageStep, SdkLoads, Press, Skip, Attempt, GiveUp, Refused, MoveOn, AskFails, AskThrows, OnPage
<1>2. UNCHANGED ownings /\ run' = run /\ UNCHANGED requests /\ UNCHANGED rows
  BY <1>1 DEF catalogueVars, settingsVars, accountVars, ownings
<1>3. ChannelMidway'
  BY <1>2 DEF Owning, RowsInv, ChannelMidway
<1>4. visit' = NULL \/ (visit' \in Page /\ MovesOn(visit'))
  BY PageKeeps DEF Owning
<1>5. LinksStep
  <2>1. DOMAIN landing' = DOMAIN landing /\ \A i \in DOMAIN landing' : landing'[i] \in Landing
    BY <1>1, LinksOfRows DEF Owning
  <2> QED  BY <1>1, <1>2, <1>3, <1>4, <2>1, CountsKeep
<1>6. ForcedMovesOn'
  BY <1>4 DEF ForcedMovesOn, MovesOn
<1> QED  BY <1>5, <1>6

LEMMA SubscribedKeeps == ASSUME Owning, NEW s \in Slots, Subscribed(s) PROVE LinksStep /\ ForcedMovesOn'
<1>1. UNCHANGED <<landing, byHand>> /\ UNCHANGED ownings /\ run' = run /\ visit' = NULL
  BY DEF Subscribed, Nothing, Leave
<1>2. ChannelMidway'
  <2>1. PICK r : r.at # "second" /\ Arrive(s, "links", r)
    BY DEF Subscribed, Idle
  <2> QED  BY <2>1, MidwayArrives DEF Owning
<1>3. LinksStep
  <2>1. DOMAIN landing' = DOMAIN landing /\ \A i \in DOMAIN landing' : landing'[i] \in Landing
    BY <1>1, LinksOfRows DEF Owning
  <2> QED  BY <1>1, <1>2, <2>1, CountsKeep
<1> QED  BY <1>1, <1>3 DEF ForcedMovesOn

LEMMA LinksRequestKeeps == ASSUME Owning, NEW s \in Slots, Request(s) PROVE LinksStep /\ UNCHANGED visit
<1>1. UNCHANGED <<landing, visit>> /\ byHand \subseteq byHand' /\ UNCHANGED ownings /\ run' = run
  BY DEF Request, Wants, VisitLink, Nothing, LinksKept, linkVars
<1>2. ChannelMidway'
  <2>1. CASE \E op, arg : Wants(s, op, arg)
    BY <2>1, MidwayAuthenticates DEF Wants, Owning
  <2>2. CASE \E i \in DOMAIN landing : VisitLink(s, i)
    <3>1. PICK r : r.at # "second" /\ Arrive(s, "links", r)
      BY <2>2 DEF VisitLink, Idle
    <3> QED  BY <3>1, MidwayArrives DEF Owning
  <2> QED  BY <2>1, <2>2 DEF Request
<1> QED  BY <1>1, <1>2, LinksNothing

LEMMA LinksRowsStep == ASSUME Owning, ForcedMovesOn, LinksNext PROVE LinksStep /\ ForcedMovesOn' /\ UNCHANGED vault
<1>1. UNCHANGED visit => ForcedMovesOn'
  BY DEF ForcedMovesOn
<1>2. ASSUME NEW s \in Slots,
             \/ Request(s) \/ CreateLink(s) \/ DeleteLink(s)
             \/ CreateChannel(s) \/ InsertChannelRow(s) \/ DeleteChannel(s) \/ DropChannelLink(s)
             \/ ToggleChannel(s) \/ CountVisit(s) \/ Render(s) \/ Subscribed(s) \/ CountSubscriber(s)
      PROVE  LinksStep /\ ForcedMovesOn'
  <2>1. CASE CreateLink(s) \/ DeleteLink(s) \/ CreateChannel(s) \/ InsertChannelRow(s) \/ DeleteChannel(s)
             \/ DropChannelLink(s) \/ ToggleChannel(s) \/ CountVisit(s) \/ CountSubscriber(s)
    <3>1. UNCHANGED visit
      BY <2>1 DEF CreateLink, DeleteLink, CreateChannel, InsertChannelRow, DeleteChannel, DropChannelLink,
                  ToggleChannel, CountVisit, CountSubscriber, LinksKept, linkVars
    <3> QED  BY <1>1, <2>1, <3>1, CreateLinkKeeps, DeleteLinkKeeps, CreateChannelKeeps, InsertChannelKeeps,
                DeleteChannelKeeps, DropChannelLinkKeeps, ToggleKeeps, CountVisitKeeps, CountSubscriberKeeps
  <2> QED  BY <1>1, <1>2, <2>1, LinksRequestKeeps, RenderKeeps, SubscribedKeeps
<1>3. UNCHANGED vault
  BY DEF LinksNext, Request, Wants, VisitLink, CreateLink, DeleteLink, CreateChannel, InsertChannelRow, DeleteChannel,
         DropChannelLink, ToggleChannel, CountVisit, Render, Subscribed, CountSubscriber, Handle, Continues,
         PageStep, SdkLoads, Press, Skip, Attempt, GiveUp, Refused, MoveOn, AskFails, AskThrows, OnPage,
         catalogueVars, settingsVars
<1> QED  BY <1>2, <1>3, PageStepKeeps DEF LinksNext

-----------------------------------------------------------------------------
(* Segments: what is stored belongs to a row and holds valid rules.        *)

StoredRow(x) == x.listed \subseteq 1..MaxSites /\ x.rules \in Drafts /\ x.estimate \in Nat /\ NormalizeRules(x.rules)

LEMMA StoredIs ==
  StoredInv <=> DOMAIN stored = Ids(rows, "segment") /\ \A i \in DOMAIN stored : StoredRow(stored[i])
  BY DEF StoredInv, SegmentsTypeOK, ValidRules, Ids, StoredRow

LEMMA StoredNext ==
  ASSUME DOMAIN stored' = Ids(rows', "segment"), \A i \in DOMAIN stored' : StoredRow(stored'[i])
  PROVE  StoredInv'
  BY DEF StoredInv, SegmentsTypeOK, ValidRules, Ids, StoredRow, NormalizeRules, NormalizeCondition, FieldOps, Dates,
         Counts

LEMMA StoredStays ==
  ASSUME StoredInv, UNCHANGED stored, Ids(rows', "segment") = Ids(rows, "segment") PROVE StoredInv'
  BY StoredIs, StoredNext

LEMMA SavedIs ==
  ASSUME RequestsOK, RowsCoherent, NEW s \in Slots, requests[s].op \in {"create segment", "update segment"},
         Acceptable(requests[s])
  PROVE  StoredRow(Saved(requests[s]))
<1> DEFINE r == requests[s]
<1>1. r.arg.rules \in Drafts
  BY DEF RequestsOK, RequestOK, FormOK
<1>2. r.arg.listed \subseteq 1..MaxSites
  BY SiteNumber DEF Acceptable, OwnedDomains, Own
<1>3. ASSUME NEW ws, NEW rules, NEW filter PROVE Cardinality(Matches(ws, rules, filter)) \in Nat
  <2>1. Matches(ws, rules, filter) \subseteq Members /\ IsFiniteSet(Members)
    BY SegmentsAssumption DEF Matches, Present
  <2> QED  BY <2>1, FS_Subset, FS_CardinalityType
<1>4. NormalizeRules(r.arg.rules)
  BY DEF Acceptable
<1>5. Saved(r).listed = r.arg.listed /\ Saved(r).rules = r.arg.rules /\ Saved(r).estimate \in Nat
  BY <1>3 DEF Saved
<1> QED  BY <1>1, <1>2, <1>4, <1>5 DEF StoredRow

LEMMA StorePut ==
  ASSUME NEW i, NEW x, Store1(i, x)
  PROVE  DOMAIN stored' = DOMAIN stored \cup {i} /\ \A j \in DOMAIN stored' : stored'[j] = IF j = i THEN x ELSE stored[j]
  BY DEF Store1

SegmentsStep == RowsCoherent' /\ WallStep /\ ChannelsFrom /\ Ids(rows', "link") = Ids(rows, "link") /\ StoredInv'

LEMMA SegmentsNothing ==
  ASSUME RowsCoherent, StoredInv, Nothing, UNCHANGED stored PROVE SegmentsStep
  BY NoneStep, StoredStays DEF RowsStep, LinkedStay, SegmentsStep

LEMMA CreateSegmentKeeps ==
  ASSUME RequestsOK, PeopleInv, RowsCoherent, StoredInv, NEW s \in Slots, CreateSegment(s) PROVE SegmentsStep
<1>1. requests[s].op = "create segment" /\ Done(s)
  BY DEF CreateSegment, Handle, At
<1>2. CASE Nothing /\ UNCHANGED stored
  BY <1>2, SegmentsNothing
<1>3. CASE /\ Acceptable(requests[s]) /\ lastRow < MaxRows /\ SitesKept /\ Store1(lastRow', Saved(requests[s]))
           /\ Insert(NewRow("segment", requests[s].ws, NULL, NULL, "panel"))
  <2> DEFINE x == NewRow("segment", requests[s].ws, NULL, NULL, "panel")
  <2>1. x.kind = "segment" /\ x.id = lastRow + 1 /\ x.ws = requests[s].ws /\ x.site = NULL
    BY DEF NewRow
  <2>2. x \in Rows
    <3>1. lastRow + 1 \in 1..MaxRows
      BY <1>3, CatalogueAssumption DEF RowsCoherent, CatalogueTypeOK
    <3>2. requests[s].ws \in 1..MaxIds
      BY <1>1, RequestWs DEF Guests
    <3> QED  BY <3>1, <3>2 DEF NewRow, Rows, Kinds
  <2>3. /\ Insert(x) /\ UNCHANGED <<sites, lastSite>> /\ run' \in Rows \cup {NULL} /\ lastRow < MaxRows
        /\ lastRow' = lastRow + 1 /\ rows' = rows \cup {x}
    BY <1>3 DEF SitesKept, RowsCoherent, CatalogueTypeOK, Insert, NewRow
  <2> HIDE DEF x
  <2>4. /\ RowsCoherent' /\ Changed \subseteq {x.ws}
        /\ \A k : Ids(rows', k) = IF k = x.kind THEN Ids(rows, k) \cup {lastRow + 1} ELSE Ids(rows, k)
    BY <2>1, <2>2, <2>3, InsertKeeps
  <2>5. WallStep
    BY <1>1, <1>3, <2>1, <2>4, HandleWall DEF Acceptable
  <2>6. StoredInv'
    <3>1. StoredRow(Saved(requests[s]))
      BY <1>1, <1>3, SavedIs
    <3>2. PICK z : z = Saved(requests[s])
      OBVIOUS
    <3>3. Store1(lastRow + 1, z) /\ StoredRow(z)
      BY <1>3, <2>3, <3>1, <3>2
    <3>4. DOMAIN stored = Ids(rows, "segment") /\ \A i \in DOMAIN stored : StoredRow(stored[i])
      BY StoredIs
    <3>5. DOMAIN stored' = Ids(rows', "segment") /\ \A i \in DOMAIN stored' : StoredRow(stored'[i])
      BY <2>1, <2>4, <3>3, <3>4, StorePut
    <3> QED  BY <3>5, StoredNext
  <2> QED  BY <2>1, <2>3, <2>4, <2>5, <2>6 DEF SegmentsStep, ChannelsFrom
<1> QED  BY <1>2, <1>3 DEF CreateSegment

LEMMA UpdateSegmentKeeps ==
  ASSUME RequestsOK, RowsCoherent, StoredInv, NEW s \in Slots, UpdateSegment(s) PROVE SegmentsStep
<1>1. requests[s].op = "update segment" /\ Nothing
  BY DEF UpdateSegment, Handle, At
<1>2. CASE UNCHANGED stored
  BY <1>1, <1>2, SegmentsNothing
<1>3. CASE /\ Acceptable(requests[s]) /\ OwnRow(requests[s], "segment", requests[s].arg.id)
           /\ Store1(requests[s].arg.id, Saved(requests[s]))
  <2>1. StoredRow(Saved(requests[s]))
    BY <1>1, <1>3, SavedIs
  <2>2. DOMAIN stored = Ids(rows, "segment") /\ \A i \in DOMAIN stored : StoredRow(stored[i])
    BY StoredIs
  <2>3. PICK i, z : i = requests[s].arg.id /\ z = Saved(requests[s])
    OBVIOUS
  <2>4. i \in DOMAIN stored
    BY <1>3, <2>2, <2>3 DEF OwnRow, Ids
  <2>5. DOMAIN stored' = DOMAIN stored /\ \A j \in DOMAIN stored' : StoredRow(stored'[j])
    <3>1. Store1(i, z) /\ StoredRow(z)
      BY <1>3, <2>1, <2>3
    <3>2. DOMAIN stored' = DOMAIN stored \cup {i} /\ \A j \in DOMAIN stored' : stored'[j] = IF j = i THEN z ELSE stored[j]
      BY <3>1, StorePut
    <3> QED  BY <2>2, <2>4, <3>1, <3>2
  <2>6. RowsStep
    BY <1>1, NoneStep
  <2>7. StoredInv'
    BY <2>2, <2>5, <2>6, StoredNext DEF RowsStep, LinkedStay
  <2> QED  BY <2>6, <2>7 DEF RowsStep, LinkedStay, SegmentsStep
<1> QED  BY <1>2, <1>3 DEF UpdateSegment

LEMMA DeleteSegmentKeeps ==
  ASSUME RequestsOK, RowsCoherent, StoredInv, NEW s \in Slots, DeleteSegment(s) PROVE SegmentsStep
<1>1. requests[s].op = "delete segment" /\ Done(s)
  BY DEF DeleteSegment, Handle, At
<1>2. CASE Nothing /\ UNCHANGED stored
  BY <1>2, SegmentsNothing
<1>3. CASE /\ Edits(requests[s]) /\ OwnRow(requests[s], "segment", requests[s].arg) /\ Remove(requests[s].arg)
           /\ UNCHANGED lastRow /\ SitesKept
           /\ stored' = [j \in DOMAIN stored \ {requests[s].arg} |-> stored[j]]
  <2>1. PICK x \in rows : x.id = requests[s].arg /\ x.kind = "segment" /\ x.ws = requests[s].ws
    BY <1>3 DEF OwnRow
  <2>2. /\ RowsCoherent' /\ Changed \subseteq {x.ws} /\ rows' = rows \ {x}
        /\ \A k : Ids(rows', k) = IF k = x.kind THEN Ids(rows, k) \ {x.id} ELSE Ids(rows, k)
    BY <1>3, <2>1, RemoveKeeps
  <2>3. WallStep
    BY <1>1, <1>3, <2>1, <2>2, HandleWall
  <2>4. DOMAIN stored' = DOMAIN stored \ {x.id} /\ \A j \in DOMAIN stored' : stored'[j] = stored[j]
    BY <1>3, <2>1
  <2>5. DOMAIN stored = Ids(rows, "segment") /\ \A i \in DOMAIN stored : StoredRow(stored[i])
    BY StoredIs
  <2>6. StoredInv'
    BY <2>1, <2>2, <2>4, <2>5, StoredNext
  <2> QED  BY <2>1, <2>2, <2>3, <2>6 DEF SegmentsStep, ChannelsFrom
<1> QED  BY <1>2, <1>3 DEF DeleteSegment

LEMMA SegmentsRowsStep ==
  ASSUME RequestsOK, PeopleInv, RowsCoherent, StoredInv, SegmentsNext
  PROVE  SegmentsStep /\ UNCHANGED linkVars /\ UNCHANGED vault
<1>1. PICK s \in Slots :
        \/ UNCHANGED <<vault, stored>> /\ Nothing /\ LinksKept
        \/ CreateSegment(s) \/ UpdateSegment(s) \/ DeleteSegment(s)
  BY DEF SegmentsNext
<1>2. CASE UNCHANGED <<vault, stored>> /\ Nothing /\ LinksKept
  BY <1>2, SegmentsNothing DEF LinksKept
<1>3. CASE CreateSegment(s) \/ UpdateSegment(s) \/ DeleteSegment(s)
  <2>1. UNCHANGED linkVars /\ UNCHANGED vault
    BY <1>3 DEF CreateSegment, UpdateSegment, DeleteSegment, Handle, LinksKept
  <2> QED  BY <1>3, <2>1, CreateSegmentKeeps, UpdateSegmentKeeps, DeleteSegmentKeeps
<1> QED  BY <1>1, <1>2, <1>3

-----------------------------------------------------------------------------
(* The panel: each part keeps what the others rest on.                     *)

LEMMA StillVault == ASSUME UNCHANGED vault PROVE VaultStep
  BY DEF VaultStep

\* A step that leaves what workspaces own alone.
LEMMA OwningsStay ==
  ASSUME RowsCoherent, LinksInv, StoredInv, UNCHANGED <<ownings, run, linkVars, stored>>
  PROVE  RowsCoherent' /\ WallStep /\ LinksInv' /\ StoredInv'
<1>1. run' \in Rows \cup {NULL} /\ UNCHANGED ownings
  BY DEF RowsCoherent, CatalogueTypeOK
<1>2. RowsStep
  BY <1>1, NothingStep
<1>3. /\ LinksTypeOK' /\ ChannelLinked' /\ Ids(rows', "segment") = Ids(rows, "segment")
  BY <1>2, LinksRest DEF RowsStep, LinksInv, LinksLead, linkVars
<1>4. ForcedMovesOn'
  BY DEF ForcedMovesOn, LinksInv, LinksLead, linkVars
<1> QED  BY <1>2, <1>3, <1>4, StoredStays DEF RowsStep, LinksInv, LinksLead

\* Only accounts write a user's row.
LEMMA CatalogueUsers == ASSUME CatalogueNext PROVE users' = users
<1>1. ASSUME NEW s \in Slots, Asked(s) PROVE users' = users
  BY <1>1 DEF Asked, Demands, ApiSend, Authenticate, Arrive, people
<1>2. ASSUME NEW s \in Slots, NEW op, Handle(s, op) PROVE users' = users
  BY <1>2 DEF Handle, people
<1>3. ASSUME NEW s \in Slots,
             \/ CreateDomain(s) \/ CloneDomain(s) \/ UpdatePrompt(s) \/ SetDomainStatus(s) \/ DeleteDomain(s)
             \/ Create(s) \/ TestPush(s) \/ Update(s) \/ Delete(s) \/ CreateCampaign(s)
      PROVE  users' = users
  BY <1>2, <1>3 DEF CreateDomain, CloneDomain, UpdatePrompt, SetDomainStatus, ChangeSite, DeleteDomain, Create,
                    TestPush, Update, Delete, CreateCampaign
<1> QED  BY <1>1, <1>3 DEF CatalogueNext, RunAutomation, Enqueue, settingsVars, accountVars, people

LEMMA LinksUsers == ASSUME LinksNext PROVE users' = users
<1>1. ASSUME NEW s \in Slots, Request(s) PROVE users' = users
  BY <1>1 DEF Request, Wants, VisitLink, Authenticate, Arrive, people
<1>2. ASSUME NEW s \in Slots,
             \/ CreateLink(s) \/ DeleteLink(s) \/ CreateChannel(s) \/ InsertChannelRow(s) \/ DeleteChannel(s)
             \/ DropChannelLink(s) \/ ToggleChannel(s) \/ CountVisit(s) \/ Render(s) \/ Subscribed(s) \/ CountSubscriber(s)
      PROVE  users' = users
  BY <1>2 DEF CreateLink, DeleteLink, CreateChannel, InsertChannelRow, DeleteChannel, DropChannelLink, ToggleChannel,
              CountVisit, Render, Subscribed, CountSubscriber, Handle, Continues, Arrive, people
<1>3. ASSUME PageStep PROVE users' = users
  BY <1>3 DEF PageStep, SdkLoads, Press, Skip, Attempt, GiveUp, Refused, MoveOn, AskFails, AskThrows, OnPage,
              catalogueVars, settingsVars, accountVars, people
<1> QED  BY <1>1, <1>2, <1>3 DEF LinksNext

LEMMA SegmentsUsers == ASSUME SegmentsNext PROVE users' = users
  BY DEF SegmentsNext, SegmentForm, Authenticate, CreateSegment, UpdateSegment, DeleteSegment, Handle, people

PanelStep == PanelInv' /\ EnrolStep /\ VaultStep /\ WallStep

LEMMA AccountsPanelStep ==
  ASSUME PanelInv, AccountsNext, UNCHANGED <<vault, ownings, run, linkVars, stored>> PROVE PanelStep
<1>1. RequestsOK' /\ PeopleInv' /\ EnrolStep
  BY AccountsKeep, AccountsEnrolStep DEF PanelInv
<1>2. RowsCoherent' /\ WallStep /\ LinksInv' /\ StoredInv'
  BY OwningsStay DEF PanelInv, RowsInv
<1>3. ChannelMidway'
  BY AccountsMidway DEF PanelInv, RowsInv, ownings
<1>4. SettingsTypeOK' /\ VaultStep
  BY StillVault DEF PanelInv, SettingsTypeOK, Plain, Sealed
<1> QED  BY <1>1, <1>2, <1>3, <1>4 DEF PanelStep, PanelInv, RowsInv

LEMMA SettingsPanelStep ==
  ASSUME PanelInv, SettingsNext, UNCHANGED <<ownings, run, linkVars, stored>> PROVE PanelStep
<1>1. RequestsOK' /\ PeopleInv' /\ SettingsTypeOK' /\ VaultStep
  BY SettingsKeep DEF PanelInv
<1>2. RowsCoherent' /\ WallStep /\ LinksInv' /\ StoredInv'
  BY OwningsStay DEF PanelInv, RowsInv
<1>3. ChannelMidway'
  BY SettingsMidway DEF PanelInv
<1>4. users' = users
  BY DEF SettingsNext, SaveForm, Authenticate, RequireOwner, SaveKey, people
<1> QED  BY <1>1, <1>2, <1>3, <1>4, SameUsersStep DEF PanelStep, PanelInv, RowsInv

LEMMA CataloguePanelStep ==
  ASSUME PanelInv, CatalogueNext, UNCHANGED <<linkVars, stored>> PROVE PanelStep
<1>1. RequestsOK' /\ PeopleInv' /\ users' = users
  BY CatalogueKeeps, CatalogueUsers DEF PanelInv, RowsInv, RowsCoherent, CatalogueTypeOK
<1>2. RowsStep /\ UNCHANGED vault
  BY CatalogueRowsStep DEF PanelInv, RowsInv
<1>3. ChannelMidway'
  BY <1>2, CatalogueMidway DEF PanelInv, RowsInv
<1>4. LinksTypeOK' /\ ChannelLinked' /\ Ids(rows', "segment") = Ids(rows, "segment")
  BY <1>2, LinksRest DEF RowsStep, PanelInv, LinksInv, LinksLead, linkVars
<1>5. LinksInv'
  BY <1>4 DEF ForcedMovesOn, PanelInv, LinksInv, LinksLead, linkVars
<1>6. StoredInv' /\ SettingsTypeOK'
  BY <1>2, <1>4, StoredStays DEF PanelInv, SettingsTypeOK, Plain, Sealed
<1> QED  BY <1>1, <1>2, <1>3, <1>5, <1>6, SameUsersStep, StillVault DEF PanelStep, PanelInv, RowsInv, RowsStep

LEMMA LinksPanelStep ==
  ASSUME PanelInv, LinksNext, UNCHANGED stored PROVE PanelStep
<1>1. RequestsOK' /\ PeopleInv' /\ users' = users
  BY LinksKeep, LinksUsers DEF PanelInv, RowsInv, RowsCoherent, CatalogueTypeOK, LinksInv
<1>2. LinksStep /\ ForcedMovesOn' /\ UNCHANGED vault
  BY LinksRowsStep DEF PanelInv, LinksInv, LinksLead, Owning
<1>3. StoredInv' /\ SettingsTypeOK'
  BY <1>2, StoredStays DEF LinksStep, PanelInv, SettingsTypeOK, Plain, Sealed
<1> QED  BY <1>1, <1>2, <1>3, SameUsersStep, StillVault DEF PanelStep, PanelInv, RowsInv, LinksInv, LinksLead, LinksStep

LEMMA SegmentsPanelStep == ASSUME PanelInv, SegmentsNext PROVE PanelStep
<1>1. RequestsOK' /\ PeopleInv' /\ users' = users
  BY SegmentsKeep, SegmentsUsers DEF PanelInv
<1>2. SegmentsStep /\ UNCHANGED linkVars /\ UNCHANGED vault
  BY SegmentsRowsStep DEF PanelInv, RowsInv
<1>3. ChannelMidway'
  BY SegmentsMidway DEF PanelInv
<1>4. LinksTypeOK'
  BY <1>2, LinksOfRows, LinksTyped DEF PanelInv, LinksInv, SegmentsStep, linkVars
<1>5. ChannelLinked' /\ ForcedMovesOn'
  BY <1>2 DEF PanelInv, LinksInv, LinksLead, ChannelLinked, ForcedMovesOn, SegmentsStep, ChannelsFrom, linkVars
<1>6. SettingsTypeOK'
  BY <1>2 DEF PanelInv, SettingsTypeOK, Plain, Sealed
<1> QED  BY <1>1, <1>2, <1>3, <1>4, <1>5, <1>6, SameUsersStep, StillVault
         DEF PanelStep, PanelInv, RowsInv, LinksInv, LinksLead, SegmentsStep

LEMMA NextKeepsPanel == ASSUME PanelInv, PanelNext PROVE PanelStep
  BY AccountsPanelStep, SettingsPanelStep, CataloguePanelStep, LinksPanelStep, SegmentsPanelStep DEF PanelNext

LEMMA StutterKeepsPanel == ASSUME PanelInv, UNCHANGED segmentVars PROVE PanelInv'
<1>1. UNCHANGED <<people, requests, budget, vault, ownings, run, linkVars, stored>>
  BY DEF segmentVars, linksVars, catalogueVars, settingsVars, accountVars
<1>2. RequestsOK'
  BY <1>1, SameGrows, WaitKeepsRequests DEF PanelInv
<1>3. PeopleInv'
  BY <1>1, <1>2 DEF PanelInv, PeopleInv, AccountsTypeOK, InviteRows, Numbering, Membership, PlainIsLegacy, EnrolledIsLast,
     people, Row, Roles, Secrets, Invites
<1>4. RowsCoherent' /\ LinksInv' /\ StoredInv'
  BY <1>1, OwningsStay DEF PanelInv, RowsInv
<1>5. ChannelMidway' /\ SettingsTypeOK'
  BY <1>1 DEF PanelInv, RowsInv, ChannelMidway, ownings, SettingsTypeOK, Plain, Sealed
<1> QED  BY <1>2, <1>3, <1>4, <1>5 DEF PanelInv, RowsInv

-----------------------------------------------------------------------------
(* A database at rest.                                                     *)

\* Members are numbered after the founder, as their invites were minted.
LEMMA MembersCounted ==
  ASSUME AccountsInit(users, workspaces), AccountsCoherent, DOMAIN users # {}
  PROVE  IsFiniteSet(minted) /\ Cardinality(minted) = Cardinality(DOMAIN users) - 1
<1>1. PICK f \in DOMAIN users : users[f].id = 1
  BY DEF AccountsCoherent
<1>2. {e \in DOMAIN users : users[e].id # 1} = DOMAIN users \ {f}
  BY <1>1 DEF AccountsCoherent
<1>3. IsFiniteSet(DOMAIN users)
  BY AccountAssumption, FS_Subset DEF AccountsCoherent
<1>4. /\ IsFiniteSet(DOMAIN users \ {f})
      /\ Cardinality(DOMAIN users \ {f}) = Cardinality(DOMAIN users) - 1
  BY <1>1, <1>3, FS_RemoveElement
<1> DEFINE M(e) == [id |-> users[e].id - 1, email |-> e, role |-> users[e].role, ws |-> users[e].ws]
           g == [e \in DOMAIN users \ {f} |-> M(e)]
<1>5. minted = {M(e) : e \in DOMAIN users \ {f}}
  BY <1>2 DEF AccountsInit
<1>6. g \in Bijection(DOMAIN users \ {f}, minted)
  <2>1. \A e, h \in DOMAIN users \ {f} : g[e] = g[h] => e = h
    OBVIOUS
  <2>2. g \in [DOMAIN users \ {f} -> minted] /\ \A i \in minted : \E e \in DOMAIN users \ {f} : g[e] = i
    BY <1>5
  <2> QED  BY <2>1, <2>2 DEF Bijection, Injection, Surjection, IsInjective
<1>7. ExistsBijection(DOMAIN users \ {f}, minted)
  BY <1>6 DEF ExistsBijection
<1> QED  BY <1>4, <1>7, FS_Bijection

LEMMA PeopleAtRest == ASSUME AccountsInit(users, workspaces), AccountsCoherent PROVE PeopleInv /\ RequestsOK
<1>1. /\ invites = {} /\ shown = 0 /\ requests = [s \in Slots |-> Idle]
      /\ confirmed = [e \in Emails |-> IF e \in DOMAIN users THEN users[e].secret ELSE NULL]
      /\ sessions = {[who |-> e, cv |-> users[e].password] : e \in DOMAIN users}
  BY DEF AccountsInit
<1>2. \A i \in minted : \E e \in DOMAIN users :
        /\ users[e].id # 1 /\ i.id = users[e].id - 1 /\ i.email = e /\ i.ws = users[e].ws /\ i.role = users[e].role
        /\ i = [id |-> users[e].id - 1, email |-> e, role |-> users[e].role, ws |-> users[e].ws]
  BY DEF AccountsInit
<1>3. \A e \in DOMAIN users : users[e].id # 1 =>
        [id |-> users[e].id - 1, email |-> e, role |-> users[e].role, ws |-> users[e].ws] \in minted
  BY DEF AccountsInit
<1>4. MaxIds \in Nat /\ workspaces \in 0..MaxIds /\ DOMAIN users \subseteq Emails /\ Cardinality(Emails) \in Nat
  BY AccountAssumption, FS_CardinalityType DEF AccountsCoherent
<1>5. \A e \in DOMAIN users :
        /\ users[e] \in Row /\ users[e].ws \in 1..workspaces /\ users[e].id \in 1..Cardinality(Emails)
        /\ users[e].role \in Roles /\ users[e].password \in 1..MaxIds /\ users[e].secret \in Secrets
  BY <1>4 DEF AccountsCoherent, Row
<1>6. Cardinality(DOMAIN users) \in Nat /\ Cardinality(DOMAIN users) <= MaxIds + 1
  <2>1. IsFiniteSet(DOMAIN users)
    BY <1>4, AccountAssumption, FS_Subset
  <2> QED  BY <2>1, FS_CardinalityType DEF AccountsCoherent
<1>7. \A e \in DOMAIN users : users[e].id <= Cardinality(DOMAIN users)
  BY DEF AccountsCoherent
<1>8. AccountsTypeOK
  <2>1. minted \subseteq Invites
    BY <1>2, <1>4, <1>5, <1>6, <1>7 DEF Invites
  <2>2. sessions \subseteq [who : DOMAIN users, cv : 1..MaxIds]
    BY <1>1, <1>5
  <2>3. confirmed \in [Emails -> Secrets]
    BY <1>1, <1>5 DEF Secrets
  <2>4. \A s \in Slots : requests[s].who \in Emails \cup {NULL} /\ requests[s].role \in Roles
    BY <1>1 DEF Idle, Roles
  <2> QED  BY <1>1, <1>4, <1>5, <2>1, <2>2, <2>3, <2>4 DEF AccountsTypeOK, AccountsCoherent
<1>9. Numbering
  <2>1. CASE DOMAIN users = {}
    <3>1. minted = {} /\ workspaces <= 1
      BY <1>2, <2>1 DEF AccountsCoherent
    <3> QED  BY <1>1, <3>1, FS_EmptySet DEF Numbering
  <2>2. CASE DOMAIN users # {}
    <3>1. IsFiniteSet(minted) /\ Cardinality(minted) = Cardinality(DOMAIN users) - 1
      BY <2>2, MembersCounted
    <3>2. \A i \in minted : i.id <= Cardinality(minted) /\ i.ws <= workspaces
      BY <1>2, <1>4, <1>5, <1>6, <1>7, <3>1
    <3>3. ASSUME NEW i \in minted, NEW j \in minted, i.id = j.id PROVE i = j
      <4>1. PICK e \in DOMAIN users : i.id = users[e].id - 1 /\
              i = [id |-> users[e].id - 1, email |-> e, role |-> users[e].role, ws |-> users[e].ws]
        BY <1>2
      <4>2. PICK f \in DOMAIN users : j.id = users[f].id - 1 /\
              j = [id |-> users[f].id - 1, email |-> f, role |-> users[f].role, ws |-> users[f].ws]
        BY <1>2
      <4>3. users[e].id = users[f].id
        <5>1. users[e].id - 1 = users[f].id - 1
          BY <3>3, <4>1, <4>2
        <5>2. users[e].id \in Nat /\ users[f].id \in Nat
          BY <1>4, <1>5
        <5> QED  BY <5>1, <5>2
      <4>4. e = f
        BY <4>3 DEF AccountsCoherent
      <4> QED  BY <4>1, <4>2, <4>4
    <3> QED  BY <1>1, <2>2, <3>1, <3>2, <3>3 DEF Numbering
  <2> QED  BY <2>1, <2>2
<1>10. Membership
  BY <1>1, <1>3 DEF Membership
<1>11. InviteRows /\ PlainIsLegacy /\ EnrolledIsLast
  BY <1>1, <1>4 DEF InviteRows, PlainIsLegacy, EnrolledIsLast, AccountsCoherent
<1>12. RequestsOK
  BY <1>1, IdleOK DEF RequestsOK
<1> QED  BY <1>8, <1>9, <1>10, <1>11, <1>12 DEF PeopleInv

LEMMA PanelAtRest == ASSUME PanelInit PROVE PanelInv
<1>1. PeopleInv /\ RequestsOK
  BY PeopleAtRest DEF PanelInit
<1>2. ChannelMidway
  BY DEF ChannelMidway, PanelInit, AccountsInit, Idle
<1>3. ForcedMovesOn
  BY DEF ForcedMovesOn, PanelInit, LinksInit
<1> QED  BY <1>1, <1>2, <1>3 DEF PanelInv, PanelInit, RowsInv, LinksInv, LinksLead, StoredInv

-----------------------------------------------------------------------------
(* What a stored segment resolves to.                                      *)

LEMMA LeastIs == ASSUME NEW S \in SUBSET {0, 1, 2}, S # {} PROVE Least(S) \in S /\ (Least(S) = 2 <=> \A y \in S : y = 2)
<1>1. \E x \in S : \A y \in S : x <= y
  <2>1. CASE 0 \in S
    BY <2>1
  <2>2. CASE 0 \notin S /\ 1 \in S
    BY <2>2
  <2>3. CASE 0 \notin S /\ 1 \notin S
    <3>1. S = {2}
      BY <2>3
    <3> QED  BY <3>1
  <2> QED  BY <2>1, <2>2, <2>3
<1>2. Least(S) \in S /\ \A y \in S : Least(S) <= y
  BY <1>1 DEF Least
<1>3. \A y \in S : y = 0 \/ y = 1 \/ y = 2
  OBVIOUS
<1>4. PICK v \in S : v = Least(S) /\ \A y \in S : v <= y
  BY <1>2
<1> QED  BY <1>3, <1>4

LEMMA GreatestIs == ASSUME NEW S \in SUBSET {0, 1, 2}, S # {} PROVE Greatest(S) \in S /\ (Greatest(S) = 2 <=> 2 \in S)
<1>1. \E x \in S : \A y \in S : y <= x
  <2>1. CASE 2 \in S
    BY <2>1
  <2>2. CASE 2 \notin S /\ 1 \in S
    BY <2>2
  <2>3. CASE 2 \notin S /\ 1 \notin S
    <3>1. S = {0}
      BY <2>3
    <3> QED  BY <3>1
  <2> QED  BY <2>1, <2>2, <2>3
<1>2. Greatest(S) \in S /\ \A y \in S : y <= Greatest(S)
  BY <1>1 DEF Greatest
<1>3. \A y \in S : y = 0 \/ y = 1 \/ y = 2
  OBVIOUS
<1>4. PICK v \in S : v = Greatest(S) /\ \A y \in S : y <= v
  BY <1>2
<1> QED  BY <1>3, <1>4

\* A condition is true of those it holds of, and of nobody else.
LEMMA ConditionValue ==
  ASSUME NEW c, NEW m \in Members, NormalizeCondition(c)
  PROVE  CompileCondition(c, m) \in {0, 1, 2} /\ (CompileCondition(c, m) = 2 <=> Holds(c, m))
<1>1. c.field \in {"country", "seen", "opens", "tag"}
  BY DEF NormalizeCondition, FieldOps
<1>2. CASE c.field = "tag"
  BY <1>2 DEF CompileCondition, Holds, Truth
<1>3. CASE c.field \in {"country", "seen"}
  BY <1>3 DEF CompileCondition, Holds, Truth
<1>4. CASE c.field = "opens"
  BY <1>4, SegmentsAssumption DEF CompileCondition, Holds, Truth
<1> QED  BY <1>1, <1>2, <1>3, <1>4

Describes(g, m) ==
  LET cs == {g.conditions[j] : j \in DOMAIN g.conditions} IN
  IF g.logic = "AND" THEN \A c \in cs : Holds(c, m) ELSE \E c \in cs : Holds(c, m)

LEMMA GroupValueIs ==
  ASSUME NEW g, NEW m \in Members, DOMAIN g.conditions # {},
         \A j \in DOMAIN g.conditions : NormalizeCondition(g.conditions[j])
  PROVE  GroupValue(g, m) \in {0, 1, 2} /\ (GroupValue(g, m) = 2 <=> Describes(g, m))
<1> DEFINE values == {CompileCondition(g.conditions[j], m) : j \in DOMAIN g.conditions}
<1>1. \A j \in DOMAIN g.conditions :
        /\ CompileCondition(g.conditions[j], m) \in {0, 1, 2}
        /\ CompileCondition(g.conditions[j], m) = 2 <=> Holds(g.conditions[j], m)
  BY ConditionValue
<1>2. values \in SUBSET {0, 1, 2} /\ values # {}
  BY <1>1
<1>3. Describes(g, m) <=> IF g.logic = "AND" THEN \A v \in values : v = 2 ELSE 2 \in values
  BY <1>1 DEF Describes
<1>4. GroupValue(g, m) = IF g.logic = "AND" THEN Least(values) ELSE Greatest(values)
  BY DEF GroupValue
<1> HIDE DEF values
<1>5. CASE g.logic = "AND"
  <2>1. Least(values) \in values /\ (Least(values) = 2 <=> \A y \in values : y = 2)
    BY <1>2, LeastIs
  <2> QED  BY <1>2, <1>3, <1>4, <1>5, <2>1
<1>6. CASE g.logic # "AND"
  <2>1. Greatest(values) \in values /\ (Greatest(values) = 2 <=> 2 \in values)
    BY <1>2, GreatestIs
  <2> QED  BY <1>2, <1>3, <1>4, <1>6, <2>1
<1> QED  BY <1>5, <1>6

LEMMA RulesAreDescribed ==
  ASSUME NEW rules \in Drafts, NEW m \in Members, NormalizeRules(rules)
  PROVE  SegmentWhere(rules, m) <=> \A k \in DOMAIN rules : Describes(rules[k], m)
<1> DEFINE values == {GroupValue(rules[k], m) : k \in DOMAIN rules}
<1>1. ASSUME NEW k \in DOMAIN rules
      PROVE  GroupValue(rules[k], m) \in {0, 1, 2} /\ (GroupValue(rules[k], m) = 2 <=> Describes(rules[k], m))
  <2>1. /\ Len(rules[k].conditions) \in 1..25
        /\ \A j \in DOMAIN rules[k].conditions : NormalizeCondition(rules[k].conditions[j])
    BY DEF NormalizeRules
  <2>2. DOMAIN rules[k].conditions = 1..Len(rules[k].conditions)
    BY SegmentsAssumption
  <2>3. DOMAIN rules[k].conditions # {}
    <3>1. PICK n \in 1..25 : Len(rules[k].conditions) = n
      BY <2>1
    <3>2. 1 \in 1..n
      OBVIOUS
    <3> QED  BY <2>2, <3>1, <3>2
  <2>4. PICK g : g = rules[k]
    OBVIOUS
  <2> QED  BY <2>1, <2>3, <2>4, GroupValueIs
<1>2. values \in SUBSET {0, 1, 2}
  BY <1>1
<1>3. (\A v \in values : v = 2) <=> \A k \in DOMAIN rules : Describes(rules[k], m)
  BY <1>1
<1>4. SegmentWhere(rules, m) <=> values = {} \/ Least(values) = 2
  BY DEF SegmentWhere
<1> HIDE DEF values
<1>5. CASE values = {}
  BY <1>3, <1>4, <1>5
<1>6. CASE values # {}
  <2>1. Least(values) = 2 <=> \A y \in values : y = 2
    BY <1>2, <1>6, LeastIs
  <2> QED  BY <1>3, <1>4, <1>6, <2>1
<1> QED  BY <1>5, <1>6

\* Rules and sites of a stored segment mean what they say.
LEMMA StoredResolves == ASSUME RowsCoherent, StoredInv PROVE SegmentsResolve
<1>1. AudienceInside
  <2> SUFFICES ASSUME NEW i \in DOMAIN stored, NEW d \in DOMAIN sites \cup {NULL}, NEW m \in ResolveSegment(i, d)
               PROVE  /\ m.active /\ m.site \in DOMAIN sites /\ sites[m.site].ws = RowOf(i).ws
                      /\ stored[i].listed # {} => m.site \in stored[i].listed
                      /\ d # NULL => m.site = d
    BY DEF AudienceInside
  <2> DEFINE filter == DomainFilter(stored[i].listed, d)
  <2>1. /\ m.active /\ m.site \in DOMAIN sites /\ sites[m.site].ws = RowOf(i).ws
        /\ filter \notin {NULL, {}} => m.site \in filter
    BY DEF ResolveSegment, Matches, Present
  <2>2. MaxSites \in Nat /\ m.site \in 1..MaxSites /\ (d # NULL => d \in 1..MaxSites) /\ stored[i].listed \subseteq 1..MaxSites
    BY <2>1, SiteNumber, CatalogueAssumption DEF StoredInv, SegmentsTypeOK
  <2>3. \A S \in SUBSET (-1..MaxSites) : NULL # S
    BY SegmentsAssumption
  <2>4. CASE d = NULL /\ stored[i].listed # {}
    <3>1. filter = stored[i].listed
      BY <2>4 DEF DomainFilter
    <3>2. filter \notin {NULL, {}}
      BY <2>2, <2>3, <2>4, <3>1
    <3> QED  BY <2>1, <2>4, <3>1, <3>2
  <2>5. CASE d # NULL /\ (stored[i].listed = {} \/ d \in stored[i].listed)
    <3>1. filter = {d}
      BY <2>5 DEF DomainFilter
    <3>2. filter \notin {NULL, {}}
      <4>1. {d} \in SUBSET (-1..MaxSites)
        BY <2>2, <2>5
      <4> QED  BY <2>3, <3>1, <4>1
    <3> QED  BY <2>1, <2>5, <3>1, <3>2
  <2>6. CASE d # NULL /\ stored[i].listed # {} /\ d \notin stored[i].listed
    <3>1. filter = {-1}
      BY <2>6 DEF DomainFilter
    <3>2. filter \notin {NULL, {}}
      <4>1. {-1} \in SUBSET (-1..MaxSites)
        BY <2>2
      <4> QED  BY <2>3, <3>1, <4>1
    <3> QED  BY <2>1, <2>2, <3>1, <3>2
  <2> QED  BY <2>1, <2>4, <2>5, <2>6
<1>2. RulesDescribe
  <2> SUFFICES ASSUME NEW i \in DOMAIN stored, NEW m \in Present
               PROVE  SegmentWhere(stored[i].rules, m) <=>
                        \A g \in {stored[i].rules[k] : k \in DOMAIN stored[i].rules} : Describes(g, m)
    BY DEF RulesDescribe, Describes
  <2>1. stored[i].rules \in Drafts /\ NormalizeRules(stored[i].rules) /\ m \in Members
    BY DEF StoredInv, SegmentsTypeOK, ValidRules, Present
  <2>2. PICK rules : rules = stored[i].rules
    OBVIOUS
  <2>3. SegmentWhere(rules, m) <=> \A k \in DOMAIN rules : Describes(rules[k], m)
    BY <2>1, <2>2, RulesAreDescribed
  <2> QED  BY <2>2, <2>3
<1> QED  BY <1>1, <1>2 DEF SegmentsResolve

-----------------------------------------------------------------------------
(* The panel's theorems, for any database at rest that it starts from.     *)

LEMMA PanelInductive == PanelSpec => []PanelInv
<1>1. PanelInit => PanelInv
  BY PanelAtRest
<1>2. PanelInv /\ [PanelNext]_segmentVars => PanelInv'
  BY NextKeepsPanel, StutterKeepsPanel DEF PanelStep
<1> QED  BY <1>1, <1>2, PTL DEF PanelSpec

\* Everybody but the founder came in by an invite of their address, with its
\* role and workspace, and an invite counts as accepted only with its
\* account, whatever requests do while a password is hashed; and every part
\* that shares the process and the database keeps its types.
THEOREM PeopleAreInvited == PanelSpec => []PanelInvariant
<1>1. PanelInv => PanelInvariant
  BY DEF PanelInv, PanelInvariant, PanelTypeOK, PeopleInv, RowsInv, RowsCoherent, LinksInv, StoredInv
<1> QED  BY <1>1, PanelInductive, PTL

LEMMA EnrolmentIs == [][EnrolStep]_accountVars <=> EnrolmentKept
<1> DEFINE Body ==
      \A e \in DOMAIN users : users[e].enabled =>
        \/ users'[e].enabled /\ users'[e].secret = users[e].secret
        \/ \E s \in Slots : LET r == requests[s] IN
             /\ r.who = e
             /\ \/ r.op = "disable" /\ r.at = "write"
                \/ r.op = "enroll" /\ r.at = "write" /\ ~r.row.enabled
                \/ /\ r.op = "login" /\ r.at = "verified" /\ r.row.enabled /\ r.row.plain
                   /\ users'[e].enabled /\ users'[e].secret = r.row.secret
<1>1. EnrolStep <=> Body
  BY DEF EnrolStep, Stays, Writes
<1>2. [][Body]_accountVars <=> EnrolmentKept
  BY PTL DEF EnrolmentKept
<1> HIDE DEF Body
<1> QED  BY <1>1, <1>2, PTL

\* Two-factor sign-in is on only with the secret confirmed last, or the one
\* from before encryption.  One in force keeps its secret but for a request
\* to switch it off, an enrolment that found it off before its password was
\* hashed, and a login that writes back the secret it read, whatever else
\* interleaves; a secret leaves the vault only in the ways VaultKept names.
THEOREM SecretsStay == PanelSpec => SecretsKept
<1>1. PanelInv => EnrolledIsLast
  BY DEF PanelInv, PeopleInv
<1>2. PanelInv /\ [PanelNext]_segmentVars => (EnrolStep \/ UNCHANGED accountVars) /\ (VaultStep \/ UNCHANGED settingsVars)
  <2>1. UNCHANGED segmentVars => UNCHANGED accountVars /\ UNCHANGED settingsVars
    BY DEF segmentVars, linksVars, catalogueVars, settingsVars
  <2> QED  BY <2>1, NextKeepsPanel DEF PanelStep
<1>3. PanelSpec => [][EnrolStep]_accountVars /\ [][VaultStep]_settingsVars
  BY <1>2, PanelInductive, PTL DEF PanelSpec
<1> DEFINE VaultBody ==
      \A k \in Sealed : k \in vault /\ k \notin vault' =>
        \E s \in Slots : LET f == requests[s].arg IN
          /\ At(s, "save", "second")
          /\ \/ f.op = "secrets" /\ f.typed[k] # "new" /\ (k \in f.clear \/ f.typed[k] = "spaces")
             \/ f.op = "outbound" /\ k = "signing" /\ (~f.url \/ f.typed = "spaces")
<1>4. VaultStep => VaultBody
  BY DEF VaultStep, Says
<1>5. [][VaultBody]_settingsVars <=> VaultKept
  BY PTL DEF VaultKept
<1>6. [][EnrolStep]_accountVars <=> EnrolmentKept
  BY EnrolmentIs
<1> HIDE DEF VaultBody
<1> QED  BY <1>1, <1>3, <1>4, <1>5, <1>6, PanelInductive, PTL DEF SecretsKept

\* What a workspace owns stays in it: its rows name its own sites, and only
\* requests of its own members and keys that may write touch its sites and
\* rows, also while somebody is moved to another workspace.
THEOREM WorkspacesStay == PanelSpec => Tenancy
<1>1. PanelInv => NoStrays
  BY DEF PanelInv, RowsInv, RowsCoherent
<1>2. PanelInv /\ [PanelNext]_segmentVars => WallStep \/ UNCHANGED catalogueVars
  <2>1. UNCHANGED segmentVars => UNCHANGED catalogueVars
    BY DEF segmentVars, linksVars
  <2> QED  BY <2>1, NextKeepsPanel DEF PanelStep
<1>3. PanelSpec => [][WallStep]_catalogueVars
  BY <1>2, PanelInductive, PTL DEF PanelSpec
<1> QED  BY <1>1, <1>3, PanelInductive, PTL DEF Tenancy, WorkspaceWall, WallStep

\* A channel has its landing link unless somebody deleted it by hand,
\* wherever the process stops between the two statements, and a visitor of a
\* forced page is moved on unless the question threw.
THEOREM LinksAlwaysLead == PanelSpec => []LinksLead
<1>1. PanelInv => LinksLead
  BY DEF PanelInv, LinksInv
<1> QED  BY <1>1, PanelInductive, PTL

\* A segment resolves to active subscribers of its own workspace, of sites
\* it lists and of the campaign's site, and to exactly those its rules
\* describe, also after sites were deleted under it.
THEOREM SegmentsAlwaysResolve == PanelSpec => []SegmentsResolve
<1>1. PanelInv => SegmentsResolve
  BY StoredResolves DEF PanelInv, RowsInv
<1> QED  BY <1>1, PanelInductive, PTL
=============================================================================
