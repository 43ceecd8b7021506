------------------------------ MODULE Accounts ------------------------------
(***************************************************************************)
(* Who may use the panel: the founder of /setup, team invites, sign-in,    *)
(* two-factor enrolment, passwords and workspaces, with the web process    *)
(* that answers several requests at a time.                                *)
(*                                                                         *)
(* A handler runs alone between two awaits.  Every signed-in handler begins*)
(* with `await auth()`: the session callback reads the user's row, and     *)
(* what the handler does later rests on that reading.  Where a restart, or *)
(* the other process, may come between two statements of one run, the      *)
(* handler stays at a place of Midway and no other request moves.          *)
(* Definitions with an underscore are mutants of the ones they precede.    *)
(***************************************************************************)
EXTENDS Integers, FiniteSets

CONSTANTS
  Emails,        \* lower-case addresses; users.email is unique
  Slots,         \* bound: requests the process answers at a time
  NULL,
  MaxIds,        \* bound: secrets, passwords, invites and workspaces made
  Parts          \* the parts of the panel that share the requests

ASSUME AccountAssumption ==
  /\ NULL \notin Emails /\ IsFiniteSet(Emails) /\ "accounts" \in Parts /\ MaxIds \in Nat \ {0}

VARIABLES
  users,       \* [email -> row]; users are never deleted
  workspaces,  \* the number of workspaces
  invites,     \* rows of team_invites
  minted,      \* history: every invite, as minted
  sessions,    \* the JWTs in browsers: whose, and the password they are bound to
  shown,       \* history: two-factor secrets shown so far
  confirmed,   \* history: the secret whose code each user confirmed last
  requests,    \* the requests being answered
  budget       \* bound: requests each part may still begin

people      == <<users, workspaces, invites, minted, sessions, shown, confirmed>>
accountVars == <<people, requests, budget>>

-----------------------------------------------------------------------------
Roles   == {"owner", "admin", "editor", "viewer"}
Legacy  == 0   \* the secret of an account from before secrets were encrypted
Secrets == 0..MaxIds \cup {NULL}
Row     == [id : 1..Cardinality(Emails), role : Roles, ws : 1..MaxIds, password : 1..MaxIds,
            secret : Secrets, plain : BOOLEAN, enabled : BOOLEAN]
Invites == [id : 1..MaxIds, email : Emails, role : Roles, ws : 1..MaxIds]

\* op: what is asked for, with its arguments in arg; at: where the handler
\* awaits.  who, cv, ws, role and top are what auth() returned, row is what
\* the handler has read of the user.
Idle == [op |-> "none", at |-> "idle", who |-> NULL, cv |-> 0, ws |-> 0, role |-> "viewer",
         top |-> FALSE, arg |-> NULL, row |-> NULL]

AccountsTypeOK ==
  /\ DOMAIN users \subseteq Emails /\ \A e \in DOMAIN users : users[e] \in Row /\ users[e].ws <= workspaces
  /\ workspaces \in 0..MaxIds
  /\ \A i \in invites : [id |-> i.id, email |-> i.email, role |-> i.role, ws |-> i.ws] \in minted
                        /\ i.accepted \in BOOLEAN /\ i.expired \in BOOLEAN
  /\ minted \subseteq Invites
  /\ sessions \subseteq [who : DOMAIN users, cv : 1..MaxIds]
  /\ shown \in 0..MaxIds /\ confirmed \in [Emails -> Secrets]
  /\ \A s \in Slots : requests[s].who \in Emails \cup {NULL} /\ requests[s].role \in Roles
  /\ budget \in [Parts -> Nat]

-----------------------------------------------------------------------------
Midway     == {"second", "third"}
Undisturbed(s) == \A t \in Slots \ {s} : requests[t].at \notin Midway
Free(s)    == requests[s].op = "none" /\ Undisturbed(s)
At(s, op, at) == requests[s].op = op /\ requests[s].at = at /\ Undisturbed(s)
Take(s, r) == requests' = [requests EXCEPT ![s] = r]
Goto(s, at) == requests' = [requests EXCEPT ![s].at = at]
Done(s)    == requests' = [requests EXCEPT ![s] = Idle]
Spend(p)   == budget[p] > 0 /\ budget' = [budget EXCEPT ![p] = @ - 1]
Kept       == UNCHANGED budget
Who(s)     == requests[s].who
Arg(s)     == requests[s].arg

\* The session callback: a session of a password that was changed is nobody's.
Valid(t) == users[t.who].password = t.cv

Signed(t, op, arg) ==
  LET u == users[t.who] IN
  [Idle EXCEPT !.op = op, !.at = "act", !.who = t.who, !.cv = t.cv, !.ws = u.ws, !.role = u.role,
               !.top = u.id = 1, !.arg = arg]

Authenticate(s, part, op, arg) ==
  /\ Free(s) /\ Spend(part)
  /\ \E t \in sessions : Valid(t) /\ Take(s, Signed(t, op, arg))
  /\ UNCHANGED people

\* A request without a session: a public page or an API key.
Arrive(s, part, r) == Free(s) /\ Spend(part) /\ Take(s, r) /\ UNCHANGED people

\* The process restarts: every request under way is gone.
Restart ==
  /\ \E s \in Slots : requests[s].op # "none"
  /\ requests' = [s \in Slots |-> Idle]
  /\ Spend("faults") /\ UNCHANGED people

-----------------------------------------------------------------------------
(* Setup and team.                                                         *)

NewUser(role, ws) ==
  [id |-> Cardinality(DOMAIN users) + 1, role |-> role, ws |-> ws, password |-> 1,
   secret |-> NULL, plain |-> FALSE, enabled |-> FALSE]
With(e, u) == [f \in DOMAIN users \cup {e} |-> IF f = e THEN u ELSE users[f]]
Set(e, u)  == users' = With(e, u)

\* /setup works while there is no user, also when the hash is ready.
BeginSetup(s, e) ==
  DOMAIN users = {} /\ Arrive(s, "accounts", [Idle EXCEPT !.op = "setup", !.at = "insert", !.who = e])

Found(s) ==
  /\ At(s, "setup", "insert") /\ Done(s) /\ Kept
  /\ IF DOMAIN users = {} THEN workspaces' = 1 /\ Set(Who(s), NewUser("owner", 1))
     ELSE UNCHANGED <<users, workspaces>>
  /\ UNCHANGED <<invites, minted, sessions, shown, confirmed>>

Manages(r) == r.role \in {"owner", "admin"}

\* Only the first user gives the role of an owner.
Invite(s) ==
  LET r == requests[s]
      i == [id |-> Cardinality(minted) + 1, email |-> r.arg.email, role |-> r.arg.role, ws |-> r.ws] IN
  /\ At(s, "invite", "act") /\ Done(s) /\ Kept
  /\ IF /\ Manages(r) /\ (r.arg.role = "owner" => r.top /\ r.role = "owner")
        /\ r.arg.email \notin DOMAIN users /\ i.id <= MaxIds
     THEN /\ minted' = minted \cup {i}
          /\ invites' = invites \cup
               {[id |-> i.id, email |-> i.email, role |-> i.role, ws |-> i.ws,
                 accepted |-> FALSE, expired |-> FALSE]}
     ELSE UNCHANGED <<minted, invites>>
  /\ UNCHANGED <<users, workspaces, sessions, shown, confirmed>>

Revoke(s) ==
  /\ At(s, "revoke", "act") /\ Done(s) /\ Kept
  /\ invites' = IF Manages(requests[s])
                THEN {i \in invites : i.id # Arg(s) \/ i.ws # requests[s].ws} ELSE invites
  /\ UNCHANGED <<users, workspaces, minted, sessions, shown, confirmed>>

\* The invite is read, the password hashed, and account and acceptance
\* written together: the address may be taken by then, the invite revoked.
BeginAccept(s, i) ==
  /\ ~i.accepted /\ ~i.expired /\ i.email \notin DOMAIN users
  /\ Arrive(s, "accounts", [Idle EXCEPT !.op = "accept", !.at = "insert", !.arg = i])

Accept_Torn(i) ==
  /\ invites' = {IF j.id = i.id THEN [j EXCEPT !.accepted = TRUE] ELSE j : j \in invites}
  /\ IF i.email \notin DOMAIN users THEN Set(i.email, NewUser(i.role, i.ws)) ELSE UNCHANGED users

Accept(i) ==
  IF i.email \notin DOMAIN users
  THEN /\ Set(i.email, NewUser(i.role, i.ws))
       /\ invites' = {IF j.id = i.id THEN [j EXCEPT !.accepted = TRUE] ELSE j : j \in invites}
  ELSE UNCHANGED <<users, invites>>

Join(s) ==
  /\ At(s, "accept", "insert") /\ Done(s) /\ Kept /\ Accept(Arg(s))
  /\ UNCHANGED <<workspaces, minted, sessions, shown, confirmed>>

\* Seven days pass; a month after that the worker prunes the row.
Expire(i) ==
  /\ ~i.accepted /\ ~i.expired /\ invites' = (invites \ {i}) \cup {[i EXCEPT !.expired = TRUE]}
  /\ UNCHANGED <<users, workspaces, minted, sessions, shown, confirmed, requests, budget>>

PruneInvites ==
  /\ \E i \in invites : i.accepted \/ i.expired
  /\ invites' = {i \in invites : ~i.accepted /\ ~i.expired}
  /\ UNCHANGED <<users, workspaces, minted, sessions, shown, confirmed, requests, budget>>

-----------------------------------------------------------------------------
(* Signing in, two factors, passwords.                                     *)

\* The row read before the password is verified decides whether a code is
\* asked for, and of which secret.
BeginLogin(s, e) ==
  Arrive(s, "accounts", [Idle EXCEPT !.op = "login", !.at = "verified", !.who = e, !.row = users[e]])

\* A secret from before encryption is written back encrypted.
CheckCode(s) ==
  LET r == requests[s]  migrate == r.row.enabled /\ r.row.plain IN
  /\ At(s, "login", "verified") /\ Kept
  /\ \/ Done(s) /\ UNCHANGED users        \* wrong password or code
     \/ /\ Goto(s, "sign")
        /\ IF migrate THEN Set(r.who, [users[r.who] EXCEPT !.secret = r.row.secret, !.plain = FALSE])
           ELSE UNCHANGED users
  /\ UNCHANGED <<workspaces, invites, minted, sessions, shown, confirmed>>

\* The JWT is bound to the password of that moment.
SignIn(s) ==
  /\ At(s, "login", "sign") /\ Done(s) /\ Kept
  /\ sessions' = sessions \cup {[who |-> Who(s), cv |-> users[Who(s)].password]}
  /\ UNCHANGED <<users, workspaces, invites, minted, shown, confirmed>>

\* The current password is asked for, and verified against the row read.
Verified(s) == users[Who(s)].password = requests[s].cv

ReadUser(s, op, ok) ==
  /\ At(s, op, "act") /\ Kept
  /\ IF ok THEN requests' = [requests EXCEPT ![s].at = "write", ![s].row = users[Who(s)]] ELSE Done(s)
  /\ UNCHANGED people

MayEnroll_Again(s) == TRUE
MayEnroll(s) == ~users[Who(s)].enabled

BeginEnroll(s) == ReadUser(s, "enroll", MayEnroll(s) /\ Verified(s))

Unconfirmed(u, n) == [u EXCEPT !.secret = n, !.plain = FALSE, !.enabled = FALSE]

Enroll(s) ==
  /\ At(s, "enroll", "write") /\ Done(s) /\ Kept
  /\ shown < MaxIds /\ shown' = shown + 1
  /\ Set(Who(s), Unconfirmed(users[Who(s)], shown'))
  /\ UNCHANGED <<workspaces, invites, minted, sessions, confirmed>>

\* The code is one of the secret arg; the row is read, compared and written
\* while no other request runs.
Confirm(s) ==
  /\ At(s, "confirm", "act") /\ Done(s) /\ Kept
  /\ IF users[Who(s)].secret = Arg(s)
     THEN /\ Set(Who(s), [users[Who(s)] EXCEPT !.enabled = TRUE])
          /\ confirmed' = [confirmed EXCEPT ![Who(s)] = Arg(s)]
     ELSE UNCHANGED <<users, confirmed>>
  /\ UNCHANGED <<workspaces, invites, minted, sessions, shown>>

BeginDisable(s) == ReadUser(s, "disable", Verified(s))

Disable(s) ==
  /\ At(s, "disable", "write") /\ Done(s) /\ Kept
  /\ Set(Who(s), [users[Who(s)] EXCEPT !.secret = NULL, !.plain = FALSE, !.enabled = FALSE])
  /\ UNCHANGED <<workspaces, invites, minted, sessions, shown, confirmed>>

BeginPassword(s) == ReadUser(s, "password", Verified(s))

ChangePassword(s) ==
  /\ At(s, "password", "write") /\ Done(s) /\ Kept
  /\ users[Who(s)].password < MaxIds
  /\ Set(Who(s), [users[Who(s)] EXCEPT !.password = @ + 1])
  /\ UNCHANGED <<workspaces, invites, minted, sessions, shown, confirmed>>

-----------------------------------------------------------------------------
(* Workspaces: a new one is entered at once, in a second statement.        *)

CreateWorkspace(s) ==
  LET r == requests[s] IN
  /\ At(s, "workspace", "act") /\ Kept
  /\ IF r.top /\ r.role = "owner" /\ workspaces < MaxIds
     THEN workspaces' = workspaces + 1
          /\ requests' = [requests EXCEPT ![s].at = "second", ![s].arg = workspaces + 1]
     ELSE Done(s) /\ UNCHANGED workspaces
  /\ UNCHANGED <<users, invites, minted, sessions, shown, confirmed>>

EnterWorkspace(s) ==
  /\ At(s, "workspace", "second") /\ Done(s) /\ Kept
  /\ Set(Who(s), [users[Who(s)] EXCEPT !.ws = Arg(s)])
  /\ UNCHANGED <<workspaces, invites, minted, sessions, shown, confirmed>>

Known(w)     == w \in 1..workspaces

SwitchWorkspace(s) ==
  LET r == requests[s] IN
  /\ At(s, "switch", "act") /\ Done(s) /\ Kept
  /\ IF r.top /\ r.role = "owner" /\ Known(r.arg)
     THEN Set(r.who, [users[r.who] EXCEPT !.ws = r.arg]) ELSE UNCHANGED users
  /\ UNCHANGED <<workspaces, invites, minted, sessions, shown, confirmed>>

-----------------------------------------------------------------------------
\* Members have come in by invites pruned since.
AccountsInit(us, ws) ==
  /\ users = us /\ workspaces = ws
  /\ invites = {}
  /\ minted = {[id |-> us[e].id - 1, email |-> e, role |-> us[e].role, ws |-> us[e].ws] :
                e \in {f \in DOMAIN us : us[f].id # 1}}
  /\ sessions = {[who |-> e, cv |-> us[e].password] : e \in DOMAIN us}
  /\ shown = 0
  /\ confirmed = [e \in Emails |-> IF e \in DOMAIN us THEN us[e].secret ELSE NULL]
  /\ requests = [s \in Slots |-> Idle]

Asks(s) ==
  \/ \E e \in Emails : BeginSetup(s, e)
  \/ \E i \in invites : BeginAccept(s, i)
  \/ \E e \in DOMAIN users : BeginLogin(s, e)
  \/ \E e \in Emails, role \in Roles : Authenticate(s, "team", "invite", [email |-> e, role |-> role])
  \/ \E i \in invites : Authenticate(s, "team", "revoke", i.id)
  \/ \E op \in {"enroll", "disable", "password"} : Authenticate(s, "accounts", op, NULL)
  \/ \E n \in 0..shown : Authenticate(s, "accounts", "confirm", n)
  \/ Authenticate(s, "team", "workspace", NULL)
  \/ \E w \in 1..MaxIds : Authenticate(s, "team", "switch", w)

Answers(s) ==
  \/ Found(s) \/ Invite(s) \/ Revoke(s) \/ Join(s)
  \/ CheckCode(s) \/ SignIn(s)
  \/ BeginEnroll(s) \/ Enroll(s) \/ Confirm(s) \/ BeginDisable(s) \/ Disable(s)
  \/ BeginPassword(s) \/ ChangePassword(s)
  \/ CreateWorkspace(s) \/ EnterWorkspace(s) \/ SwitchWorkspace(s)

AccountsNext ==
  \/ \E s \in Slots : Asks(s) \/ Answers(s)
  \/ \E i \in invites : Expire(i)
  \/ PruneInvites
  \/ Restart

-----------------------------------------------------------------------------
\* Everybody but the founder came in by an invite of that address and holds
\* its role and workspace, and an invite counts as accepted only when its
\* own account was made, whatever happens while the password is hashed.
Membership ==
  /\ \A e \in DOMAIN users : users[e].id # 1 =>
       \E i \in minted : i.email = e /\ i.role = users[e].role /\ i.ws = users[e].ws
  /\ \A i \in invites : i.accepted =>
       i.email \in DOMAIN users /\ users[i.email].role = i.role /\ users[i.email].ws = i.ws

\* Two-factor sign-in is on only with the secret whose code the user
\* confirmed last; a login of an account from before encryption may bring
\* back the old secret, never another one.
EnrolledIsLast ==
  \A e \in DOMAIN users : users[e].enabled => users[e].secret \in {confirmed[e], Legacy}

\* An enrolment in force stays on, with its secret, until a request to switch
\* it off, its password verified, writes.  Two handlers that write what they
\* read before an await break this, and no other one: an enrolment begun
\* while two factors were off wipes the one confirmed since, and a login of
\* an account from before encryption puts the old secret back under it.
EnrolmentKept ==
  [][\A e \in DOMAIN users : users[e].enabled =>
       \/ users'[e].enabled /\ users'[e].secret = users[e].secret
       \/ \E s \in Slots : LET r == requests[s] IN
            /\ r.who = e
            /\ \/ r.op = "disable" /\ r.at = "write"
               \/ r.op = "enroll" /\ r.at = "write" /\ ~r.row.enabled
               \/ /\ r.op = "login" /\ r.at = "verified" /\ r.row.enabled /\ r.row.plain
                  /\ users'[e].enabled /\ users'[e].secret = r.row.secret]_accountVars

\* What enableTfaStartAction says of itself, "Never clobber an active
\* enrollment silently": two factors go off only by a request to switch them
\* off.  It does not hold: the flag is read before the password is hashed
\* and the row is overwritten without reading it again.
NeverClobbered ==
  [][\A e \in DOMAIN users : users[e].enabled /\ ~users'[e].enabled =>
       \E s \in Slots : requests[s].who = e /\ requests[s].op = "disable" /\ requests[s].at = "write"]_accountVars

=============================================================================
