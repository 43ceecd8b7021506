------------------------------ MODULE Settings ------------------------------
(***************************************************************************)
(* The settings of the instance and its vault of encrypted secrets, which  *)
(* only the founder of the panel saves: one form per kind, one statement   *)
(* per key, with no transaction around a form.  The process may restart    *)
(* between two statements.                                                 *)
(***************************************************************************)
EXTENDS Accounts, Sequences

VARIABLE
  vault        \* settings that hold a value, by key

settingsVars == <<accountVars, vault>>

Plain    == {"utm", "speed", "url", "drive", "folder"}
Sealed   == {"ai key", "mail key", "signing", "service json"}

SettingsTypeOK == vault \subseteq Plain \cup Sealed

\* What is typed into a field: nothing, spaces only, or a new value.
Typed == {"nothing", "spaces", "new"}
Forms == [op : {"general"}, speed : {"set", "keep"}]
         \cup [op : {"secrets"}, typed : [{"ai key", "mail key"} -> Typed],
               clear : SUBSET {"ai key", "mail key"}]
         \cup [op : {"drive"}, folder : BOOLEAN, json : {"none", "valid", "invalid"}]
         \cup [op : {"outbound"}, url : BOOLEAN, typed : Typed]

\* What is done to a key: a new value, no value, or nothing.  Trimming
\* leaves nothing of spaces, which then clear the key.
SetSecret(typed) == CASE typed = "new" -> "set" [] typed = "spaces" -> "clear" [] OTHER -> "keep"

\* Something typed wins over the box that clears.
SaveOrClear(f, k) ==
  IF f.typed[k] = "nothing" /\ k \in f.clear THEN "clear" ELSE SetSecret(f.typed[k])

\* The statements of a form in their order.  The Drive form stores switch
\* and folder before it looks at the service account; the outbound form
\* without a URL clears URL and secret, and then stores a secret that was
\* typed all the same.
Statements(f) ==
  CASE f.op = "general"  -> <<<<f.speed, "speed">>, <<"set", "utm">>>>
    [] f.op = "secrets"  -> <<<<SaveOrClear(f, "ai key"), "ai key">>,
                              <<SaveOrClear(f, "mail key"), "mail key">>>>
    [] f.op = "drive"    -> <<<<"set", "drive">>, <<IF f.folder THEN "set" ELSE "clear", "folder">>,
                              <<IF f.json = "valid" THEN "set" ELSE "keep", "service json">>>>
    [] f.op = "outbound" -> <<<<IF f.url THEN "set" ELSE "clear", "url">>,
                              <<IF f.url THEN "keep" ELSE "clear", "signing">>,
                              <<SetSecret(f.typed), "signing">>>>

Store(st) == vault' = CASE st[1] = "set"   -> vault \cup {st[2]}
                        [] st[1] = "clear" -> vault \ {st[2]}
                        [] st[1] = "keep"  -> vault

SaveForm(s, f) == Authenticate(s, "settings", "save", f) /\ UNCHANGED vault

\* requireOwner, then statement after statement: row holds those to come.
RequireOwner(s) ==
  LET r == requests[s] IN
  /\ At(s, "save", "act") /\ Kept /\ UNCHANGED <<people, vault>>
  /\ IF r.role = "owner" /\ r.top
     THEN requests' = [requests EXCEPT ![s].at = "second", ![s].row = Statements(r.arg)]
     ELSE Done(s)

SaveKey(s) ==
  LET todo == requests[s].row IN
  /\ At(s, "save", "second") /\ Kept /\ UNCHANGED people
  /\ Store(Head(todo))
  /\ IF Len(todo) = 1 THEN Done(s) ELSE requests' = [requests EXCEPT ![s].row = Tail(todo)]

SettingsNext == \E s \in Slots : (\E f \in Forms : SaveForm(s, f)) \/ RequireOwner(s) \/ SaveKey(s)

-----------------------------------------------------------------------------
\* A secret leaves the vault only through a form the founder saved: its box
\* to clear is ticked and no new value was typed, or the outbound URL it
\* signs for is cleared, or spaces alone were typed over it, which the code
\* takes for clearing although its comment has deletion explicit, by the box.
\* A field left empty and a form that stops halfway never delete one.
VaultKept ==
  [][\A k \in Sealed : k \in vault /\ k \notin vault' =>
       \E s \in Slots : LET f == requests[s].arg IN
         /\ At(s, "save", "second")
         /\ \/ f.op = "secrets" /\ f.typed[k] # "new" /\ (k \in f.clear \/ f.typed[k] = "spaces")
            \/ f.op = "outbound" /\ k = "signing" /\ (~f.url \/ f.typed = "spaces")]_settingsVars

\* What becomes of the secrets of people and of the panel while requests
\* interleave: a sign-in secret in force is replaced or switched off by a
\* request to switch it off or by one of the two late writers EnrolmentKept
\* names, the one in force is the one confirmed last or the one from before
\* encryption, and the vault loses a secret only in the ways of VaultKept.
SecretsKept == []EnrolledIsLast /\ EnrolmentKept /\ VaultKept

=============================================================================
