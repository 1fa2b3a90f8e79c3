------------------------------ MODULE Accounts ------------------------------
(***************************************************************************)
(* User accounts and the calls that create or change them: registration,   *)
(* the first login by phone or by Google, a profile update, an import.     *)
(* Each is a transaction at READ COMMITTED that first looks names up and   *)
(* then relies on the table's unique constraints: a second writer of a     *)
(* value waits for the first and fails.                                    *)
(***************************************************************************)
EXTENDS Naturals, Sequences, FiniteSets

CONSTANTS
    Calls,
    Names, Emails, Phones, Subs,
    None,           \* NULL in a column
    EmailOf,        \* per Google account: its email, or None
    Kinds,          \* the calls that occur
    MaxUsers        \* bound of the model

AccountsAssumption ==
    /\ None \notin Names \cup Emails \cup Phones \cup Subs
    /\ EmailOf \in [Subs -> Emails \cup {None}]
    /\ Kinds \subseteq {"register", "phone", "google", "update", "import"}
    /\ MaxUsers \in Nat

VARIABLES
    users,      \* the committed rows: [name, email, phone, sub, home], home: has a workspace
    call,       \* per call: [st, kind, name, email, phone, sub, user, open, clash]
    signed      \* history: <<identity, user>> for every login that succeeded

vars == <<users, call, signed>>

Idle == [st |-> "idle", kind |-> "register", name |-> None, email |-> None, phone |-> None,
         sub |-> None, user |-> 0, open |-> TRUE, clash |-> FALSE]

Init ==
    /\ users = <<>>
    /\ call = [c \in Calls |-> Idle]
    /\ signed = {}

Ids == 1..Len(users)
Having(field, v) == {u \in Ids : v # None /\ users[u][field] = v}
Taken(field, v) == Having(field, v) # {}
Only(S) == CHOOSE u \in S : TRUE

\* A call starts. Logins read before their transaction whether registration is open.
Begin(c) ==
    /\ call[c].st = "idle"
    /\ \E k \in Kinds, n \in Names \cup {None}, e \in Emails \cup {None},
         p \in Phones \cup {None}, s \in Subs \cup {None}, open \in BOOLEAN, u \in 0..Len(users) :
        /\ k \notin {"phone", "google"} => open
        /\ CASE k = "register" -> n # None /\ s = None /\ u = 0
             [] k = "phone" -> p # None /\ {n, e, s} = {None} /\ u = 0
             [] k = "google" -> s # None /\ e = EmailOf[s] /\ {n, p} = {None} /\ u = 0
             [] k = "update" -> u # 0 /\ s = None /\ {n, e, p} # {None}
             [] k = "import" -> n # None /\ e # None /\ {p, s} = {None} /\ u = 0
        /\ call' = [call EXCEPT ![c] = [Idle EXCEPT !.st = "lookup", !.kind = k, !.name = n,
                                        !.email = e, !.phone = p, !.sub = s, !.user = u,
                                        !.open = open]]
    /\ UNCHANGED <<users, signed>>

Become(c, st) == call' = [call EXCEPT ![c].st = st]
Found(c, st, u) == call' = [call EXCEPT ![c].st = st, ![c].user = u]

\* A value of the call that belongs to another user already; registration does not look its
\* phone up, an import only its names.
LooksTaken(c) ==
    \E f \in (CASE call[c].kind = "register" -> {"name", "email"}
                [] call[c].kind = "update" -> {"name", "email", "phone"}
                [] OTHER -> {"name"}) :
        Having(f, call[c][f]) \ {call[c].user} # {}

\* The look-ups before a write.
LookUp(c) ==
    /\ call[c].st = "lookup" /\ call[c].kind \in {"register", "update", "import"}
    /\ Become(c, IF LooksTaken(c) THEN "failed" ELSE "write")
    /\ UNCHANGED <<users, signed>>

\* find_or_create_by_phone: the user with the phone, or a new one.
LookUpPhone(c) ==
    /\ call[c].st = "lookup" /\ call[c].kind = "phone"
    /\ IF Taken("phone", call[c].phone) THEN Found(c, "found", Only(Having("phone", call[c].phone)))
       ELSE Become(c, IF call[c].open THEN "name" ELSE "failed")
    /\ UNCHANGED <<users, signed>>

\* find_or_create_by_google: the user with the account, or else the one with its email.
LookUpSub(c) ==
    /\ call[c].st = "lookup" /\ call[c].kind = "google"
    /\ IF Taken("sub", call[c].sub) THEN Found(c, "found", Only(Having("sub", call[c].sub)))
       ELSE Become(c, "email")
    /\ UNCHANGED <<users, signed>>

LookUpEmail(c) ==
    /\ call[c].st = "email"
    /\ IF Taken("email", call[c].email) THEN Found(c, "link", Only(Having("email", call[c].email)))
       ELSE Become(c, IF call[c].open THEN "name" ELSE "failed")
    /\ UNCHANGED <<users, signed>>

\* _generate_unique_username: a name nobody has yet.
MakeName(c) == \E n \in Names :
    /\ call[c].st = "name"
    /\ ~Taken("name", n)
    /\ call' = [call EXCEPT ![c].st = "write", ![c].name = n]
    /\ UNCHANGED <<users, signed>>

\* Mutant: the phone is no unique column.
ClashesButPhone(row, u) ==
    {f \in {"name", "email", "sub"} : Having(f, row[f]) \ {u} # {}}
\* The unique constraints: fields of the row in which another user has the value.
Clashes(row, u) ==
    {f \in {"name", "email", "phone", "sub"} : Having(f, row[f]) \ {u} # {}}
RowOf(c) == [name |-> call[c].name, email |-> call[c].email, phone |-> call[c].phone,
             sub |-> call[c].sub, home |-> TRUE]

\* Where a call goes whose insert violated a constraint: a login has its savepoint undone and
\* looks once more.
AfterClash(c) == IF call[c].kind \in {"phone", "google"} THEN "again" ELSE "failed"

\* The user and its personal workspace, in one transaction.
Create(c) ==
    /\ call[c].st = "write" /\ call[c].kind \in {"register", "phone", "google"}
    /\ Len(users) < MaxUsers
    /\ LET clashes == Clashes(RowOf(c), 0)
       IN IF clashes = {}
            THEN /\ users' = Append(users, RowOf(c))
                 /\ Found(c, "found", Len(users) + 1)
            ELSE /\ call' = [call EXCEPT ![c].st = AfterClash(c), ![c].clash = "name" \in clashes]
                 /\ UNCHANGED users
    /\ UNCHANGED signed

\* Who won the race for the values of the call.
Winner(c) == IF call[c].kind = "phone" THEN Having("phone", call[c].phone)
             ELSE Having("sub", call[c].sub)

\* After a clash: the other call's user is the one that signs in, by its email if need be.
LookAgain(c) ==
    /\ call[c].st = "again"
    /\ LET byEmail == Having("email", call[c].email)
       IN IF Winner(c) # {} THEN Found(c, "found", Only(Winner(c)))
          ELSE IF call[c].kind = "google" /\ byEmail # {} THEN Found(c, "link", Only(byEmail))
          ELSE Become(c, "failed")
    /\ UNCHANGED <<users, signed>>

\* The rows after link_google_account.
Linked(c) == [users EXCEPT ![call[c].user].sub = call[c].sub]

Link(c) ==
    /\ call[c].st = "link"
    /\ IF Having("sub", call[c].sub) \ {call[c].user} # {}
         THEN Become(c, "failed") /\ UNCHANGED users
         ELSE users' = Linked(c) /\ Become(c, "found")
    /\ UNCHANGED signed

\* user_update: the fields of the call that are given.
Update(c) ==
    /\ call[c].st = "write" /\ call[c].kind = "update"
    /\ LET u == call[c].user
           keep(f) == IF call[c][f] = None THEN users[u][f] ELSE call[c][f]
           row == [users[u] EXCEPT !.name = keep("name"), !.email = keep("email"),
                                   !.phone = keep("phone")]
       IN IF Clashes(row, u) = {} THEN users' = [users EXCEPT ![u] = row] /\ Become(c, "found")
          ELSE Become(c, "failed") /\ UNCHANGED users
    /\ UNCHANGED signed

\* bulk_upsert: a user with the email is given the name, else there is a new one, without a
\* personal workspace.
Import(c) ==
    /\ call[c].st = "write" /\ call[c].kind = "import"
    /\ LET same == Having("email", call[c].email)
       IN IF Having("name", call[c].name) \ same # {}
            THEN Become(c, "failed") /\ UNCHANGED users
            ELSE /\ same # {} \/ Len(users) < MaxUsers
                 /\ users' = IF same # {} THEN [users EXCEPT ![Only(same)].name = call[c].name]
                             ELSE Append(users, [RowOf(c) EXCEPT !.home = FALSE])
                 /\ Become(c, "found")
    /\ UNCHANGED signed

\* The login gives its token; every call ends.
Answer(c) ==
    /\ call[c].st \in {"found", "failed"}
    /\ signed' = IF call[c].st = "found" /\ call[c].kind \in {"phone", "google"}
                   THEN signed \cup {<<IF call[c].kind = "phone" THEN call[c].phone
                                       ELSE call[c].sub, call[c].user>>}
                   ELSE signed
    /\ call' = [call EXCEPT ![c] = Idle]
    /\ UNCHANGED users

Next == \E c \in Calls :
    \/ Begin(c) \/ LookUp(c) \/ LookUpPhone(c) \/ LookUpSub(c) \/ LookUpEmail(c) \/ MakeName(c)
    \/ Create(c) \/ LookAgain(c) \/ Link(c) \/ Update(c) \/ Import(c) \/ Answer(c)

Safety == Init /\ [][Next]_vars

-----------------------------------------------------------------------------
\* Every variable has its type and no two users share a value of a unique column (user.py).
TypeOK ==
    /\ \A u \in Ids : /\ users[u].name \in Names /\ users[u].email \in Emails \cup {None}
                      /\ users[u].phone \in Phones \cup {None}
                      /\ users[u].sub \in Subs \cup {None} /\ users[u].home \in BOOLEAN
    /\ \A u, v \in Ids, f \in {"name", "email", "phone", "sub"} :
          users[u][f] = users[v][f] => u = v \/ users[u][f] = None
    /\ \A c \in Calls : /\ call[c].st \in {"idle", "lookup", "email", "name", "write", "again",
                                           "link", "found", "failed"}
                        /\ call[c].user \in 0..Len(users)
                        /\ call[c].st = "found" => call[c].user # 0 \/ call[c].kind = "import"
    /\ signed \subseteq (Phones \cup Subs) \X Ids

\* However many first logins race each other and registrations, a phone or a Google account
\* always signs in the same user (user_service.py:196-302).
SameIdentitySameUser == \A a, b \in signed : a[1] = b[1] => a[2] = b[2]

\* A login finds or creates its user, or registration is closed: losing a race against another
\* call is no error, unless both made up the same name (user_service.py:224-232, 281-289).
LoginFailsForReason ==
    \A c \in Calls : (call[c].st = "failed" /\ call[c].kind \in {"phone", "google"})
                        => ~call[c].open \/ call[c].clash

\* A login by Google leaves the account written on the user it signs in: the next one finds it
\* without the email (user_service.py:256-263, 291-302).
AccountStays ==
    \A c \in Calls : (call[c].st = "found" /\ call[c].kind = "google")
                        => call[c].user \in Having("sub", call[c].sub)
=============================================================================
