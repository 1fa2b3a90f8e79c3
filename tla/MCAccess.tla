------------------------------ MODULE MCAccess ------------------------------
(***************************************************************************)
(* Who may do what, and who sees what: sessions and their knowledge bases  *)
(* (SessionAccess), the roles of a workspace (Workspaces), accounts and    *)
(* their identities (Accounts) and the history of a session as workers and *)
(* clients read it (SessionReads).  Each decides on rows of its own, so a  *)
(* behaviour runs one of them and the variables of the others are Off.     *)
(***************************************************************************)
EXTENDS SessionAccess, FiniteSets, TLC

CONSTANTS
    Members,                \* of the workspace, apart from root
    Pair,                   \* two of them
    Root,
    Calls, Names, Email, OtherEmail, Sub, OtherSub,     \* of Accounts
    Rounds,                 \* of SessionReads
    None,
    Off                     \* the value of a variable of a component that is not running

VARIABLES wsRole, wsDeleted, tx
VARIABLES users, call, signed
VARIABLES clock, ids, created, id, stage, status, attempt, retryable, history, reader
VARIABLE running

wsVars == <<wsRole, wsDeleted, tx>>
accountVars == <<users, call, signed>>
readVars == <<clock, ids, created, id, stage, status, attempt, retryable, history, reader>>
suiteVars == <<vars, wsVars, accountVars, readVars, running>>

\* ann has created both the workspace's knowledge base and a personal one.
CONSTANT ann
Creator == [k \in Kbs |-> ann]

Symmetry == Permutations(Pair)

\* Three members and a superuser, one request at a time; and two members whose requests
\* overlap.
Alone == INSTANCE Workspaces
            WITH Users <- Members \cup {Root}, Superusers <- {Root}, NoUser <- None, MaxOpen <- 1,
                 role <- wsRole, deleted <- wsDeleted
Overlap == INSTANCE Workspaces
            WITH Users <- Pair, Superusers <- {}, NoUser <- None, MaxOpen <- 2,
                 role <- wsRole, deleted <- wsDeleted

\* The email of each Google account.
LoginMail == [s \in {Sub, OtherSub} |-> IF s = Sub THEN Email ELSE None]
ImportMail == [s \in {Sub} |-> Email]

\* First logins that race with registrations; and profile updates and imports with logins.
Logins == INSTANCE Accounts
             WITH Emails <- {Email}, Phones <- {"phone"}, Subs <- {Sub, OtherSub},
                  EmailOf <- LoginMail,
                  Kinds <- {"register", "phone", "google"}, MaxUsers <- 2
Imports == INSTANCE Accounts
             WITH Emails <- {Email, OtherEmail}, Phones <- {"phone"}, Subs <- {Sub},
                  EmailOf <- ImportMail,
                  Kinds <- {"google", "update", "import"}, MaxUsers <- 2

Reads == INSTANCE SessionReads WITH FetchLimit <- 4, PageLimit <- 1, MaxAttempts <- 2

ASSUME AccessSuiteAssumption ==
    /\ Pair \subseteq Members /\ Root \notin Members /\ "phone" \notin {Sub, OtherSub}
    /\ Alone!WorkspacesAssumption /\ Overlap!WorkspacesAssumption
    /\ Logins!AccountsAssumption /\ Imports!AccountsAssumption /\ Reads!ReadsAssumption

WorkspaceOff == wsRole = Off /\ wsDeleted = Off /\ tx = Off
AccountsOff == users = Off /\ call = Off /\ signed = Off
ReadsOff ==
    /\ clock = Off /\ ids = Off /\ created = Off /\ id = Off /\ stage = Off /\ status = Off
    /\ attempt = Off /\ retryable = Off /\ history = Off /\ reader = Off

SuiteInit ==
    /\ running \in {"access", "alone", "overlap", "logins", "imports", "reads"}
    /\ Init /\ (running # "access" => role = [u \in Users |-> "none"])
    /\ \/ running = "alone" /\ Alone!Init
       \/ running = "overlap" /\ Overlap!Init
       \/ running \notin {"alone", "overlap"} /\ WorkspaceOff
    /\ \/ running = "logins" /\ Logins!Init
       \/ running = "imports" /\ Imports!Init
       \/ running \notin {"logins", "imports"} /\ AccountsOff
    /\ IF running = "reads" THEN Reads!Init ELSE ReadsOff

SuiteNext ==
    /\ UNCHANGED running
    /\ \/ /\ running = "access" /\ Next /\ UNCHANGED <<wsVars, accountVars, readVars>>
          /\ Cardinality({f \in Users \X Kbs : f[1] \in files'[f[2]]}) <= 1
       \/ /\ \/ running = "alone" /\ Alone!Next
             \/ running = "overlap" /\ Overlap!Next
          /\ UNCHANGED <<vars, accountVars, readVars>>
       \/ /\ \/ running = "logins" /\ Logins!Next
             \/ running = "imports" /\ Imports!Next
          /\ UNCHANGED <<vars, wsVars, readVars>>
       \/ running = "reads" /\ Reads!Next /\ UNCHANGED <<vars, wsVars, accountVars>>

SuiteSpec == SuiteInit /\ [][SuiteNext]_suiteVars
-----------------------------------------------------------------------------
\* One request at a time, the workspace keeps an owner and only owners make owners; and
\* however requests overlap, each reports what it did (workspace_service.py).
RolesKept ==
    /\ [](/\ running = "alone" => Alone!TypeOK /\ Alone!AlwaysAnOwner
          /\ running = "overlap" => Overlap!TypeOK)
    /\ [][/\ running = "alone" => Alone!OwnersMakeOwnersStep
          /\ running = "overlap" => Overlap!OutcomeIsTrueStep]_suiteVars

\* An identity always signs in the same user and leaves its account on him, a login fails for
\* a reason only, and no two users share a value of a unique column (user_service.py).
IdentitiesKept ==
    /\ running = "logins" =>
          /\ Logins!TypeOK
          /\ Logins!SameIdentitySameUser /\ Logins!LoginFailsForReason /\ Logins!AccountStays
    /\ running = "imports" => Imports!TypeOK

\* A history pairs every answer with its question and forgets the failure that is retried, a
\* client who pages to the end misses nothing, and sees no message with a request that is
\* older (chat_repo.py, session_query_service.py).
HistoryWhole ==
    running = "reads" =>
        /\ Reads!TypeOK
        /\ Reads!PairsStayTogether /\ Reads!RetryForgetsFailure
        /\ Reads!NothingSkipped /\ Reads!RequestNotOlder
=============================================================================
