---------------------------- MODULE SessionAccess ----------------------------
(***************************************************************************)
(* Who may chat in a session, search its knowledge base, see and retry his *)
(* generation requests, and upload files, while the roles of a workspace   *)
(* change.  A session takes its workspace from its knowledge base; rights  *)
(* are looked up when a request is prepared, and the worker later searches *)
(* the knowledge base named in the request without looking again.          *)
(***************************************************************************)
EXTENDS Naturals

CONSTANTS
    Users,
    Superusers,    \* superuser_bypass is on
    Kbs,           \* knowledge bases
    Shared,        \* those of the workspace; the others are personal
    KbOwner,       \* who created each
    NoKb,          \* a session without a knowledge base
    Sessions,
    Requests,
    NoUser,        \* the owner of what is not there yet
    NoSession,     \* and its session
    MaxAttempts    \* bound of the model: attempts of one request

ASSUME SessionAssumption ==
    /\ Superusers \subseteq Users /\ Shared \subseteq Kbs
    /\ KbOwner \in [Kbs -> Users]
    /\ NoKb \notin Kbs /\ NoUser \notin Users /\ NoSession \notin Sessions
    /\ MaxAttempts \in Nat \ {0}

VARIABLES
    role,       \* user_workspace_roles; "member" stands for every role that may write
    deleted,    \* the workspace's deleted_at is set
    session,    \* chat_sessions
    request,    \* chat_generation_requests; payload is the kb_id of the dispatch context
    files,      \* who has uploaded to each knowledge base
    lapsed      \* history: since the attempt was prepared its user has lost the right to it

vars == <<role, deleted, session, request, files, lapsed>>

Roles == {"none", "viewer", "member"}

Init ==
    /\ role \in [Users -> Roles]
    /\ deleted = FALSE
    /\ session = [s \in Sessions |-> [owner |-> NoUser, kb |-> NoKb]]
    /\ request = [q \in Requests |-> [user |-> NoUser, session |-> NoSession,
                                      payload |-> NoKb, status |-> "none", attempt |-> 0]]
    /\ files = [k \in Kbs |-> {}]
    /\ lapsed = [q \in Requests |-> FALSE]

\* has_permission_for_user_id for a permission of writers. The role is read without its
\* workspace: one that is deleted still grants it.
MayWrite(u, roles) == u \in Superusers \/ roles[u] = "member"

\* Mutant: who created a knowledge base keeps it, whatever became of his role.
KbAllowsOwner(u, k, roles) == KbOwner[k] = u \/ (k \in Shared /\ MayWrite(u, roles))
\* A workspace's knowledge base asks for the role, also of its owner; a personal one is its
\* owner's, also before a superuser.
KbAllows(u, k, roles) == IF k \in Shared THEN MayWrite(u, roles) ELSE KbOwner[k] = u

\* _revalidate_kb_access, also a new session's check.
KbOpen(u, k, roles) == IF k = NoKb THEN TRUE ELSE KbAllows(u, k, roles)

\* ensure_session, on a session that exists.
SessionAllows(u, s) == session[s].owner = u \/ (session[s].kb \in Shared /\ MayWrite(u, role))

MayContinue(u, s) ==
    session[s].owner # NoUser /\ SessionAllows(u, s) /\ KbOpen(u, session[s].kb, role)

\* _generation_request_actor_scope: ownership, and a role in a workspace that is live, or the
\* personal session of the user.
Visible(u, q) ==
    LET s == session[request[q].session]
    IN  /\ request[q].user = u
        /\ IF s.kb \in Shared THEN ~deleted /\ role[u] # "none" ELSE s.owner = u

Submit(q, u, s, kb, attempt) ==
    /\ request' = [request EXCEPT ![q] = [user |-> u, session |-> s, payload |-> kb,
                                          status |-> "open", attempt |-> attempt]]
    /\ lapsed' = [lapsed EXCEPT ![q] = FALSE]

\* A question in a new session.
Start(u, q, s, k) ==
    /\ request[q].status = "none" /\ session[s].owner = NoUser
    /\ KbOpen(u, k, role)
    /\ session' = [session EXCEPT ![s] = [owner |-> u, kb |-> k]]
    /\ Submit(q, u, s, k, 1)
    /\ UNCHANGED <<role, deleted, files>>

\* A question in a session that exists. It may name the knowledge base, but no other.
Continue(u, q, s) ==
    /\ request[q].status = "none"
    /\ MayContinue(u, s)
    /\ Submit(q, u, s, session[s].kb, 1)
    /\ UNCHANGED <<role, deleted, session, files>>

\* prepare_retry_request: whoever sees a failed request, and may still use its session.
Retry(u, q) ==
    /\ request[q].status = "failed" /\ request[q].attempt < MaxAttempts
    /\ Visible(u, q)
    /\ MayContinue(u, request[q].session)
    /\ Submit(q, u, request[q].session, session[request[q].session].kb, request[q].attempt + 1)
    /\ UNCHANGED <<role, deleted, session, files>>

\* The worker, or recovery's second one, searches the payload's knowledge base and ends.
Generate(q) ==
    /\ request[q].status = "open"
    /\ \E end \in {"answered", "failed"} : request' = [request EXCEPT ![q].status = end]
    /\ UNCHANGED <<role, deleted, session, files, lapsed>>

\* A file of the user's in a knowledge base (upload_and_process_document).
Upload(u, k) ==
    /\ KbAllows(u, k, role) /\ u \notin files[k]
    /\ files' = [files EXCEPT ![k] = @ \cup {u}]
    /\ UNCHANGED <<role, deleted, session, request, lapsed>>

\* A member is added, changed or removed (Workspaces has who may do so).
ChangeRole(u, r) ==
    /\ role[u] # r
    /\ role' = [role EXCEPT ![u] = r]
    /\ lapsed' = [q \in Requests |-> lapsed[q] \/
                     (request[q].status = "open" /\ ~KbOpen(request[q].user, request[q].payload, role'))]
    /\ UNCHANGED <<deleted, session, request, files>>

DeleteWorkspace ==
    /\ ~deleted
    /\ deleted' = TRUE
    /\ UNCHANGED <<role, session, request, files, lapsed>>

Next ==
    \/ \E u \in Users, q \in Requests, s \in Sessions :
          Continue(u, q, s) \/ \E k \in Kbs \cup {NoKb} : Start(u, q, s, k)
    \/ \E u \in Users, q \in Requests : Retry(u, q)
    \/ \E q \in Requests : Generate(q)
    \/ \E u \in Users : (\E k \in Kbs : Upload(u, k)) \/ (\E r \in Roles : ChangeRole(u, r))
    \/ DeleteWorkspace

Safety == Init /\ [][Next]_vars
-----------------------------------------------------------------------------
\* Every variable has its type, and a request is one of a session that is there
\* (chat_service.py, chat_repo.py).
TypeOK ==
    /\ role \in [Users -> Roles] /\ deleted \in BOOLEAN
    /\ session \in [Sessions -> [owner : Users \cup {NoUser}, kb : Kbs \cup {NoKb}]]
    /\ request \in [Requests -> [user : Users \cup {NoUser}, session : Sessions \cup {NoSession},
                                 payload : Kbs \cup {NoKb}, attempt : 0..MaxAttempts,
                                 status : {"none", "open", "answered", "failed"}]]
    /\ files \in [Kbs -> SUBSET Users] /\ lapsed \in [Requests -> BOOLEAN]
    /\ \A q \in Requests :
          request[q].status # "none" => session[request[q].session].owner # NoUser

\* A knowledge base that a worker is going to search is open to the user of the attempt, or he
\* lost the right only after that attempt was prepared: neither an old session, nor a retry,
\* nor having created the knowledge base brings it back (chat_service.py:5 and :69).
SearchedWithRights ==
    \A q \in Requests : request[q].status = "open" =>
        lapsed[q] \/ request[q].payload = NoKb \/
            (IF request[q].payload \in Shared
               THEN request[q].user \in Superusers \/ role[request[q].user] = "member"
               ELSE KbOwner[request[q].payload] = request[q].user)

\* What is personal stays with its owner, superusers included: the questions of a personal
\* session and the files of a personal knowledge base are his (chat_service.py:130-131 and
\* knowledge_service.py:360-361).
PersonalStaysPersonal ==
    /\ \A q \in Requests :
          LET s == session[request[q].session]
          IN request[q].status # "none" /\ s.kb \notin Shared => request[q].user = s.owner
    /\ \A k \in Kbs \ Shared : files[k] \subseteq {KbOwner[k]}

\* Who may still ask in the session of an accepted request finds the request
\* (web_stream_workflow.py:108: "Resolve accepted identity after an ambiguous transport failure").
AcceptedIsResolvable ==
    \A q \in Requests : request[q].status # "none" /\ MayContinue(request[q].user, request[q].session)
        => Visible(request[q].user, q)
=============================================================================
