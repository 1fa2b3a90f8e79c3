--------------------------- MODULE MCAccessProofs ---------------------------
(***************************************************************************)
(* Proofs about access: SessionAccess, whatever the users, the roles they  *)
(* are given and lose, the knowledge bases and the sessions; and the       *)
(* suite's workspaces (RolesKept) and accounts (IdentitiesKept), whatever  *)
(* their members, calls and names, and messages (HistoryWhole), whatever   *)
(* questions are asked.                                                    *)
(***************************************************************************)
EXTENDS MCAccess, FiniteSetTheorems, SequenceTheorems, TLAPS

\* A request that was accepted is one of a session; one that was not has no attempt.
Accepted ==
    \A q \in Requests :
        IF request[q].status = "none" THEN request[q].attempt = 0 ELSE request[q].session \in Sessions

AccessInv == TypeOK /\ Accepted /\ SearchedWithRights /\ PersonalStaysPersonal

Session == [owner : Users \cup {NoUser}, kb : Kbs \cup {NoKb}]
RequestRow == [user : Users \cup {NoUser}, session : Sessions \cup {NoSession},
               payload : Kbs \cup {NoKb}, attempt : 0..MaxAttempts,
               status : {"none", "open", "answered", "failed"}]

\* The rights with which an attempt is searched.
RightsOf(row, roles) ==
    row.payload = NoKb \/
        (IF row.payload \in Shared THEN row.user \in Superusers \/ roles[row.user] = "member"
         ELSE KbOwner[row.payload] = row.user)

-----------------------------------------------------------------------------
LEMMA AccessInit == Init => AccessInv
<1> SUFFICES ASSUME Init PROVE AccessInv
    OBVIOUS
<1>1. session \in [Sessions -> Session]
    BY DEF Init, Session
<1>2. request \in [Requests -> RequestRow] /\ \A q \in Requests : request[q].status = "none" /\ request[q].attempt = 0
    BY SessionAssumption DEF Init, RequestRow
<1>3. files \in [Kbs -> SUBSET Users] /\ lapsed \in [Requests -> BOOLEAN] /\ deleted \in BOOLEAN
    BY DEF Init
<1>4. TypeOK
    BY <1>1, <1>2, <1>3 DEF Init, TypeOK, Session, RequestRow
<1>5. Accepted /\ SearchedWithRights
    BY <1>2 DEF Accepted, SearchedWithRights
<1>6. PersonalStaysPersonal
    BY <1>2 DEF Init, PersonalStaysPersonal
<1> QED BY <1>4, <1>5, <1>6 DEF AccessInv

LEMMA KbOpenIsRight ==
    ASSUME NEW u, NEW k, NEW row, row.user = u, row.payload = k, KbOpen(u, k, role)
    PROVE  RightsOf(row, role)
BY DEF KbOpen, KbAllows, MayWrite, RightsOf

\* A question or a retry of someone who may use its session.
LEMMA SubmitKeeps ==
    ASSUME AccessInv,
           NEW q \in Requests, NEW u \in Users, NEW s \in Sessions, NEW k \in Kbs \cup {NoKb},
           NEW a \in 1..MaxAttempts,
           Submit(q, u, s, k, a), KbOpen(u, k, role),
           session' \in [Sessions -> Session], session'[s].owner # NoUser,
           session'[s].kb \notin Shared => session'[s].owner = u,
           \A p \in Requests : request[p].status # "none" =>
                session'[request[p].session] = session[request[p].session],
           UNCHANGED <<role, deleted, files>>
    PROVE  AccessInv'
<1> DEFINE new == [user |-> u, session |-> s, payload |-> k, status |-> "open", attempt |-> a]
<1>1. request' = [request EXCEPT ![q] = new] /\ lapsed' = [lapsed EXCEPT ![q] = FALSE]
    BY DEF Submit
<1>2. new \in RequestRow
    BY SessionAssumption DEF RequestRow
<1>3. request \in [Requests -> RequestRow] /\ lapsed \in [Requests -> BOOLEAN]
    BY DEF AccessInv, TypeOK, RequestRow
<1>4. request'[q] = new /\ \A p \in Requests : p # q => request'[p] = request[p] /\ lapsed'[p] = lapsed[p]
    BY <1>1, <1>3
<1>5. TypeOK'
    <2>1. request' \in [Requests -> RequestRow] /\ lapsed' \in [Requests -> BOOLEAN]
        BY <1>1, <1>2, <1>3
    <2>2. \A p \in Requests : request'[p].status # "none" => session'[request'[p].session].owner # NoUser
        BY <1>4 DEF AccessInv, TypeOK
    <2> QED BY <2>1, <2>2 DEF AccessInv, TypeOK, Session, RequestRow
<1>6. Accepted'
    BY <1>4 DEF AccessInv, Accepted
<1>7. SearchedWithRights'
    <2>1. RightsOf(new, role)
        BY KbOpenIsRight
    <2> QED BY <1>4, <2>1 DEF AccessInv, SearchedWithRights, RightsOf
<1>8. PersonalStaysPersonal'
    BY <1>4 DEF AccessInv, PersonalStaysPersonal
<1> QED BY <1>5, <1>6, <1>7, <1>8 DEF AccessInv

LEMMA AccessStep == AccessInv /\ [Next]_vars => AccessInv'
<1> SUFFICES ASSUME AccessInv, [Next]_vars PROVE AccessInv'
    OBVIOUS
<1>1. /\ session \in [Sessions -> Session] /\ request \in [Requests -> RequestRow]
      /\ lapsed \in [Requests -> BOOLEAN] /\ role \in [Users -> Roles] /\ files \in [Kbs -> SUBSET Users]
    BY DEF AccessInv, TypeOK, Session, RequestRow
<1>2. ASSUME NEW u \in Users, NEW s \in Sessions, MayContinue(u, s)
      PROVE  /\ session[s].owner # NoUser /\ KbOpen(u, session[s].kb, role)
             /\ session[s].kb \notin Shared => session[s].owner = u
    BY <1>2 DEF MayContinue, SessionAllows
<1>3. ASSUME NEW u \in Users, NEW q \in Requests, NEW s \in Sessions, NEW k \in Kbs \cup {NoKb}, Start(u, q, s, k)
      PROVE  AccessInv'
    <2>1. [owner |-> u, kb |-> k] \in Session
        BY DEF Session
    <2>2. /\ session' \in [Sessions -> Session] /\ session'[s] = [owner |-> u, kb |-> k]
          /\ \A t \in Sessions : t # s => session'[t] = session[t]
        BY <1>1, <1>3, <2>1 DEF Start
    <2>3. \A p \in Requests : request[p].status # "none" =>
                session'[request[p].session] = session[request[p].session]
        BY <1>3, <2>2 DEF Start, AccessInv, TypeOK, Accepted
    <2>4. session'[s].owner = u /\ u # NoUser
        BY <2>2, SessionAssumption
    <2>5. 1 \in 1..MaxAttempts
        BY SessionAssumption
    <2> QED BY <1>3, <2>2, <2>3, <2>4, <2>5, SubmitKeeps DEF Start
<1>4. ASSUME NEW u \in Users, NEW q \in Requests, NEW s \in Sessions, Continue(u, q, s)
      PROVE  AccessInv'
    <2>1. session[s].kb \in Kbs \cup {NoKb}
        BY <1>1 DEF Session
    <2>2. 1 \in 1..MaxAttempts
        BY SessionAssumption
    <2> QED BY <1>1, <1>2, <1>4, <2>1, <2>2, SubmitKeeps DEF Continue
<1>5. ASSUME NEW u \in Users, NEW q \in Requests, Retry(u, q)
      PROVE  AccessInv'
    <2> DEFINE s == request[q].session
               a == request[q].attempt + 1
    <2>1. s \in Sessions
        BY <1>5 DEF Retry, AccessInv, Accepted
    <2>2. session[s].kb \in Kbs \cup {NoKb}
        BY <1>1, <2>1 DEF Session
    <2>3. a \in 1..MaxAttempts
        BY <1>1, <1>5, SessionAssumption DEF Retry, RequestRow
    <2>4. Submit(q, u, s, session[s].kb, a) /\ MayContinue(u, s) /\ UNCHANGED <<role, deleted, session, files>>
        BY <1>5 DEF Retry
    <2> QED BY <1>1, <1>2, <2>1, <2>2, <2>3, <2>4, SubmitKeeps
<1>6. ASSUME NEW q \in Requests, Generate(q) PROVE AccessInv'
    <2>1. PICK end \in {"answered", "failed"} : request' = [request EXCEPT ![q].status = end]
        BY <1>6 DEF Generate
    <2>2. request[q].status = "open" /\ UNCHANGED <<role, deleted, session, files, lapsed>>
        BY <1>6 DEF Generate
    <2> DEFINE new == [request[q] EXCEPT !.status = end]
    <2>3. request[q] \in RequestRow
        BY <1>1
    <2>4. /\ new \in RequestRow /\ new.status = end /\ new.user = request[q].user
          /\ new.session = request[q].session /\ new.attempt = request[q].attempt
        BY <2>3 DEF RequestRow
    <2>5. /\ request' \in [Requests -> RequestRow] /\ request'[q] = new
          /\ \A p \in Requests : p # q => request'[p] = request[p]
        BY <1>1, <2>1, <2>4
    <2>6. \A p \in Requests :
            /\ request'[p].session = request[p].session /\ request'[p].user = request[p].user
            /\ request'[p].attempt = request[p].attempt
            /\ request'[p].status # "none" <=> request[p].status # "none"
        BY <2>2, <2>4, <2>5
    <2>7. TypeOK'
        <3>1. \A p \in Requests : request'[p].status # "none" => session'[request'[p].session].owner # NoUser
            BY <2>2, <2>6 DEF AccessInv, TypeOK
        <3> QED BY <2>2, <2>5, <3>1 DEF AccessInv, TypeOK, RequestRow
    <2>8. Accepted' /\ PersonalStaysPersonal'
        BY <2>2, <2>6 DEF AccessInv, Accepted, PersonalStaysPersonal
    <2>9. SearchedWithRights'
        BY <2>2, <2>4, <2>5 DEF AccessInv, SearchedWithRights
    <2> QED BY <2>7, <2>8, <2>9 DEF AccessInv
<1>7. ASSUME NEW u \in Users, NEW k \in Kbs, Upload(u, k) PROVE AccessInv'
    <2>1. files' = [files EXCEPT ![k] = files[k] \cup {u}] /\ UNCHANGED <<role, deleted, session, request, lapsed>>
        BY <1>7 DEF Upload
    <2>2. k \notin Shared => KbOwner[k] = u
        BY <1>7 DEF Upload, KbAllows
    <2>3. files' \in [Kbs -> SUBSET Users]
        BY <1>1, <2>1
    <2>4. \A j \in Kbs \ Shared : files'[j] \subseteq {KbOwner[j]}
        BY <1>1, <2>1, <2>2 DEF AccessInv, PersonalStaysPersonal
    <2> QED BY <2>1, <2>3, <2>4 DEF AccessInv, TypeOK, Accepted, SearchedWithRights, PersonalStaysPersonal
<1>8. ASSUME NEW u \in Users, NEW r \in Roles, ChangeRole(u, r) PROVE AccessInv'
    <2>1. /\ role' \in [Users -> Roles] /\ lapsed' \in [Requests -> BOOLEAN]
          /\ UNCHANGED <<deleted, session, request, files>>
        BY <1>1, <1>8 DEF ChangeRole
    <2>2. SearchedWithRights'
        <3> SUFFICES ASSUME NEW q \in Requests, request[q].status = "open", ~lapsed'[q]
                     PROVE  RightsOf(request[q], role')
            BY <2>1 DEF SearchedWithRights, RightsOf
        <3>1. KbOpen(request[q].user, request[q].payload, role')
            BY <1>8 DEF ChangeRole
        <3> QED BY <3>1 DEF KbOpen, KbAllows, MayWrite, RightsOf
    <2>3. TypeOK'
        BY <2>1 DEF AccessInv, TypeOK
    <2>4. Accepted' /\ PersonalStaysPersonal'
        BY <2>1 DEF AccessInv, Accepted, PersonalStaysPersonal
    <2> QED BY <2>2, <2>3, <2>4 DEF AccessInv
<1>9. CASE DeleteWorkspace \/ UNCHANGED vars
    <2>1. UNCHANGED <<role, session, request, files, lapsed>>
        BY <1>9 DEF DeleteWorkspace, vars
    <2>2. deleted' \in BOOLEAN
        BY <1>9, Zenon DEF DeleteWorkspace, vars, AccessInv, TypeOK
    <2> QED BY <2>1, <2>2 DEF AccessInv, TypeOK, Accepted, SearchedWithRights, PersonalStaysPersonal
<1> QED BY <1>3, <1>4, <1>5, <1>6, <1>7, <1>8, <1>9 DEF Next

LEMMA AccessInvariant == Safety => []AccessInv
BY AccessInit, AccessStep, PTL DEF Safety

-----------------------------------------------------------------------------
\* Types, and requests belong to sessions.
THEOREM AccessTypes == Safety => []TypeOK
<1>1. AccessInv => TypeOK
    BY DEF AccessInv
<1> QED BY <1>1, AccessInvariant, PTL

\* A knowledge base is searched for who may use it, or could when the attempt was prepared.
THEOREM AccessSearchedWithRights == Safety => []SearchedWithRights
<1>1. AccessInv => SearchedWithRights
    BY DEF AccessInv
<1> QED BY <1>1, AccessInvariant, PTL

\* Personal sessions and knowledge bases are their owner's, superusers included.
THEOREM AccessPersonal == Safety => []PersonalStaysPersonal
<1>1. AccessInv => PersonalStaysPersonal
    BY DEF AccessInv
<1> QED BY <1>1, AccessInvariant, PTL

-----------------------------------------------------------------------------

(***************************************************************************)
(* Workspaces: what a request remembers, and what it may write.  The suite *)
(* has it twice, with and without a superuser; U are its users.            *)
(***************************************************************************)
WsRoles == {"owner", "admin", "member", "viewer", "none"}
WsRequest(U) == [st : {"idle", "permission", "target", "rule", "count", "write", "audit"},
                 op : {"add", "change", "remove", "delete", "edit"}, target : U \cup {None}, next : WsRoles,
                 seen : WsRoles, row : BOOLEAN, outcome : {"success", "denied", "failed"}]

\* A change or an addition names a member and a role, a removal a member.
Named(r) == /\ r.target # None <=> r.op \in {"add", "change", "remove"}
            /\ r.next # "none" <=> r.op \in {"add", "change"}
            /\ r.st \in {"target", "rule"} => r.op \in {"add", "change", "remove"}
            /\ r.st = "count" => r.op \in {"change", "remove"}

\* A row that was read and is there is that of somebody with a role.
RowIsThere(r, roles) == r.row => r.target # None /\ roles[r.target] # "none"

WsTypes(U) ==
    /\ wsRole \in [U -> WsRoles] /\ wsDeleted \in BOOLEAN /\ tx \in [U -> WsRequest(U)]
    /\ \A a \in U : RowIsThere(tx[a], wsRole) /\ (tx[a].st # "idle" => Named(tx[a]))

\* A request begins, ends, or goes on with what it has read.
WsGoesOn(U, a) ==
    /\ UNCHANGED <<wsRole, wsDeleted>>
    /\ \E r \in WsRequest(U) : /\ tx' = [tx EXCEPT ![a] = r] /\ RowIsThere(r, wsRole) /\ (r.st # "idle" => Named(r))
                               /\ tx[a].st = "write" => r.outcome # "success" \/ tx[a].op = "edit"
Done(f, a) == [f EXCEPT ![a].st = "audit", ![a].outcome = "success"]
\* A request writes.
WsWrites(U, a) ==
    /\ tx[a].st = "write"
    /\ \/ /\ tx[a].op = "add" /\ wsRole[tx[a].target] = "none" /\ UNCHANGED wsDeleted
          /\ wsRole' = [wsRole EXCEPT ![tx[a].target] = tx[a].next] /\ tx' = Done(tx, a)
       \/ /\ tx[a].op = "change" /\ tx[a].row /\ UNCHANGED wsDeleted /\ tx' = Done(tx, a)
          /\ wsRole' = [wsRole EXCEPT ![tx[a].target] = IF tx[a].next = tx[a].seen THEN @ ELSE tx[a].next]
       \/ /\ tx[a].op = "remove" /\ UNCHANGED wsDeleted
          /\ \/ tx[a].row /\ wsRole' = [wsRole EXCEPT ![tx[a].target] = "none"]
                          /\ tx' = Done([b \in U |-> [tx[b] EXCEPT !.row = @ /\ tx[b].target # tx[a].target]], a)
             \/ ~tx[a].row /\ UNCHANGED wsRole /\ tx' = Done(tx, a)
       \/ tx[a].op = "delete" /\ wsDeleted' = TRUE /\ UNCHANGED wsRole /\ tx' = Done(tx, a)

WsOutcomeIsTrue(a) ==
    tx[a].st = "write" /\ tx'[a].st = "audit" =>
        IF tx'[a].outcome = "success"
        THEN /\ tx[a].op = "add" => wsRole[tx[a].target] = "none"
             /\ tx[a].op = "change" => wsRole[tx[a].target] # "none"
        ELSE UNCHANGED <<wsRole, wsDeleted>>

\* Both kinds of step keep the types, and what is reported is what was done.
LEMMA WsStepKeeps ==
    ASSUME NEW U, None \notin U, WsTypes(U), NEW a \in U, WsGoesOn(U, a) \/ WsWrites(U, a)
    PROVE  WsTypes(U)' /\ \A b \in U : WsOutcomeIsTrue(b)
<1> USE DEF WsTypes
<1>1. CASE WsGoesOn(U, a)
    <2>1. PICK r \in WsRequest(U) : /\ tx' = [tx EXCEPT ![a] = r] /\ RowIsThere(r, wsRole) /\ (r.st # "idle" => Named(r))
                                    /\ tx[a].st = "write" => r.outcome # "success" \/ tx[a].op = "edit"
        BY <1>1 DEF WsGoesOn
    <2>2. tx'[a] = r /\ \A b \in U : b # a => tx'[b] = tx[b]
        BY <2>1
    <2>3. WsTypes(U)'
        BY <1>1, <2>1, <2>2 DEF WsGoesOn
    <2>4. \A b \in U : WsOutcomeIsTrue(b)
        BY <1>1, <2>1, <2>2 DEF WsGoesOn, WsOutcomeIsTrue
    <2> QED BY <2>3, <2>4
<1>2. CASE WsWrites(U, a)
    <2> DEFINE after == [tx[a] EXCEPT !.st = "audit", !.outcome = "success"]
    <2>1. tx[a] \in WsRequest(U) /\ Named(tx[a]) /\ RowIsThere(tx[a], wsRole)
        BY <1>2 DEF WsWrites
    <2>2. /\ after \in WsRequest(U) /\ after.row = tx[a].row /\ after.target = tx[a].target /\ after.op = tx[a].op
          /\ after.next = tx[a].next /\ after.st = "audit" /\ after.outcome = "success"
        BY <2>1 DEF WsRequest
    <2>3. Done(tx, a) = [tx EXCEPT ![a] = after]
        BY DEF Done
    <2> HIDE DEF after
    <2>4. CASE ~(tx[a].op = "remove" /\ tx[a].row)
        <3>1. tx' = [tx EXCEPT ![a] = after]
            BY <1>2, <2>3, <2>4 DEF WsWrites
        <3>2. tx'[a] = after /\ \A b \in U : b # a => tx'[b] = tx[b]
            BY <3>1
        <3>3. wsRole' \in [U -> WsRoles] /\ wsDeleted' \in BOOLEAN /\ \A u \in U : wsRole[u] # "none" => wsRole'[u] # "none"
            <4>1. tx[a].next \in WsRoles /\ (tx[a].op \in {"add", "change"} => tx[a].next # "none")
                BY <2>1 DEF WsRequest, Named
            <4>2. CASE tx[a].op = "add"
                BY <1>2, <4>1, <4>2 DEF WsWrites
            <4>3. CASE tx[a].op = "change"
                BY <1>2, <4>1, <4>3 DEF WsWrites
            <4>4. CASE tx[a].op \notin {"add", "change"}
                BY <1>2, <2>4, <4>4 DEF WsWrites
            <4> QED BY <4>2, <4>3, <4>4
        <3>4. WsTypes(U)'
            <4>1. tx' \in [U -> WsRequest(U)]
                BY <2>2, <3>1
            <4>2. ASSUME NEW b \in U PROVE RowIsThere(tx[b], wsRole)' /\ (tx'[b].st # "idle" => Named(tx'[b]))
                <5>1. RowIsThere(tx[b], wsRole) /\ (tx[b].st # "idle" => Named(tx[b])) /\ tx[b].target \in U \cup {None}
                    BY DEF WsRequest
                <5>2. CASE b = a
                    BY <2>1, <2>2, <3>2, <3>3, <5>1, <5>2 DEF RowIsThere, Named
                <5>3. CASE b # a
                    BY <3>2, <3>3, <5>1, <5>3 DEF RowIsThere, Named
                <5> QED BY <5>2, <5>3
            <4> QED BY <3>3, <4>1, <4>2
        <3>5. \A b \in U : WsOutcomeIsTrue(b)
            BY <1>2, <2>1, <2>2, <3>2 DEF WsOutcomeIsTrue, WsWrites, RowIsThere
        <3> QED BY <3>4, <3>5
    <2>5. CASE tx[a].op = "remove" /\ tx[a].row
        <3> DEFINE gone == [b \in U |-> [tx[b] EXCEPT !.row = @ /\ tx[b].target # tx[a].target]]
        <3>1. tx' = Done(gone, a) /\ wsRole' = [wsRole EXCEPT ![tx[a].target] = "none"] /\ UNCHANGED wsDeleted
            BY <1>2, <2>5 DEF WsWrites
        <3>2. ASSUME NEW b \in U
              PROVE  /\ gone[b] \in WsRequest(U) /\ gone[b].st = tx[b].st /\ gone[b].op = tx[b].op /\ gone[b].next = tx[b].next
                     /\ gone[b].target = tx[b].target /\ gone[b].row = (tx[b].row /\ tx[b].target # tx[a].target)
            <4>1. tx[b] \in WsRequest(U)
                OBVIOUS
            <4> QED BY <4>1 DEF WsRequest
        <3> DEFINE last == [gone[a] EXCEPT !.st = "audit", !.outcome = "success"]
        <3>3. /\ last \in WsRequest(U) /\ last.row = gone[a].row /\ last.target = tx[a].target /\ last.op = tx[a].op
              /\ last.next = tx[a].next /\ last.st = "audit" /\ last.outcome = "success"
            BY ZenonT(60), <3>2 DEF WsRequest
        <3>4. Done(gone, a) = [gone EXCEPT ![a] = last] /\ gone = [b \in U |-> gone[b]]
            BY DEF Done
        <3> HIDE DEF gone, last
        <3>5. tx'[a] = last /\ (\A b \in U : b # a => tx'[b] = gone[b]) /\ tx' \in [U -> WsRequest(U)]
            BY <3>1, <3>2, <3>3, <3>4
        <3>6. tx[a].target \in U
            BY <2>1, <2>5 DEF Named, WsRequest
        <3>7. ASSUME NEW b \in U PROVE RowIsThere(tx[b], wsRole)' /\ (tx'[b].st # "idle" => Named(tx'[b]))
            <4>1. RowIsThere(tx[b], wsRole) /\ (tx[b].st # "idle" => Named(tx[b])) /\ tx[b].target \in U \cup {None}
                BY DEF WsRequest
            <4>2. tx'[b].row = (tx[b].row /\ tx[b].target # tx[a].target) /\ tx'[b].target = tx[b].target
                  /\ tx'[b].op = tx[b].op /\ tx'[b].next = tx[b].next /\ tx'[b].st = IF b = a THEN "audit" ELSE tx[b].st
                BY <3>2, <3>3, <3>5
            <4>3. RowIsThere(tx[b], wsRole)'
                BY <3>1, <3>6, <4>1, <4>2 DEF RowIsThere
            <4>4. tx'[b].st # "idle" => Named(tx'[b])
                BY <2>1, <4>1, <4>2 DEF Named
            <4> QED BY <4>3, <4>4
        <3>8. wsRole' \in [U -> WsRoles]
            BY <3>1 DEF WsRoles
        <3>9. \A b \in U : WsOutcomeIsTrue(b)
            BY <1>2, <2>5, <3>2, <3>3, <3>5 DEF WsOutcomeIsTrue, WsWrites
        <3> QED BY <3>1, <3>5, <3>7, <3>8, <3>9
    <2> QED BY <2>4, <2>5
<1> QED BY <1>1, <1>2

\* Every step of either instance is one of the two kinds.
LEMMA AloneSteps ==
    ASSUME WsTypes((Members \cup {Root})), None \notin (Members \cup {Root}), NEW a \in (Members \cup {Root}),
           \/ Alone!Begin(a) \/ Alone!CheckPermission(a) \/ Alone!ReadTarget(a) \/ Alone!OwnerRule(a)
           \/ Alone!CountOwners(a) \/ Alone!Write(a) \/ Alone!Audit(a)
    PROVE  WsGoesOn((Members \cup {Root}), a) \/ WsWrites((Members \cup {Root}), a)
<1> USE DEF WsTypes, Alone!Become, Alone!End
<1>0. tx[a] \in WsRequest((Members \cup {Root})) /\ RowIsThere(tx[a], wsRole) /\ (tx[a].st # "idle" => Named(tx[a]))
    OBVIOUS
<1>1. CASE Alone!Begin(a)
    <2>1. PICK op \in Alone!Ops, t \in (Members \cup {Root}) \cup {None}, r \in Alone!Roles \cup {Alone!NoRole} :
             /\ (t # None) <=> (op \in {"add", "change", "remove"})
             /\ (r # Alone!NoRole) <=> (op \in {"add", "change"})
             /\ tx' = [tx EXCEPT ![a] = [Alone!Idle EXCEPT !.st = "permission", !.op = op, !.target = t, !.next = r]]
        BY <1>1 DEF Alone!Begin
    <2> DEFINE q == [Alone!Idle EXCEPT !.st = "permission", !.op = op, !.target = t, !.next = r]
    <2>2. q \in WsRequest((Members \cup {Root})) /\ RowIsThere(q, wsRole) /\ Named(q)
        BY <2>1 DEF Alone!Idle, Alone!Ops, Alone!Roles, Alone!NoRole, WsRequest, WsRoles, RowIsThere, Named
    <2> QED BY <1>1, <2>1, <2>2 DEF Alone!Begin, WsGoesOn
<1>2. CASE Alone!Audit(a)
    <2>1. Alone!Idle \in WsRequest((Members \cup {Root})) /\ RowIsThere(Alone!Idle, wsRole) /\ Alone!Idle.st = "idle"
        BY DEF Alone!Idle, Alone!NoRole, WsRequest, WsRoles, RowIsThere
    <2> QED BY <1>2, <2>1 DEF Alone!Audit, WsGoesOn
\* A request that only gets further, or ends without a write.
<1>3. ASSUME NEW st \in {"target", "rule", "count", "write"}, tx' = [tx EXCEPT ![a].st = st], tx[a].st # "write",
             tx[a].st # "idle", st # "write" => tx[a].op \in {"change", "remove"} \/ (st # "count" /\ tx[a].op = "add"),
             UNCHANGED <<wsRole, wsDeleted>>
      PROVE  WsGoesOn((Members \cup {Root}), a)
    <2> DEFINE q == [tx[a] EXCEPT !.st = st]
    <2>1. q \in WsRequest((Members \cup {Root})) /\ RowIsThere(q, wsRole) /\ Named(q)
        BY <1>0, <1>3 DEF WsRequest, RowIsThere, Named
    <2> QED BY <1>3, <2>1 DEF WsGoesOn
<1>4. ASSUME NEW outcome \in {"success", "denied", "failed"}, tx[a].st = "write" => outcome # "success" \/ tx[a].op = "edit",
             tx' = [tx EXCEPT ![a].st = "audit", ![a].outcome = outcome], tx[a].st # "idle",
             UNCHANGED <<wsRole, wsDeleted>>
      PROVE  WsGoesOn((Members \cup {Root}), a)
    <2> DEFINE q == [tx[a] EXCEPT !.st = "audit", !.outcome = outcome]
    <2>1. q \in WsRequest((Members \cup {Root})) /\ RowIsThere(q, wsRole) /\ Named(q) /\ q.outcome = outcome
        BY ZenonT(60), <1>0, <1>4 DEF WsRequest, RowIsThere, Named
    <2> QED BY <1>4, <2>1 DEF WsGoesOn
<1>5. CASE Alone!CheckPermission(a) \/ Alone!OwnerRule(a) \/ Alone!CountOwners(a)
    <2>1. tx[a].op \in {"add", "change", "remove", "delete", "edit"}
             /\ (tx[a].st \in {"rule", "count"} => tx[a].op \in {"add", "change", "remove"})
        BY <1>0 DEF WsRequest, Named
    <2>2. CASE Alone!CheckPermission(a)
        BY <1>3, <1>4, <2>1, <2>2 DEF Alone!CheckPermission
    <2>3. CASE Alone!OwnerRule(a)
        BY <1>3, <1>4, <2>1, <2>3 DEF Alone!OwnerRule
    <2>4. CASE Alone!CountOwners(a)
        BY <1>3, <1>4, <2>1, <2>4 DEF Alone!CountOwners
    <2> QED BY <1>5, <2>2, <2>3, <2>4
<1>6. CASE Alone!ReadTarget(a)
    <2>1. CASE (wsRole[tx[a].target] = Alone!NoRole) <=> (tx[a].op = "add")
        <3> DEFINE q == [tx[a] EXCEPT !.seen = wsRole[tx[a].target], !.row = (wsRole[tx[a].target] # Alone!NoRole),
                                      !.st = IF tx[a].op = "add" THEN "write" ELSE "rule"]
        <3>0. tx' = [tx EXCEPT ![a] = q] /\ UNCHANGED <<wsRole, wsDeleted>> /\ tx[a].st = "target"
            BY <1>6, <2>1 DEF Alone!ReadTarget
        <3>1. wsRole[tx[a].target] \in WsRoles /\ tx[a].target # None /\ tx[a].op \in {"add", "change", "remove"}
            <4>1. Named(tx[a]) /\ tx[a].target \in (Members \cup {Root}) \cup {None}
                BY <1>0, <3>0 DEF WsRequest
            <4>2. tx[a].target \in (Members \cup {Root}) /\ tx[a].target # None /\ tx[a].op \in {"add", "change", "remove"}
                BY <3>0, <4>1 DEF Named
            <4> QED BY <4>2
        <3>2. q \in WsRequest((Members \cup {Root})) /\ RowIsThere(q, wsRole) /\ Named(q)
            <4>1. q \in WsRequest((Members \cup {Root}))
                BY <1>0, <3>1 DEF WsRequest, Alone!NoRole
            <4>2. /\ q.st \in {"write", "rule"} /\ q.op = tx[a].op /\ q.target = tx[a].target /\ q.next = tx[a].next
                  /\ q.row = (wsRole[tx[a].target] # "none")
                BY <1>0, <3>1 DEF WsRequest, Alone!NoRole
            <4>3. RowIsThere(q, wsRole)
                BY <3>1, <4>2 DEF RowIsThere
            <4>4. Named(q)
                BY <1>0, <3>0, <3>1, <4>2 DEF Named
            <4> QED BY <4>1, <4>3, <4>4
        <3> QED BY <3>0, <3>2 DEF WsGoesOn
    <2>2. CASE ~((wsRole[tx[a].target] = Alone!NoRole) <=> (tx[a].op = "add"))
        BY <1>4, <1>6, <2>2 DEF Alone!ReadTarget
    <2> QED BY <2>1, <2>2
<1>7. CASE Alone!Write(a)
    <2> USE DEF Alone!Write, Alone!NoRole
    <2>1. CASE tx[a].op = "add"
        <3>1. CASE wsRole[tx[a].target] = "none"
            BY <1>7, <2>1, <3>1 DEF WsWrites, Done
        <3>2. CASE wsRole[tx[a].target] # "none"
            BY <1>4, <1>7, <2>1, <3>2
        <3> QED BY <3>1, <3>2
    <2>2. CASE tx[a].op = "change"
        <3>1. CASE tx[a].row
            BY <1>7, <2>2, <3>1 DEF WsWrites, Done
        <3>2. CASE ~tx[a].row
            BY <1>4, <1>7, <2>2, <3>2
        <3> QED BY <3>1, <3>2
    <2>3. CASE tx[a].op = "remove"
        <3>1. CASE tx[a].row
            BY <1>7, <2>3, <3>1 DEF WsWrites, Done, Alone!Gone
        <3>2. CASE ~tx[a].row
            <4>1. [wsRole EXCEPT ![tx[a].target] = @] = wsRole
                OBVIOUS
            <4> QED BY <1>7, <2>3, <3>2, <4>1 DEF WsWrites, Done
        <3> QED BY <3>1, <3>2
    <2>4. CASE tx[a].op = "delete"
        BY <1>7, <2>4 DEF WsWrites, Done
    <2>5. CASE tx[a].op = "edit"
        BY <1>4, <1>7, <2>5
    <2> QED BY <1>7, <2>1, <2>2, <2>3, <2>4, <2>5
<1> QED BY <1>1, <1>2, <1>5, <1>6, <1>7

LEMMA OverlapSteps ==
    ASSUME WsTypes(Pair), None \notin Pair, NEW a \in Pair,
           \/ Overlap!Begin(a) \/ Overlap!CheckPermission(a) \/ Overlap!ReadTarget(a) \/ Overlap!OwnerRule(a)
           \/ Overlap!CountOwners(a) \/ Overlap!Write(a) \/ Overlap!Audit(a)
    PROVE  WsGoesOn(Pair, a) \/ WsWrites(Pair, a)
<1> USE DEF WsTypes, Overlap!Become, Overlap!End
<1>0. tx[a] \in WsRequest(Pair) /\ RowIsThere(tx[a], wsRole) /\ (tx[a].st # "idle" => Named(tx[a]))
    OBVIOUS
<1>1. CASE Overlap!Begin(a)
    <2>1. PICK op \in Overlap!Ops, t \in Pair \cup {None}, r \in Overlap!Roles \cup {Overlap!NoRole} :
             /\ (t # None) <=> (op \in {"add", "change", "remove"})
             /\ (r # Overlap!NoRole) <=> (op \in {"add", "change"})
             /\ tx' = [tx EXCEPT ![a] = [Overlap!Idle EXCEPT !.st = "permission", !.op = op, !.target = t, !.next = r]]
        BY <1>1 DEF Overlap!Begin
    <2> DEFINE q == [Overlap!Idle EXCEPT !.st = "permission", !.op = op, !.target = t, !.next = r]
    <2>2. q \in WsRequest(Pair) /\ RowIsThere(q, wsRole) /\ Named(q)
        BY <2>1 DEF Overlap!Idle, Overlap!Ops, Overlap!Roles, Overlap!NoRole, WsRequest, WsRoles, RowIsThere, Named
    <2> QED BY <1>1, <2>1, <2>2 DEF Overlap!Begin, WsGoesOn
<1>2. CASE Overlap!Audit(a)
    <2>1. Overlap!Idle \in WsRequest(Pair) /\ RowIsThere(Overlap!Idle, wsRole) /\ Overlap!Idle.st = "idle"
        BY DEF Overlap!Idle, Overlap!NoRole, WsRequest, WsRoles, RowIsThere
    <2> QED BY <1>2, <2>1 DEF Overlap!Audit, WsGoesOn
\* A request that only gets further, or ends without a write.
<1>3. ASSUME NEW st \in {"target", "rule", "count", "write"}, tx' = [tx EXCEPT ![a].st = st], tx[a].st # "write",
             tx[a].st # "idle", st # "write" => tx[a].op \in {"change", "remove"} \/ (st # "count" /\ tx[a].op = "add"),
             UNCHANGED <<wsRole, wsDeleted>>
      PROVE  WsGoesOn(Pair, a)
    <2> DEFINE q == [tx[a] EXCEPT !.st = st]
    <2>1. q \in WsRequest(Pair) /\ RowIsThere(q, wsRole) /\ Named(q)
        BY <1>0, <1>3 DEF WsRequest, RowIsThere, Named
    <2> QED BY <1>3, <2>1 DEF WsGoesOn
<1>4. ASSUME NEW outcome \in {"success", "denied", "failed"}, tx[a].st = "write" => outcome # "success" \/ tx[a].op = "edit",
             tx' = [tx EXCEPT ![a].st = "audit", ![a].outcome = outcome], tx[a].st # "idle",
             UNCHANGED <<wsRole, wsDeleted>>
      PROVE  WsGoesOn(Pair, a)
    <2> DEFINE q == [tx[a] EXCEPT !.st = "audit", !.outcome = outcome]
    <2>1. q \in WsRequest(Pair) /\ RowIsThere(q, wsRole) /\ Named(q) /\ q.outcome = outcome
        BY <1>0, <1>4 DEF WsRequest, RowIsThere, Named
    <2> QED BY <1>4, <2>1 DEF WsGoesOn
<1>5. CASE Overlap!CheckPermission(a) \/ Overlap!OwnerRule(a) \/ Overlap!CountOwners(a)
    <2>1. tx[a].op \in {"add", "change", "remove", "delete", "edit"}
             /\ (tx[a].st \in {"rule", "count"} => tx[a].op \in {"add", "change", "remove"})
        BY <1>0 DEF WsRequest, Named
    <2>2. CASE Overlap!CheckPermission(a)
        BY <1>3, <1>4, <2>1, <2>2 DEF Overlap!CheckPermission
    <2>3. CASE Overlap!OwnerRule(a)
        BY <1>3, <1>4, <2>1, <2>3 DEF Overlap!OwnerRule
    <2>4. CASE Overlap!CountOwners(a)
        BY <1>3, <1>4, <2>1, <2>4 DEF Overlap!CountOwners
    <2> QED BY <1>5, <2>2, <2>3, <2>4
<1>6. CASE Overlap!ReadTarget(a)
    <2>1. CASE (wsRole[tx[a].target] = Overlap!NoRole) <=> (tx[a].op = "add")
        <3> DEFINE q == [tx[a] EXCEPT !.seen = wsRole[tx[a].target], !.row = (wsRole[tx[a].target] # Overlap!NoRole),
                                      !.st = IF tx[a].op = "add" THEN "write" ELSE "rule"]
        <3>0. tx' = [tx EXCEPT ![a] = q] /\ UNCHANGED <<wsRole, wsDeleted>> /\ tx[a].st = "target"
            BY <1>6, <2>1 DEF Overlap!ReadTarget
        <3>1. wsRole[tx[a].target] \in WsRoles /\ tx[a].target # None /\ tx[a].op \in {"add", "change", "remove"}
            <4>1. Named(tx[a]) /\ tx[a].target \in Pair \cup {None}
                BY <1>0, <3>0 DEF WsRequest
            <4>2. tx[a].target \in Pair /\ tx[a].target # None /\ tx[a].op \in {"add", "change", "remove"}
                BY <3>0, <4>1 DEF Named
            <4> QED BY <4>2
        <3>2. q \in WsRequest(Pair) /\ RowIsThere(q, wsRole) /\ Named(q)
            <4>1. q \in WsRequest(Pair)
                BY <1>0, <3>1 DEF WsRequest, Overlap!NoRole
            <4>2. /\ q.st \in {"write", "rule"} /\ q.op = tx[a].op /\ q.target = tx[a].target /\ q.next = tx[a].next
                  /\ q.row = (wsRole[tx[a].target] # "none")
                BY <1>0, <3>1 DEF WsRequest, Overlap!NoRole
            <4>3. RowIsThere(q, wsRole)
                BY <3>1, <4>2 DEF RowIsThere
            <4>4. Named(q)
                BY <1>0, <3>0, <3>1, <4>2 DEF Named
            <4> QED BY <4>1, <4>3, <4>4
        <3> QED BY <3>0, <3>2 DEF WsGoesOn
    <2>2. CASE ~((wsRole[tx[a].target] = Overlap!NoRole) <=> (tx[a].op = "add"))
        BY <1>4, <1>6, <2>2 DEF Overlap!ReadTarget
    <2> QED BY <2>1, <2>2
<1>7. CASE Overlap!Write(a)
    <2> USE DEF Overlap!Write, Overlap!NoRole
    <2>1. CASE tx[a].op = "add"
        <3>1. CASE wsRole[tx[a].target] = "none"
            BY <1>7, <2>1, <3>1 DEF WsWrites, Done
        <3>2. CASE wsRole[tx[a].target] # "none"
            BY <1>4, <1>7, <2>1, <3>2
        <3> QED BY <3>1, <3>2
    <2>2. CASE tx[a].op = "change"
        <3>1. CASE tx[a].row
            BY <1>7, <2>2, <3>1 DEF WsWrites, Done
        <3>2. CASE ~tx[a].row
            BY <1>4, <1>7, <2>2, <3>2
        <3> QED BY <3>1, <3>2
    <2>3. CASE tx[a].op = "remove"
        <3>1. CASE tx[a].row
            BY <1>7, <2>3, <3>1 DEF WsWrites, Done, Overlap!Gone
        <3>2. CASE ~tx[a].row
            <4>1. [wsRole EXCEPT ![tx[a].target] = @] = wsRole
                OBVIOUS
            <4> QED BY <1>7, <2>3, <3>2, <4>1 DEF WsWrites, Done
        <3> QED BY <3>1, <3>2
    <2>4. CASE tx[a].op = "delete"
        BY <1>7, <2>4 DEF WsWrites, Done
    <2>5. CASE tx[a].op = "edit"
        BY <1>4, <1>7, <2>5
    <2> QED BY <1>7, <2>1, <2>2, <2>3, <2>4, <2>5
<1> QED BY <1>1, <1>2, <1>5, <1>6, <1>7

\* What a request that is alone remembers is so: the role it has read, that the owners' rule allows it, and that
\* an owner is left.
Holds(r, a, roles) ==
    /\ r.op \in {"change", "remove"} /\ r.st \in {"rule", "count", "write"} => r.row /\ r.seen = roles[r.target]
    /\ r.op = "add" /\ r.st \in {"permission", "rule", "target", "write"} => r.seen = "none"
    /\ (\/ r.op = "add" /\ r.st \in {"target", "write"}
        \/ r.op \in {"change", "remove"} /\ r.st \in {"count", "write"})
       /\ (r.seen = "owner" \/ r.next = "owner") => a = Root \/ roles[a] = "owner"
    /\ r.op \in {"change", "remove"} /\ r.st = "write" /\ r.seen = "owner" /\ r.next # "owner" =>
          \E u \in DOMAIN roles : roles[u] = "owner" /\ u # r.target
Remembers(a) == Holds(tx[a], a, wsRole)

AloneInv ==
    /\ WsTypes(Members \cup {Root}) /\ Alone!Owners # {}
    /\ \A a \in Members \cup {Root} : Remembers(a)
    /\ \A a, b \in Members \cup {Root} : tx[a].st # "idle" /\ tx[b].st # "idle" => a = b

\* One request at a time; and where there are two owners, one is not the given one.
LEMMA OneOpen == ASSUME AloneInv, NEW a \in Alone!Open, Alone!Cardinality(Alone!Open) < 1 PROVE FALSE
<1>1. Alone!Open = {a}
    BY DEF AloneInv, Alone!Open
<1>2. Alone!Cardinality(Alone!Open) = Cardinality({a})
    BY <1>1 DEF Alone!Cardinality, Cardinality
<1> QED BY <1>2, FS_Singleton

LEMMA AnotherOwner ==
    ASSUME NEW u \in Alone!Owners, ~(Alone!Cardinality(Alone!Owners) <= 1) PROVE \E v \in Alone!Owners : v # u
<1> SUFFICES ASSUME \A v \in Alone!Owners : v = u PROVE FALSE
    OBVIOUS
<1>1. Alone!Owners = {u}
    OBVIOUS
<1>2. Alone!Cardinality(Alone!Owners) = Cardinality({u})
    BY <1>1 DEF Alone!Cardinality, Cardinality
<1>3. Cardinality({u}) = 1
    BY FS_Singleton
<1>4. Alone!Cardinality(Alone!Owners) = 1
    BY <1>2, <1>3
<1> HIDE DEF Alone!Owners
<1> QED BY <1>4

\* A request that finds the checks passed writes with the roles it has read: nobody else has written since.
LEMMA AloneStep ==
    ASSUME AloneInv, None \notin Members \cup {Root}, Alone!Next PROVE AloneInv' /\ Alone!OwnersMakeOwnersStep
<1> DEFINE U == Members \cup {Root}
<1> USE DEF AloneInv, Alone!Become, Alone!End
<1>1. PICK a \in U : \/ Alone!Begin(a) \/ Alone!CheckPermission(a) \/ Alone!ReadTarget(a) \/ Alone!OwnerRule(a)
                     \/ Alone!CountOwners(a) \/ Alone!Write(a) \/ Alone!Audit(a)
    BY DEF Alone!Next
<1>2. WsGoesOn(U, a) \/ WsWrites(U, a)
    BY <1>1, AloneSteps
<1>3. WsTypes(U)'
    BY <1>2, WsStepKeeps
<1>4. \A b \in U : b # a => tx[b].st = "idle" /\ tx'[b].st = "idle"
    <2>1. \A b \in U : b # a => tx'[b].st = tx[b].st
        <3>1. CASE WsGoesOn(U, a)
            BY <3>1 DEF WsGoesOn, WsTypes
        <3>2. CASE WsWrites(U, a)
            <4>1. \A b \in U : tx[b] \in WsRequest(U)
                BY DEF WsTypes
            <4>2. ASSUME NEW b \in U, b # a PROVE tx'[b].st = tx[b].st
                <5>1. CASE tx' = Done(tx, a)
                    BY <4>2, <5>1 DEF Done, WsTypes
                <5>2. CASE tx' = Done([c \in U |-> [tx[c] EXCEPT !.row = @ /\ tx[c].target # tx[a].target]], a)
                    <6>1. tx'[b] = [tx[b] EXCEPT !.row = @ /\ tx[b].target # tx[a].target]
                        BY <4>2, <5>2 DEF Done, WsTypes
                    <6> QED BY <4>1, <4>2, <6>1 DEF WsRequest
                <5> QED BY <3>2, <5>1, <5>2 DEF WsWrites
            <4> QED BY <4>2
        <3> QED BY <1>2, <3>1, <3>2
    <2>2. CASE Alone!Begin(a)
        <3>1. \A b \in U : b \notin Alone!Open
            BY <2>2, OneOpen DEF Alone!Begin
        <3> QED BY <2>1, <3>1 DEF Alone!Open
    <2>3. CASE tx[a].st # "idle"
        BY <2>1, <2>3
    <2> QED BY <1>1, <2>2, <2>3 DEF Alone!CheckPermission, Alone!ReadTarget, Alone!OwnerRule, Alone!CountOwners,
                                    Alone!Write, Alone!Audit
<1>5. \A b, c \in U : tx'[b].st # "idle" /\ tx'[c].st # "idle" => b = c
    BY <1>4
<1>6. \A b \in U : b # a => Remembers(b)'
    BY <1>4 DEF Remembers, Holds
<1>7. /\ tx[a] \in WsRequest(U) /\ Holds(tx[a], a, wsRole) /\ (tx[a].st # "idle" => Named(tx[a]))
      /\ wsRole \in [U -> WsRoles] /\ RowIsThere(tx[a], wsRole)
    BY DEF WsTypes, Remembers
<1>a. ASSUME NEW f \in [U -> WsRequest(U)] PROVE Done(f, a)[a].st = "audit"
    <2>1. f[a] \in WsRequest(U) /\ Done(f, a)[a] = [f[a] EXCEPT !.st = "audit", !.outcome = "success"]
        BY DEF Done
    <2> QED BY <2>1 DEF WsRequest
<1>b. tx \in [U -> WsRequest(U)]
    BY DEF WsTypes
<1>c. [c \in U |-> [tx[c] EXCEPT !.row = @ /\ tx[c].target # tx[a].target]] \in [U -> WsRequest(U)]
    <2>1. ASSUME NEW c \in U PROVE [tx[c] EXCEPT !.row = @ /\ tx[c].target # tx[a].target] \in WsRequest(U)
        <3>1. tx[c] \in WsRequest(U)
            BY <1>b
        <3> QED BY <3>1 DEF WsRequest
    <2> QED BY <2>1
<1>8. CASE WsWrites(U, a)
    <2>0. tx[a].st = "write" /\ Named(tx[a]) /\ RowIsThere(tx[a], wsRole) /\ tx'[a].st = "audit"
        <3>1. tx[a].st = "write" /\ Named(tx[a]) /\ RowIsThere(tx[a], wsRole)
            BY <1>7, <1>8 DEF WsWrites
        <3> QED BY <1>8, <1>a, <1>b, <1>c, <3>1 DEF WsWrites
    <2>1. Remembers(a)'
        BY <2>0 DEF Remembers, Holds
    <2>2. CASE wsRole' = wsRole
        <3>1. Alone!Owners' # {} /\ Alone!OwnersMakeOwnersStep
            BY <2>2 DEF Alone!Owners, Alone!OwnersMakeOwnersStep
        <3> QED BY <1>3, <1>5, <1>6, <2>1, <3>1
    <2>3. CASE wsRole' # wsRole
        <3>1. /\ tx[a].op \in {"add", "change", "remove"} /\ tx[a].target \in U
              /\ wsRole' = [wsRole EXCEPT ![tx[a].target] = tx[a].next]
              /\ tx[a].op \in {"change", "remove"} => tx[a].row
            <4>1. tx[a].target # None => tx[a].target \in U
                BY <1>7 DEF WsRequest
            <4>2. tx[a].op = "remove" => tx[a].next = "none"
                BY <1>7, <2>0 DEF Named
            <4> QED BY <1>7, <1>8, <2>0, <2>3, <4>1, <4>2 DEF WsWrites, Named
        <3>2. tx[a].seen = wsRole[tx[a].target] /\ (tx[a].seen = "owner" \/ tx[a].next = "owner" => a = Root \/ wsRole[a] = "owner")
            <4>1. tx[a].op = "add" => wsRole[tx[a].target] = "none" /\ tx[a].seen = "none"
                BY <1>7, <1>8, <2>0 DEF WsWrites, Holds
            <4> QED BY <1>7, <2>0, <3>1, <4>1 DEF Holds
        <3>3. Alone!OwnersMakeOwnersStep
            <4>1. ASSUME NEW u \in U, (wsRole[u] = "owner") # (wsRole'[u] = "owner") PROVE a = Root \/ wsRole[a] = "owner"
                BY <1>7, <3>1, <3>2, <4>1
            <4> QED BY <2>0, <4>1 DEF Alone!OwnersMakeOwnersStep
        <3>4. PICK u \in U : wsRole[u] = "owner"
            BY DEF Alone!Owners
        <3>5. \E v \in U : wsRole'[v] = "owner"
            <4>1. CASE tx[a].next = "owner"
                BY <1>7, <3>1, <4>1
            <4>2. CASE u # tx[a].target
                BY <1>7, <3>1, <3>4, <4>2
            <4>3. CASE u = tx[a].target /\ tx[a].next # "owner"
                <5>1. tx[a].op # "add" /\ tx[a].seen = "owner"
                    BY <1>7, <2>0, <3>2, <3>4, <4>3 DEF Holds
                <5>2. PICK v \in U : wsRole[v] = "owner" /\ v # tx[a].target
                    BY <1>7, <2>0, <3>1, <4>3, <5>1 DEF Holds
                <5> QED BY <1>7, <3>1, <5>2
            <4> QED BY <4>1, <4>2, <4>3
        <3>6. Alone!Owners' # {}
            BY <3>5 DEF Alone!Owners
        <3> QED BY <1>3, <1>5, <1>6, <2>1, <3>3, <3>6
    <2> QED BY <2>2, <2>3
<1>9. CASE WsGoesOn(U, a)
    <2>1. UNCHANGED <<wsRole, wsDeleted>>
        BY <1>9 DEF WsGoesOn
    <2>2. Alone!Owners' = Alone!Owners /\ Alone!OwnersMakeOwnersStep
        BY <2>1 DEF Alone!Owners, Alone!OwnersMakeOwnersStep
    <2>3. Holds(tx'[a], a, wsRole)
        <3> USE DEF WsTypes
        <3>1. ASSUME NEW st \in {"target", "rule", "count", "write"}, tx' = [tx EXCEPT ![a].st = st]
              PROVE  /\ tx'[a].st = st /\ tx'[a].op = tx[a].op /\ tx'[a].target = tx[a].target /\ tx'[a].next = tx[a].next
                     /\ tx'[a].seen = tx[a].seen /\ tx'[a].row = tx[a].row
            BY <1>7, <3>1 DEF WsRequest
        <3>2. CASE tx'[a].st \in {"idle", "audit"}
            BY <3>2 DEF Holds
        <3>e. ASSUME NEW outcome, tx' = [tx EXCEPT ![a].st = "audit", ![a].outcome = outcome] PROVE tx'[a].st = "audit"
            BY <1>7, <3>e DEF WsRequest
        <3>3. CASE Alone!Begin(a)
            BY <3>3 DEF Alone!Begin, Alone!Idle, Alone!NoRole, Holds
        <3>4. CASE Alone!CheckPermission(a)
            <4>1. CASE \E st \in {"target", "rule", "write"} : tx' = [tx EXCEPT ![a].st = st]
                BY <1>7, <3>1, <3>4, <4>1 DEF Alone!CheckPermission, Holds, WsRequest
            <4> QED BY <1>7, <3>2, <3>e, <3>4, <4>1 DEF Alone!CheckPermission
        <3>5. CASE Alone!ReadTarget(a)
            <4>1. CASE (wsRole[tx[a].target] = "none") <=> (tx[a].op = "add")
                <5>1. /\ tx'[a].op = tx[a].op /\ tx'[a].target = tx[a].target /\ tx'[a].next = tx[a].next
                      /\ tx'[a].seen = wsRole[tx[a].target] /\ tx'[a].row = (wsRole[tx[a].target] # "none")
                      /\ tx'[a].st = IF tx[a].op = "add" THEN "write" ELSE "rule"
                    BY <1>7, <3>5, <4>1 DEF Alone!ReadTarget, Alone!NoRole, WsRequest
                <5> QED BY <1>7, <3>5, <4>1, <5>1 DEF Alone!ReadTarget, Holds
            <4> QED BY <3>2, <3>e, <3>5, <4>1 DEF Alone!ReadTarget, Alone!NoRole
        <3>6. CASE Alone!OwnerRule(a)
            <4>1. CASE Alone!TouchesOwner(tx[a].seen, tx[a].next) /\ a # Root /\ wsRole[a] # "owner"
                BY <3>2, <3>e, <3>6, <4>1 DEF Alone!OwnerRule
            <4>2. CASE ~(Alone!TouchesOwner(tx[a].seen, tx[a].next) /\ a # Root /\ wsRole[a] # "owner")
                <5>1. tx' = [tx EXCEPT ![a].st = IF tx[a].op = "add" THEN "target" ELSE "count"] /\ tx[a].st = "rule"
                    BY <3>6, <4>2 DEF Alone!OwnerRule
                <5> QED BY <1>7, <3>1, <4>2, <5>1 DEF Holds, Alone!TouchesOwner
            <4> QED BY <4>1, <4>2
        <3>7. CASE Alone!CountOwners(a)
            <4>1. CASE Alone!RemovesLastOwner(a)
                BY <3>2, <3>e, <3>7, <4>1 DEF Alone!CountOwners
            <4>2. CASE ~Alone!RemovesLastOwner(a)
                <5>1. tx' = [tx EXCEPT ![a].st = "write"] /\ tx[a].st = "count"
                    BY <3>7, <4>2 DEF Alone!CountOwners
                <5>2. tx[a].seen = "owner" /\ tx[a].next # "owner" /\ tx[a].op \in {"change", "remove"}
                         => \E u \in U : wsRole[u] = "owner" /\ u # tx[a].target
                    <6>1. SUFFICES ASSUME tx[a].seen = "owner", tx[a].next # "owner", tx[a].op \in {"change", "remove"}
                                   PROVE  \E u \in U : wsRole[u] = "owner" /\ u # tx[a].target
                        OBVIOUS
                    <6>2. tx[a].target \in U /\ wsRole[tx[a].target] = "owner"
                        BY <1>7, <5>1, <6>1 DEF Holds, RowIsThere, WsRequest
                    <6>3. tx[a].target \in Alone!Owners
                        BY <6>2 DEF Alone!Owners
                    <6>4. ~(Alone!Cardinality(Alone!Owners) <= 1)
                        BY <4>2, <6>1 DEF Alone!RemovesLastOwner
                    <6>5. \E v \in Alone!Owners : v # tx[a].target
                        BY <6>3, <6>4, AnotherOwner
                    <6> QED BY <6>5 DEF Alone!Owners
                <5>3. /\ tx'[a].st = "write" /\ tx'[a].op = tx[a].op /\ tx'[a].target = tx[a].target
                      /\ tx'[a].next = tx[a].next /\ tx'[a].seen = tx[a].seen /\ tx'[a].row = tx[a].row
                    BY <3>1, <5>1
                <5>4. tx[a].op \in {"change", "remove"}
                         => tx[a].row /\ tx[a].seen = wsRole[tx[a].target]
                            /\ (tx[a].seen = "owner" \/ tx[a].next = "owner" => a = Root \/ wsRole[a] = "owner")
                    BY <1>7, <5>1 DEF Holds
                <5>5. tx[a].op # "add" /\ DOMAIN wsRole = U
                    BY <1>7, <5>1 DEF Named
                <5> QED BY <5>2, <5>3, <5>4, <5>5 DEF Holds
            <4> QED BY <4>1, <4>2
        <3>8. CASE Alone!Audit(a)
            BY <3>2, <3>8 DEF Alone!Audit, Alone!Idle
        <3>9. CASE Alone!Write(a)
            <4>1. CASE \E outcome : tx' = [tx EXCEPT ![a].st = "audit", ![a].outcome = outcome]
                BY <3>2, <3>e, <4>1
            <4>2. CASE tx' = Done([c \in U |-> [tx[c] EXCEPT !.row = @ /\ tx[c].target # tx[a].target]], a)
                BY <1>a, <1>c, <3>2, <4>2
            <4> QED BY <3>9, <4>1, <4>2 DEF Alone!Write, Alone!Gone, Done
        <3> QED BY <1>1, <3>3, <3>4, <3>5, <3>6, <3>7, <3>8, <3>9
    <2>4. Remembers(a)'
        BY <2>1, <2>3 DEF Remembers
    <2> QED BY <1>3, <1>5, <1>6, <2>2, <2>4
<1> QED BY <1>2, <1>8, <1>9

LEMMA AloneStarts == Alone!Init => AloneInv
<1> SUFFICES ASSUME Alone!Init PROVE AloneInv
    OBVIOUS
<1> DEFINE U == Members \cup {Root}
<1> USE DEF Alone!Init
<1>1. Alone!Idle \in WsRequest(U) /\ Alone!Idle.st = "idle" /\ ~Alone!Idle.row
    BY DEF Alone!Idle, Alone!NoRole, WsRequest, WsRoles
<1>2. \A a \in U : tx[a] = Alone!Idle
    OBVIOUS
<1>3. WsTypes(U)
    BY <1>1, <1>2 DEF WsTypes, WsRoles, RowIsThere, Alone!NoRole
<1>4. Alone!Owners # {}
    BY DEF Alone!Owners, Alone!NoRole
<1>5. \A a \in U : Remembers(a)
    BY <1>1, <1>2 DEF Remembers, Holds
<1> QED BY <1>1, <1>2, <1>3, <1>4, <1>5 DEF AloneInv

LEMMA OverlapStarts == Overlap!Init => WsTypes(Pair)
<1> SUFFICES ASSUME Overlap!Init PROVE WsTypes(Pair)
    OBVIOUS
<1> USE DEF Overlap!Init
<1>1. Overlap!Idle \in WsRequest(Pair) /\ Overlap!Idle.st = "idle" /\ ~Overlap!Idle.row
    BY DEF Overlap!Idle, Overlap!NoRole, WsRequest, WsRoles
<1>2. \A a \in Pair : tx[a] = Overlap!Idle
    OBVIOUS
<1> QED BY <1>1, <1>2 DEF WsTypes, WsRoles, RowIsThere, Overlap!NoRole

LEMMA OverlapStep ==
    ASSUME WsTypes(Pair), None \notin Pair, Overlap!Next PROVE WsTypes(Pair)' /\ Overlap!OutcomeIsTrueStep
<1>1. PICK a \in Pair : \/ Overlap!Begin(a) \/ Overlap!CheckPermission(a) \/ Overlap!ReadTarget(a) \/ Overlap!OwnerRule(a)
                        \/ Overlap!CountOwners(a) \/ Overlap!Write(a) \/ Overlap!Audit(a)
    BY DEF Overlap!Next
<1>2. WsTypes(Pair)' /\ \A b \in Pair : WsOutcomeIsTrue(b)
    BY <1>1, OverlapSteps, WsStepKeeps
<1> QED BY <1>2 DEF WsOutcomeIsTrue, Overlap!OutcomeIsTrueStep, Overlap!NoRole

\* What the invariants say of the two instances.
LEMMA RolesSafe ==
    /\ AloneInv => Alone!TypeOK /\ Alone!AlwaysAnOwner
    /\ WsTypes(Pair) => Overlap!TypeOK
<1> USE DEF WsTypes, WsRequest, WsRoles, RowIsThere
<1>1. AloneInv => Alone!TypeOK /\ Alone!AlwaysAnOwner
    BY DEF AloneInv, Alone!TypeOK, Alone!AlwaysAnOwner, Alone!Roles, Alone!NoRole, Alone!Ops
<1>2. WsTypes(Pair) => Overlap!TypeOK
    BY DEF Overlap!TypeOK, Overlap!Roles, Overlap!NoRole, Overlap!Ops
<1> QED BY <1>1, <1>2

-----------------------------------------------------------------------------
(***************************************************************************)
(* Accounts.  The suite has it twice; E, P and S are its emails, phones    *)
(* and Google accounts, Mail their emails, K the kinds of calls.           *)
(***************************************************************************)
Fields == {"name", "email", "phone", "sub"}
AccUser(E, P, S) == [name : Names, email : E \cup {None}, phone : P \cup {None}, sub : S \cup {None}, home : BOOLEAN]
AccCall(E, P, S) ==
    [st : {"idle", "lookup", "email", "name", "write", "again", "link", "found", "failed"},
     kind : {"register", "phone", "google", "update", "import"}, name : Names \cup {None}, email : E \cup {None},
     phone : P \cup {None}, sub : S \cup {None}, user : Nat, open : BOOLEAN, clash : BOOLEAN]

\* What a call of a kind is about.
Asked(r, P, S, Mail) ==
    /\ r.kind = "phone" => r.phone \in P /\ r.email = None /\ r.sub = None
    /\ r.kind = "google" => r.sub \in S /\ r.email = Mail[r.sub] /\ r.phone = None
    /\ r.kind = "import" => r.phone = None /\ r.sub = None
    /\ r.kind = "register" => r.sub = None

\* Where a call is, it has what it needs there.
Ready(r) ==
    /\ r.st \in {"lookup", "write"} /\ r.kind \in {"register", "import"} => r.name \in Names
    /\ r.st = "write" /\ r.kind \in {"phone", "google"} => r.name \in Names
    /\ r.st \in {"lookup", "write"} /\ r.kind = "update" => r.user # 0
    /\ r.st \in {"email", "name", "again", "link"} => r.kind \in {"phone", "google"}
    /\ r.st \in {"link", "email"} => r.kind = "google"
    /\ r.st = "link" => r.user # 0
    /\ r.st = "found" => r.user # 0 \/ r.kind = "import"

Unique == \A u, v \in 1..Len(users), f \in Fields : users[u][f] = users[v][f] => u = v \/ users[u][f] = None

AccInv(E, P, S, Mail, K) ==
    /\ users \in Seq(AccUser(E, P, S)) /\ Unique
    /\ call \in [Calls -> AccCall(E, P, S)]
    /\ \A c \in Calls : /\ Asked(call[c], P, S, Mail) /\ Ready(call[c]) /\ call[c].user <= Len(users)
                        /\ call[c].kind \in K \cup {"register"}
    /\ signed \subseteq (P \cup S) \X (1..Len(users))

AccBegin(c, E, P, S, Mail, K) ==
    /\ call[c].st = "idle" /\ UNCHANGED <<users, signed>>
    /\ \E r \in AccCall(E, P, S) :
          /\ call' = [call EXCEPT ![c] = r] /\ r.st = "lookup" /\ r.kind \in K /\ r.user <= Len(users)
          /\ Asked(r, P, S, Mail) /\ Ready(r)

AccNext(E, P, S, Mail, K) ==
    \E c \in Calls :
       \/ AccBegin(c, E, P, S, Mail, K)
       \/ Logins!LookUp(c) \/ Logins!LookUpPhone(c) \/ Logins!LookUpSub(c) \/ Logins!LookUpEmail(c) \/ Logins!MakeName(c)
       \/ Logins!Create(c) \/ Logins!LookAgain(c) \/ Logins!Link(c) \/ Logins!Update(c) \/ Logins!Import(c)
       \/ Logins!Answer(c)

LoginsInv == AccInv({Email}, {"phone"}, {Sub, OtherSub}, LoginMail, {"register", "phone", "google"})
ImportsInv == AccInv({Email, OtherEmail}, {"phone"}, {Sub}, ImportMail, {"google", "update", "import"})

\* Google accounts with an email have different ones.
LEMMA Mails ==
    /\ LoginMail \in [{Sub, OtherSub} -> {Email, None}]
    /\ \A s, t \in {Sub, OtherSub} : LoginMail[s] = LoginMail[t] => s = t \/ LoginMail[s] = None
    /\ ImportMail \in [{Sub} -> {Email, None}]
BY DEF LoginMail, ImportMail

\* Every step of either instance is one of the same actions, over its own sets.
LEMMA LoginSteps ==
    ASSUME Logins!Next, LoginsInv
    PROVE  AccNext({Email}, {"phone"}, {Sub, OtherSub}, LoginMail, {"register", "phone", "google"})
<1>1. PICK c \in Calls : \/ Logins!Begin(c) \/ Logins!LookUp(c) \/ Logins!LookUpPhone(c) \/ Logins!LookUpSub(c)
                         \/ Logins!LookUpEmail(c) \/ Logins!MakeName(c) \/ Logins!Create(c) \/ Logins!LookAgain(c)
                         \/ Logins!Link(c) \/ Logins!Update(c) \/ Logins!Import(c) \/ Logins!Answer(c)
    BY DEF Logins!Next
<1>2. CASE Logins!Begin(c)
    <2>1. PICK k \in {"register", "phone", "google"}, n \in Names \cup {None}, e \in {Email} \cup {None},
               p \in {"phone"} \cup {None}, s \in {Sub, OtherSub} \cup {None}, open \in BOOLEAN, u \in 0..Len(users) :
        /\ k \notin {"phone", "google"} => open
        /\ CASE k = "register" -> n # None /\ s = None /\ u = 0
             [] k = "phone" -> p # None /\ {n, e, s} = {None} /\ u = 0
             [] k = "google" -> s # None /\ e = LoginMail[s] /\ {n, p} = {None} /\ u = 0
             [] k = "update" -> u # 0 /\ s = None /\ {n, e, p} # {None}
             [] k = "import" -> n # None /\ e # None /\ {p, s} = {None} /\ u = 0
        /\ call' = [call EXCEPT ![c] = [Logins!Idle EXCEPT !.st = "lookup", !.kind = k, !.name = n, !.email = e, !.phone = p,
                                                           !.sub = s, !.user = u, !.open = open]]
        BY <1>2 DEF Logins!Begin
    <2> DEFINE r == [Logins!Idle EXCEPT !.st = "lookup", !.kind = k, !.name = n, !.email = e, !.phone = p, !.sub = s,
                                        !.user = u, !.open = open]
    <2>2. Len(users) \in Nat
        BY DEF LoginsInv, AccInv
    <2>3. /\ r \in AccCall({Email}, {"phone"}, {Sub, OtherSub}) /\ r.st = "lookup" /\ r.kind = k /\ r.user = u
          /\ r.name = n /\ r.email = e /\ r.phone = p /\ r.sub = s
        <3>1. Logins!Idle \in AccCall({Email}, {"phone"}, {Sub, OtherSub})
            BY DEF Logins!Idle, AccCall
        <3>2. u \in Nat /\ "lookup" \in {"idle", "lookup", "email", "name", "write", "again", "link", "found", "failed"}
            BY <2>2
        <3>3. k \in {"register", "phone", "google", "update", "import"}
            OBVIOUS
        <3>4. r \in AccCall({Email}, {"phone"}, {Sub, OtherSub})
            BY ZenonT(60), <3>1, <3>2, <3>3 DEF AccCall
        <3>5. r.st = "lookup" /\ r.kind = k /\ r.user = u
            BY <3>1 DEF AccCall
        <3>6. r.name = n /\ r.email = e
            BY <3>1 DEF AccCall
        <3>7. r.phone = p /\ r.sub = s
            BY <3>1 DEF AccCall
        <3> QED BY <3>4, <3>5, <3>6, <3>7
    <2>4. Asked(r, {"phone"}, {Sub, OtherSub}, LoginMail) /\ Ready(r)
        BY <2>1, <2>3 DEF Asked, Ready
    <2> HIDE DEF r
    <2>5. r.kind \in {"register", "phone", "google"} /\ r.user <= Len(users)
        BY <2>2, <2>3
    <2>6. call' = [call EXCEPT ![c] = r]
        BY <2>1 DEF r
    <2>7. AccBegin(c, {Email}, {"phone"}, {Sub, OtherSub}, LoginMail, {"register", "phone", "google"})
        BY <1>2, <2>3, <2>4, <2>5, <2>6 DEF AccBegin, Logins!Begin
    <2> QED BY <2>7 DEF AccNext
<1> QED BY <1>1, <1>2 DEF AccNext

LEMMA ImportSteps ==
    ASSUME Imports!Next, ImportsInv
    PROVE  AccNext({Email, OtherEmail}, {"phone"}, {Sub}, ImportMail, {"google", "update", "import"})
<1> USE DEF Imports!Having, Logins!Having, Imports!Ids, Logins!Ids, Imports!Taken, Logins!Taken, Imports!Become, Logins!Become,
            Imports!Found, Logins!Found, Imports!Only, Logins!Only
<1>1. PICK c \in Calls : \/ Imports!Begin(c) \/ Imports!LookUp(c) \/ Imports!LookUpPhone(c) \/ Imports!LookUpSub(c)
                         \/ Imports!LookUpEmail(c) \/ Imports!MakeName(c) \/ Imports!Create(c) \/ Imports!LookAgain(c)
                         \/ Imports!Link(c) \/ Imports!Update(c) \/ Imports!Import(c) \/ Imports!Answer(c)
    BY DEF Imports!Next
<1>2. CASE Imports!Begin(c)
    <2>1. PICK k \in {"google", "update", "import"}, n \in Names \cup {None}, e \in {Email, OtherEmail} \cup {None},
               p \in {"phone"} \cup {None}, s \in {Sub} \cup {None}, open \in BOOLEAN, u \in 0..Len(users) :
        /\ k \notin {"phone", "google"} => open
        /\ CASE k = "register" -> n # None /\ s = None /\ u = 0
             [] k = "phone" -> p # None /\ {n, e, s} = {None} /\ u = 0
             [] k = "google" -> s # None /\ e = ImportMail[s] /\ {n, p} = {None} /\ u = 0
             [] k = "update" -> u # 0 /\ s = None /\ {n, e, p} # {None}
             [] k = "import" -> n # None /\ e # None /\ {p, s} = {None} /\ u = 0
        /\ call' = [call EXCEPT ![c] = [Imports!Idle EXCEPT !.st = "lookup", !.kind = k, !.name = n, !.email = e, !.phone = p,
                                                            !.sub = s, !.user = u, !.open = open]]
        BY <1>2 DEF Imports!Begin
    <2> DEFINE r == [Imports!Idle EXCEPT !.st = "lookup", !.kind = k, !.name = n, !.email = e, !.phone = p, !.sub = s,
                                        !.user = u, !.open = open]
    <2>2. Len(users) \in Nat
        BY DEF ImportsInv, AccInv
    <2>3. /\ r \in AccCall({Email, OtherEmail}, {"phone"}, {Sub}) /\ r.st = "lookup" /\ r.kind = k /\ r.user = u
          /\ r.name = n /\ r.email = e /\ r.phone = p /\ r.sub = s
        <3>1. Imports!Idle \in AccCall({Email, OtherEmail}, {"phone"}, {Sub})
            BY DEF Imports!Idle, AccCall
        <3>2. u \in Nat /\ "lookup" \in {"idle", "lookup", "email", "name", "write", "again", "link", "found", "failed"}
            BY <2>2
        <3>3. k \in {"register", "phone", "google", "update", "import"}
            OBVIOUS
        <3>4. r \in AccCall({Email, OtherEmail}, {"phone"}, {Sub})
            BY ZenonT(60), <3>1, <3>2, <3>3 DEF AccCall
        <3>5. r.st = "lookup" /\ r.kind = k /\ r.user = u
            BY <3>1 DEF AccCall
        <3>6. r.name = n /\ r.email = e
            BY <3>1 DEF AccCall
        <3>7. r.phone = p /\ r.sub = s
            BY <3>1 DEF AccCall
        <3> QED BY <3>4, <3>5, <3>6, <3>7
    <2>4. Asked(r, {"phone"}, {Sub}, ImportMail) /\ Ready(r)
        BY <2>1, <2>3 DEF Asked, Ready
    <2> HIDE DEF r
    <2>5. r.kind \in {"google", "update", "import"} /\ r.user <= Len(users)
        BY <2>2, <2>3
    <2>6. call' = [call EXCEPT ![c] = r]
        BY <2>1 DEF r
    <2>7. AccBegin(c, {Email, OtherEmail}, {"phone"}, {Sub}, ImportMail, {"google", "update", "import"})
        BY <1>2, <2>3, <2>4, <2>5, <2>6 DEF AccBegin, Imports!Begin
    <2> QED BY <2>7 DEF AccNext
<1>3. Imports!LookUp(c) => Logins!LookUp(c)
    BY DEF Imports!LookUp, Logins!LookUp, Imports!LooksTaken, Logins!LooksTaken
<1>4. Imports!LookUpPhone(c) => Logins!LookUpPhone(c)
    BY DEF Imports!LookUpPhone, Logins!LookUpPhone
<1>5. Imports!LookUpSub(c) => Logins!LookUpSub(c)
    BY DEF Imports!LookUpSub, Logins!LookUpSub
<1>6. Imports!LookUpEmail(c) => Logins!LookUpEmail(c)
    BY DEF Imports!LookUpEmail, Logins!LookUpEmail
<1>7. Imports!MakeName(c) => Logins!MakeName(c)
    BY DEF Imports!MakeName, Logins!MakeName
<1>8. Imports!Create(c) => Logins!Create(c)
    BY DEF Imports!Create, Logins!Create, Imports!Clashes, Logins!Clashes, Imports!RowOf, Logins!RowOf,
           Imports!AfterClash, Logins!AfterClash
<1>9. Imports!LookAgain(c) => Logins!LookAgain(c)
    BY DEF Imports!LookAgain, Logins!LookAgain, Imports!Winner, Logins!Winner
<1>10. Imports!Link(c) => Logins!Link(c)
    BY DEF Imports!Link, Logins!Link, Imports!Linked, Logins!Linked
<1>11. Imports!Update(c) => Logins!Update(c)
    BY DEF Imports!Update, Logins!Update, Imports!Clashes, Logins!Clashes
<1>12. Imports!Import(c) => Logins!Import(c)
    BY DEF Imports!Import, Logins!Import, Imports!RowOf, Logins!RowOf
<1>13. Imports!Answer(c) => Logins!Answer(c)
    BY DEF Imports!Answer, Logins!Answer, Imports!Idle, Logins!Idle
<1> QED BY <1>1, <1>2, <1>3, <1>4, <1>5, <1>6, <1>7, <1>8, <1>9, <1>10, <1>11, <1>12, <1>13 DEF AccNext

\* Moving a call on keeps what it is about.
SameCall(r, row) ==
    /\ r.kind = row.kind /\ r.email = row.email /\ r.phone = row.phone /\ r.sub = row.sub /\ r.open = row.open

CallAt(row, st) == [row EXCEPT !.st = st]
CallFound(row, st, u) == [row EXCEPT !.st = st, !.user = u]
CallNamed(row, n) == [row EXCEPT !.st = "write", !.name = n]
CallClashed(row, st, b) == [row EXCEPT !.st = st, !.clash = b]

LEMMA BecomeMoves ==
    ASSUME NEW E, NEW P, NEW S, NEW row \in AccCall(E, P, S), NEW r,
           NEW st \in {"idle", "lookup", "email", "name", "write", "again", "link", "found", "failed"},
           r = CallAt(row, st)
    PROVE  /\ r \in AccCall(E, P, S) /\ SameCall(r, row)
           /\ r.st = st /\ r.user = row.user /\ r.name = row.name /\ r.clash = row.clash
<1>1. r \in AccCall(E, P, S) /\ r.st = st /\ r.user = row.user /\ r.name = row.name
    BY DEF AccCall, CallAt
<1>2. r.clash = row.clash /\ r.open = row.open
    BY DEF AccCall, CallAt
<1>3. r.kind = row.kind /\ r.email = row.email /\ r.phone = row.phone /\ r.sub = row.sub
    BY DEF AccCall, CallAt
<1> QED BY <1>1, <1>2, <1>3, Zenon DEF SameCall

LEMMA FoundMoves ==
    ASSUME NEW E, NEW P, NEW S, NEW row \in AccCall(E, P, S), NEW r,
           NEW st \in {"idle", "lookup", "email", "name", "write", "again", "link", "found", "failed"},
           NEW u \in Nat, r = CallFound(row, st, u)
    PROVE  /\ r \in AccCall(E, P, S) /\ SameCall(r, row)
           /\ r.st = st /\ r.user = u /\ r.name = row.name /\ r.clash = row.clash
<1>1. r \in AccCall(E, P, S) /\ r.st = st /\ r.user = u /\ r.name = row.name
    BY DEF AccCall, CallFound
<1>2. r.clash = row.clash /\ r.open = row.open
    BY DEF AccCall, CallFound
<1>3. r.kind = row.kind /\ r.email = row.email /\ r.phone = row.phone /\ r.sub = row.sub
    BY DEF AccCall, CallFound
<1> QED BY <1>1, <1>2, <1>3, Zenon DEF SameCall

LEMMA NameMoves ==
    ASSUME NEW E, NEW P, NEW S, NEW row \in AccCall(E, P, S), NEW r, NEW n \in Names,
           r = CallNamed(row, n)
    PROVE  /\ r \in AccCall(E, P, S) /\ SameCall(r, row)
           /\ r.st = "write" /\ r.user = row.user /\ r.name = n /\ r.clash = row.clash
<1>1. r \in AccCall(E, P, S) /\ r.st = "write" /\ r.user = row.user /\ r.name = n
    BY DEF AccCall, CallNamed
<1>2. r.clash = row.clash /\ r.open = row.open
    BY DEF AccCall, CallNamed
<1>3. r.kind = row.kind /\ r.email = row.email /\ r.phone = row.phone /\ r.sub = row.sub
    BY DEF AccCall, CallNamed
<1> QED BY <1>1, <1>2, <1>3, Zenon DEF SameCall

LEMMA ClashMoves ==
    ASSUME NEW E, NEW P, NEW S, NEW row \in AccCall(E, P, S), NEW r, NEW b \in BOOLEAN, NEW st \in {"again", "failed"},
           r = CallClashed(row, st, b)
    PROVE  /\ r \in AccCall(E, P, S) /\ SameCall(r, row)
           /\ r.st = st /\ r.user = row.user /\ r.name = row.name /\ r.clash = b
<1>1. r \in AccCall(E, P, S) /\ r.st = st /\ r.user = row.user /\ r.name = row.name
    BY DEF AccCall, CallClashed
<1>2. r.clash = b /\ r.open = row.open
    BY DEF AccCall, CallClashed
<1>3. r.kind = row.kind /\ r.email = row.email /\ r.phone = row.phone /\ r.sub = row.sub
    BY DEF AccCall, CallClashed
<1> QED BY <1>1, <1>2, <1>3, Zenon DEF SameCall

\* What one call did, its row being new, to the call itself.
LEMMA AccKeeps ==
    ASSUME NEW E, NEW P, NEW S, NEW Mail, NEW K, AccInv(E, P, S, Mail, K), NEW c \in Calls, NEW r \in AccCall(E, P, S),
           call' = [call EXCEPT ![c] = r], Asked(r, P, S, Mail), Ready(r), r.kind \in K \cup {"register"},
           users' \in Seq(AccUser(E, P, S)), Unique', Len(users) <= Len(users'), r.user <= Len(users'),
           signed' \subseteq (P \cup S) \X (1..Len(users'))
    PROVE  AccInv(E, P, S, Mail, K)'
<1>1. call \in [Calls -> AccCall(E, P, S)] /\ Len(users) \in Nat /\ Len(users') \in Nat
    BY DEF AccInv
<1>2. call' \in [Calls -> AccCall(E, P, S)]
    BY <1>1
<1>3. call'[c] = r /\ \A d \in Calls : d # c => call'[d] = call[d]
    BY <1>1
<1>4. \A d \in Calls : call[d].user \in Nat /\ r.user \in Nat
    BY <1>1 DEF AccCall
<1>5. \A d \in Calls : call[d].user <= Len(users')
    BY <1>1, <1>4 DEF AccInv
<1>6. \A d \in Calls : /\ Asked(call'[d], P, S, Mail) /\ Ready(call'[d]) /\ call'[d].user <= Len(users')
                       /\ call'[d].kind \in K \cup {"register"}
    BY <1>3, <1>5 DEF AccInv
<1> QED BY <1>2, <1>6 DEF AccInv

\* The users with a value, and the one the model takes.
LEMMA Havings ==
    /\ \A v : \A f \in Fields : Logins!Having(f, v) = {u \in 1..Len(users) : v # None /\ users[u][f] = v}
    /\ \A T : T # {} => Logins!Only(T) \in T
BY DEF Logins!Having, Logins!Ids, Logins!Only

\* A row that clashes with none but its own may stand in its place, or last.
LEMMA RowStands ==
    ASSUME NEW E, NEW P, NEW S, users \in Seq(AccUser(E, P, S)), Unique,
           NEW u \in 1..Len(users), NEW row \in AccUser(E, P, S),
           \A f \in Fields, v \in 1..Len(users) : v # u => row[f] = None \/ users[v][f] # row[f]
    PROVE  LET now == [users EXCEPT ![u] = row]
           IN /\ now \in Seq(AccUser(E, P, S)) /\ Len(now) = Len(users) /\ now[u] = row
              /\ \A v \in 1..Len(users) : v # u => now[v] = users[v]
              /\ \A v, w \in 1..Len(now), f \in Fields : now[v][f] = now[w][f] => v = w \/ now[v][f] = None
<1> DEFINE now == [users EXCEPT ![u] = row]
<1>1. now \in Seq(AccUser(E, P, S)) /\ Len(now) = Len(users)
    OBVIOUS
<1>2. now[u] = row /\ \A v \in 1..Len(users) : v # u => now[v] = users[v]
    OBVIOUS
<1> HIDE DEF now
<1>4. \A v, w \in 1..Len(now), f \in Fields : now[v][f] = now[w][f] => v = w \/ now[v][f] = None
    BY <1>1, <1>2 DEF Unique
<1> QED BY <1>1, <1>2, <1>4 DEF now

LEMMA RowJoins ==
    ASSUME NEW E, NEW P, NEW S, users \in Seq(AccUser(E, P, S)), Unique,
           NEW row \in AccUser(E, P, S),
           \A f \in Fields, v \in 1..Len(users) : row[f] = None \/ users[v][f] # row[f]
    PROVE  LET now == Append(users, row)
           IN /\ now \in Seq(AccUser(E, P, S)) /\ Len(now) = Len(users) + 1 /\ now[Len(users) + 1] = row
              /\ \A v \in 1..Len(users) : now[v] = users[v]
              /\ \A v, w \in 1..Len(now), f \in Fields : now[v][f] = now[w][f] => v = w \/ now[v][f] = None
<1> DEFINE now == Append(users, row)
<1>1. now \in Seq(AccUser(E, P, S)) /\ Len(now) = Len(users) + 1 /\ Len(users) \in Nat
    OBVIOUS
<1>2. now[Len(users) + 1] = row /\ \A v \in 1..Len(users) : now[v] = users[v]
    OBVIOUS
<1> HIDE DEF now
<1>3. \A v \in 1..Len(now) : v = Len(users) + 1 \/ v \in 1..Len(users)
    BY <1>1
<1>4. \A v, w \in 1..Len(now), f \in Fields : now[v][f] = now[w][f] => v = w \/ now[v][f] = None
    BY <1>1, <1>2, <1>3 DEF Unique
<1> QED BY <1>1, <1>2, <1>4 DEF now

\* A call that writes no row.
LEMMA AccMoves ==
    ASSUME NEW E, NEW P, NEW S, NEW Mail, NEW K, AccInv(E, P, S, Mail, K), NEW c \in Calls, NEW r \in AccCall(E, P, S),
           call' = [call EXCEPT ![c] = r], UNCHANGED <<users, signed>>,
           SameCall(r, call[c]), r.user <= Len(users), Ready(r)
    PROVE  AccInv(E, P, S, Mail, K)'
<1>1. Asked(r, P, S, Mail) /\ r.kind \in K \cup {"register"}
    BY DEF Asked, AccInv, SameCall
<1>2. users' \in Seq(AccUser(E, P, S)) /\ Unique' /\ Len(users) <= Len(users') /\ r.user <= Len(users')
    BY DEF AccInv, Unique
<1>3. signed' \subseteq (P \cup S) \X (1..Len(users'))
    BY DEF AccInv
<1> QED BY <1>1, <1>2, <1>3, AccKeeps

\* Over rows: those of Google accounts have the account's email; a login that reached or lost
\* its user tells the truth; and so do those that have signed in.
RowsTrue(Mail, rows) == \A u \in 1..Len(rows) : rows[u].sub # None => rows[u].email = Mail[rows[u].sub]

CallTrue(r, rows) ==
    /\ r.st = "link" => r.email # None /\ rows[r.user].email = r.email
    /\ r.st = "found" /\ r.kind = "phone" => rows[r.user].phone = r.phone
    /\ r.st = "found" /\ r.kind = "google" => rows[r.user].sub = r.sub
    /\ r.st = "again" /\ r.kind = "phone" => r.clash = TRUE \/ \E u \in 1..Len(rows) : rows[u].phone = r.phone
    /\ r.st = "again" /\ r.kind = "google" =>
          r.clash = TRUE \/ \E u \in 1..Len(rows) : rows[u].sub = r.sub \/ (r.email # None /\ rows[u].email = r.email)
    /\ r.st = "failed" /\ r.kind \in {"phone", "google"} => r.open = FALSE \/ r.clash = TRUE

SignedTrue(P, S, who, rows) ==
    \A s \in who : \/ s[1] \in P /\ rows[s[2]].phone = s[1]
                   \/ s[1] \in S /\ rows[s[2]].sub = s[1]

LoginsTrue(P, S, Mail) ==
    /\ RowsTrue(Mail, users)
    /\ \A c \in Calls : CallTrue(call[c], users)
    /\ SignedTrue(P, S, signed, users)

\* What logins need of the calls around them: no profile changes, no two accounts with an email.
OnlyLogins(P, S, Mail, K) ==
    /\ K \subseteq {"register", "phone", "google"} /\ P \cap S = {}
    /\ \A s, t \in S : Mail[s] = Mail[t] => s = t \/ Mail[s] = None

AccConstants(E, P, S, Mail) == None \notin Names \cup E \cup P \cup S /\ Mail \in [S -> E \cup {None}]

RowsKept(old, new) ==
    /\ Len(old) <= Len(new)
    /\ \A u \in 1..Len(old) : /\ new[u].email = old[u].email /\ new[u].phone = old[u].phone
                              /\ old[u].sub # None => new[u].sub = old[u].sub

\* What a call knows of a row stays true of the rows that keep it.
LEMMA CallKept ==
    ASSUME NEW E, NEW P, NEW S, NEW Mail, AccConstants(E, P, S, Mail), NEW old \in Seq(AccUser(E, P, S)),
           NEW new \in Seq(AccUser(E, P, S)), RowsKept(old, new),
           NEW r \in AccCall(E, P, S), Asked(r, P, S, Mail), Ready(r), r.user <= Len(old), CallTrue(r, old)
    PROVE  CallTrue(r, new)
<1>1. Len(old) \in Nat /\ Len(new) \in Nat /\ r.user \in Nat
    BY DEF AccCall
<1>2. \A u \in 1..Len(old) : u \in 1..Len(new)
    BY <1>1 DEF RowsKept
<1>3. r.kind = "phone" => r.phone # None
    BY DEF Asked, AccConstants
<1>4. r.kind = "google" => r.sub # None
    BY DEF Asked, AccConstants
<1>5. r.st = "link" => r.email # None /\ new[r.user].email = r.email
    BY <1>1 DEF CallTrue, Ready, RowsKept
<1>6. r.st = "found" /\ r.kind = "phone" => new[r.user].phone = r.phone
    BY <1>1 DEF CallTrue, Ready, RowsKept
<1>7. r.st = "found" /\ r.kind = "google" => new[r.user].sub = r.sub
    BY <1>1, <1>4 DEF CallTrue, Ready, RowsKept
<1>8. r.st = "again" /\ r.kind = "phone" => r.clash = TRUE \/ \E u \in 1..Len(new) : new[u].phone = r.phone
    BY <1>1, <1>2 DEF CallTrue, RowsKept
<1>9. r.st = "again" /\ r.kind = "google" =>
          r.clash = TRUE \/ \E u \in 1..Len(new) : new[u].sub = r.sub \/ (r.email # None /\ new[u].email = r.email)
    BY <1>1, <1>2, <1>4 DEF CallTrue, RowsKept
<1> QED BY <1>5, <1>6, <1>7, <1>8, <1>9 DEF CallTrue

LEMMA LoginsKeep ==
    ASSUME NEW E, NEW P, NEW S, NEW Mail, NEW K, AccConstants(E, P, S, Mail), AccInv(E, P, S, Mail, K),
           AccInv(E, P, S, Mail, K)', NEW c \in Calls, NEW r,
           call' = [call EXCEPT ![c] = r], RowsKept(users, users'), CallTrue(r, users'), RowsTrue(Mail, users'),
           \A s \in signed' : s \in signed \/ (s[1] \in P /\ users[s[2]].phone = s[1])
                                           \/ (s[1] \in S /\ users[s[2]].sub = s[1]),
           signed' \subseteq (P \cup S) \X (1..Len(users)),
           LoginsTrue(P, S, Mail)
    PROVE  LoginsTrue(P, S, Mail)'
<1>1. call \in [Calls -> AccCall(E, P, S)] /\ users \in Seq(AccUser(E, P, S)) /\ users' \in Seq(AccUser(E, P, S))
    BY DEF AccInv
<1>2. \A d \in Calls : CallTrue(call'[d], users')
    <2> SUFFICES ASSUME NEW d \in Calls, d # c PROVE CallTrue(call'[d], users')
        BY <1>1
    <2>1. call'[d] = call[d] /\ CallTrue(call[d], users)
        BY <1>1 DEF LoginsTrue
    <2>2. Asked(call[d], P, S, Mail) /\ Ready(call[d]) /\ call[d].user <= Len(users) /\ call[d] \in AccCall(E, P, S)
        BY <1>1 DEF AccInv
    <2> QED BY <1>1, <2>1, <2>2, CallKept
<1>3. SignedTrue(P, S, signed', users')
    <2> SUFFICES ASSUME NEW s \in signed'
                 PROVE  \/ s[1] \in P /\ users'[s[2]].phone = s[1]
                        \/ s[1] \in S /\ users'[s[2]].sub = s[1]
        BY DEF SignedTrue
    <2>1. \/ s[1] \in P /\ users[s[2]].phone = s[1]
          \/ s[1] \in S /\ users[s[2]].sub = s[1]
        BY DEF LoginsTrue, SignedTrue
    <2>2. s[2] \in 1..Len(users)
        OBVIOUS
    <2> QED BY <2>1, <2>2 DEF RowsKept, AccConstants
<1> QED BY <1>2, <1>3 DEF LoginsTrue

\* The same for a call that writes no row and signs nobody in.
LEMMA LoginsMove ==
    ASSUME NEW E, NEW P, NEW S, NEW Mail, NEW K, AccConstants(E, P, S, Mail), AccInv(E, P, S, Mail, K),
           AccInv(E, P, S, Mail, K)', NEW c \in Calls, NEW r,
           call' = [call EXCEPT ![c] = r], UNCHANGED <<users, signed>>, CallTrue(r, users),
           LoginsTrue(P, S, Mail)
    PROVE  LoginsTrue(P, S, Mail)'
<1>1. users \in Seq(AccUser(E, P, S)) /\ Len(users) \in Nat
    BY DEF AccInv
<1>2. RowsKept(users, users') /\ RowsTrue(Mail, users') /\ CallTrue(r, users')
    BY <1>1 DEF RowsKept, LoginsTrue
<1>3. signed' \subseteq (P \cup S) \X (1..Len(users))
    BY DEF AccInv
<1> QED BY <1>2, <1>3, LoginsKeep

\* Action by action: the types and the unique columns stay, and where only logins run so does what they know.
LEMMA BeginKeeps ==
    ASSUME NEW E, NEW P, NEW S, NEW Mail, NEW K, AccConstants(E, P, S, Mail), AccInv(E, P, S, Mail, K), NEW c \in Calls,
           AccBegin(c, E, P, S, Mail, K)
    PROVE  AccInv(E, P, S, Mail, K)' /\ (OnlyLogins(P, S, Mail, K) /\ LoginsTrue(P, S, Mail) => LoginsTrue(P, S, Mail)')
<1>1. /\ call \in [Calls -> AccCall(E, P, S)] /\ call[c] \in AccCall(E, P, S) /\ Ready(call[c]) /\ Asked(call[c], P, S, Mail)
      /\ call[c].user <= Len(users) /\ users \in Seq(AccUser(E, P, S)) /\ Len(users) \in Nat
      /\ call[c].kind \in K \cup {"register"}
    BY DEF AccInv
<1>2. PICK r \in AccCall(E, P, S) :
        /\ call' = [call EXCEPT ![c] = r] /\ r.st = "lookup" /\ r.kind \in K /\ r.user <= Len(users)
        /\ Asked(r, P, S, Mail) /\ Ready(r)
    BY DEF AccBegin
<1>3. UNCHANGED <<users, signed>>
    BY DEF AccBegin
<1>4. users' \in Seq(AccUser(E, P, S)) /\ Unique' /\ Len(users) <= Len(users') /\ r.user <= Len(users')
    BY <1>1, <1>2, <1>3 DEF AccInv, Unique
<1>5. signed' \subseteq (P \cup S) \X (1..Len(users'))
    BY <1>3 DEF AccInv
<1>6. AccInv(E, P, S, Mail, K)'
    BY <1>2, <1>4, <1>5, AccKeeps
<1>7. CallTrue(r, users)
    BY <1>2 DEF CallTrue
<1> QED BY <1>2, <1>3, <1>6, <1>7, LoginsMove

LEMMA LookUpKeeps ==
    ASSUME NEW E, NEW P, NEW S, NEW Mail, NEW K, AccConstants(E, P, S, Mail), AccInv(E, P, S, Mail, K), NEW c \in Calls,
           Logins!LookUp(c)
    PROVE  AccInv(E, P, S, Mail, K)' /\ (OnlyLogins(P, S, Mail, K) /\ LoginsTrue(P, S, Mail) => LoginsTrue(P, S, Mail)')
<1>1. /\ call \in [Calls -> AccCall(E, P, S)] /\ call[c] \in AccCall(E, P, S) /\ Ready(call[c]) /\ Asked(call[c], P, S, Mail)
      /\ call[c].user <= Len(users) /\ users \in Seq(AccUser(E, P, S)) /\ Len(users) \in Nat
      /\ call[c].kind \in K \cup {"register"}
    BY DEF AccInv
<1> DEFINE st == IF Logins!LooksTaken(c) THEN "failed" ELSE "write"
           r == CallAt(call[c], st)
<1>2. /\ call[c].st = "lookup" /\ call[c].kind \in {"register", "update", "import"} /\ UNCHANGED <<users, signed>>
      /\ call' = [call EXCEPT ![c] = r]
    BY <1>1 DEF Logins!LookUp, Logins!Become, CallAt
<1>3. st \in {"failed", "write"}
    OBVIOUS
<1> HIDE DEF st
<1>4. /\ r \in AccCall(E, P, S) /\ SameCall(r, call[c])
      /\ r.st = st /\ r.user = call[c].user /\ r.name = call[c].name
    BY <1>1, <1>3, BecomeMoves
<1> HIDE DEF r
<1>5. Ready(r)
    BY <1>1, <1>2, <1>3, <1>4 DEF Ready, SameCall
<1>6. AccInv(E, P, S, Mail, K)'
    BY <1>1, <1>2, <1>4, <1>5, AccMoves
<1>7. CallTrue(r, users)
    BY <1>2, <1>3, <1>4 DEF CallTrue, SameCall
<1> QED BY <1>2, <1>6, <1>7, LoginsMove

LEMMA MoveKeeps ==
    ASSUME NEW E, NEW P, NEW S, NEW Mail, NEW K, AccConstants(E, P, S, Mail), AccInv(E, P, S, Mail, K), NEW c \in Calls,
           NEW r \in AccCall(E, P, S), call' = [call EXCEPT ![c] = r], UNCHANGED <<users, signed>>,
           SameCall(r, call[c]), r.user <= Len(users), Ready(r),
           OnlyLogins(P, S, Mail, K) /\ LoginsTrue(P, S, Mail) => CallTrue(r, users)
    PROVE  AccInv(E, P, S, Mail, K)' /\ (OnlyLogins(P, S, Mail, K) /\ LoginsTrue(P, S, Mail) => LoginsTrue(P, S, Mail)')
<1>1. AccInv(E, P, S, Mail, K)'
    BY AccMoves
<1> QED BY <1>1, LoginsMove

LEMMA LookUpPhoneKeeps ==
    ASSUME NEW E, NEW P, NEW S, NEW Mail, NEW K, AccConstants(E, P, S, Mail), AccInv(E, P, S, Mail, K), NEW c \in Calls,
           Logins!LookUpPhone(c)
    PROVE  AccInv(E, P, S, Mail, K)' /\ (OnlyLogins(P, S, Mail, K) /\ LoginsTrue(P, S, Mail) => LoginsTrue(P, S, Mail)')
<1>1. /\ call \in [Calls -> AccCall(E, P, S)] /\ call[c] \in AccCall(E, P, S) /\ Ready(call[c]) /\ Asked(call[c], P, S, Mail)
      /\ call[c].user <= Len(users) /\ users \in Seq(AccUser(E, P, S)) /\ Len(users) \in Nat
      /\ call[c].kind \in K \cup {"register"}
    BY DEF AccInv
<1> DEFINE T == Logins!Having("phone", call[c].phone)
<1>2. call[c].st = "lookup" /\ call[c].kind = "phone" /\ UNCHANGED <<users, signed>>
    BY <1>1 DEF Logins!LookUpPhone, Ready
<1>3. T = {v \in 1..Len(users) : call[c].phone # None /\ users[v].phone = call[c].phone} /\ (T # {} => Logins!Only(T) \in T)
    BY Havings DEF Fields
<1>4. CASE T # {}
    <2> DEFINE u == Logins!Only(T)
               r == CallFound(call[c], "found", u)
    <2>1. u \in 1..Len(users) /\ call[c].phone # None /\ users[u].phone = call[c].phone /\ u \in Nat /\ u # 0 /\ u <= Len(users)
        BY <1>1, <1>3, <1>4
    <2>2. call' = [call EXCEPT ![c] = r]
        BY <1>1, <1>4 DEF Logins!LookUpPhone, Logins!Taken, Logins!Found, CallFound
    <2> HIDE DEF u
    <2>3. r \in AccCall(E, P, S) /\ SameCall(r, call[c]) /\ r.st = "found" /\ r.user = u
        BY <1>1, <2>1, FoundMoves
    <2> HIDE DEF r
    <2>4. Ready(r) /\ CallTrue(r, users)
        BY <1>2, <2>1, <2>3 DEF Ready, CallTrue, SameCall
    <2> QED BY <1>2, <2>1, <2>2, <2>3, <2>4, MoveKeeps
<1>5. CASE T = {}
    <2> DEFINE st == IF call[c].open THEN "name" ELSE "failed"
               r == CallAt(call[c], st)
    <2>1. call' = [call EXCEPT ![c] = r]
        BY <1>1, <1>5 DEF Logins!LookUpPhone, Logins!Taken, Logins!Become, CallAt
    <2>2. st \in {"email", "name", "failed"} /\ (st = "failed" => call[c].open = FALSE) /\ (st = "email" => call[c].kind = "google")
        BY <1>1, <1>2 DEF AccCall
    <2> HIDE DEF st
    <2>3. r \in AccCall(E, P, S) /\ SameCall(r, call[c]) /\ r.st = st /\ r.user = call[c].user /\ r.name = call[c].name
        BY <1>1, <2>2, BecomeMoves
    <2> HIDE DEF r
    <2>4. Ready(r)
        BY <1>2, <2>2, <2>3 DEF Ready, SameCall
    <2>5. CallTrue(r, users)
        BY <2>2, <2>3 DEF CallTrue, SameCall
    <2> QED BY <1>1, <1>2, <2>1, <2>3, <2>4, <2>5, MoveKeeps
<1> QED BY <1>4, <1>5

LEMMA LookUpSubKeeps ==
    ASSUME NEW E, NEW P, NEW S, NEW Mail, NEW K, AccConstants(E, P, S, Mail), AccInv(E, P, S, Mail, K), NEW c \in Calls,
           Logins!LookUpSub(c)
    PROVE  AccInv(E, P, S, Mail, K)' /\ (OnlyLogins(P, S, Mail, K) /\ LoginsTrue(P, S, Mail) => LoginsTrue(P, S, Mail)')
<1>1. /\ call \in [Calls -> AccCall(E, P, S)] /\ call[c] \in AccCall(E, P, S) /\ Ready(call[c]) /\ Asked(call[c], P, S, Mail)
      /\ call[c].user <= Len(users) /\ users \in Seq(AccUser(E, P, S)) /\ Len(users) \in Nat
      /\ call[c].kind \in K \cup {"register"}
    BY DEF AccInv
<1> DEFINE T == Logins!Having("sub", call[c].sub)
<1>2. call[c].st = "lookup" /\ call[c].kind = "google" /\ UNCHANGED <<users, signed>>
    BY <1>1 DEF Logins!LookUpSub, Ready
<1>3. T = {v \in 1..Len(users) : call[c].sub # None /\ users[v].sub = call[c].sub} /\ (T # {} => Logins!Only(T) \in T)
    BY Havings DEF Fields
<1>4. CASE T # {}
    <2> DEFINE u == Logins!Only(T)
               r == CallFound(call[c], "found", u)
    <2>1. u \in 1..Len(users) /\ call[c].sub # None /\ users[u].sub = call[c].sub /\ u \in Nat /\ u # 0 /\ u <= Len(users)
        BY <1>1, <1>3, <1>4
    <2>2. call' = [call EXCEPT ![c] = r]
        BY <1>1, <1>4 DEF Logins!LookUpSub, Logins!Taken, Logins!Found, CallFound
    <2> HIDE DEF u
    <2>3. r \in AccCall(E, P, S) /\ SameCall(r, call[c]) /\ r.st = "found" /\ r.user = u
        BY <1>1, <2>1, FoundMoves
    <2> HIDE DEF r
    <2>4. Ready(r) /\ CallTrue(r, users)
        BY <1>2, <2>1, <2>3 DEF Ready, CallTrue, SameCall
    <2> QED BY <1>2, <2>1, <2>2, <2>3, <2>4, MoveKeeps
<1>5. CASE T = {}
    <2> DEFINE st == "email"
               r == CallAt(call[c], st)
    <2>1. call' = [call EXCEPT ![c] = r]
        BY <1>1, <1>5 DEF Logins!LookUpSub, Logins!Taken, Logins!Become, CallAt
    <2>2. st \in {"email", "name", "failed"} /\ (st = "failed" => call[c].open = FALSE) /\ (st = "email" => call[c].kind = "google")
        BY <1>1, <1>2 DEF AccCall
    <2> HIDE DEF st
    <2>3. r \in AccCall(E, P, S) /\ SameCall(r, call[c]) /\ r.st = st /\ r.user = call[c].user /\ r.name = call[c].name
        BY <1>1, <2>2, BecomeMoves
    <2> HIDE DEF r
    <2>4. Ready(r)
        BY <1>2, <2>2, <2>3 DEF Ready, SameCall
    <2>5. CallTrue(r, users)
        BY <2>2, <2>3 DEF CallTrue, SameCall
    <2> QED BY <1>1, <1>2, <2>1, <2>3, <2>4, <2>5, MoveKeeps
<1> QED BY <1>4, <1>5

LEMMA LookUpEmailKeeps ==
    ASSUME NEW E, NEW P, NEW S, NEW Mail, NEW K, AccConstants(E, P, S, Mail), AccInv(E, P, S, Mail, K), NEW c \in Calls,
           Logins!LookUpEmail(c)
    PROVE  AccInv(E, P, S, Mail, K)' /\ (OnlyLogins(P, S, Mail, K) /\ LoginsTrue(P, S, Mail) => LoginsTrue(P, S, Mail)')
<1>1. /\ call \in [Calls -> AccCall(E, P, S)] /\ call[c] \in AccCall(E, P, S) /\ Ready(call[c]) /\ Asked(call[c], P, S, Mail)
      /\ call[c].user <= Len(users) /\ users \in Seq(AccUser(E, P, S)) /\ Len(users) \in Nat
      /\ call[c].kind \in K \cup {"register"}
    BY DEF AccInv
<1> DEFINE T == Logins!Having("email", call[c].email)
<1>2. call[c].st = "email" /\ call[c].kind = "google" /\ UNCHANGED <<users, signed>>
    BY <1>1 DEF Logins!LookUpEmail, Ready
<1>3. T = {v \in 1..Len(users) : call[c].email # None /\ users[v].email = call[c].email} /\ (T # {} => Logins!Only(T) \in T)
    BY Havings DEF Fields
<1>4. CASE T # {}
    <2> DEFINE u == Logins!Only(T)
               r == CallFound(call[c], "link", u)
    <2>1. u \in 1..Len(users) /\ call[c].email # None /\ users[u].email = call[c].email /\ u \in Nat /\ u # 0 /\ u <= Len(users)
        BY <1>1, <1>3, <1>4
    <2>2. call' = [call EXCEPT ![c] = r]
        BY <1>1, <1>4 DEF Logins!LookUpEmail, Logins!Taken, Logins!Found, CallFound
    <2> HIDE DEF u
    <2>3. r \in AccCall(E, P, S) /\ SameCall(r, call[c]) /\ r.st = "link" /\ r.user = u
        BY <1>1, <2>1, FoundMoves
    <2> HIDE DEF r
    <2>4. Ready(r) /\ CallTrue(r, users)
        BY <1>2, <2>1, <2>3 DEF Ready, CallTrue, SameCall
    <2> QED BY <1>2, <2>1, <2>2, <2>3, <2>4, MoveKeeps
<1>5. CASE T = {}
    <2> DEFINE st == IF call[c].open THEN "name" ELSE "failed"
               r == CallAt(call[c], st)
    <2>1. call' = [call EXCEPT ![c] = r]
        BY <1>1, <1>5 DEF Logins!LookUpEmail, Logins!Taken, Logins!Become, CallAt
    <2>2. st \in {"email", "name", "failed"} /\ (st = "failed" => call[c].open = FALSE) /\ (st = "email" => call[c].kind = "google")
        BY <1>1, <1>2 DEF AccCall
    <2> HIDE DEF st
    <2>3. r \in AccCall(E, P, S) /\ SameCall(r, call[c]) /\ r.st = st /\ r.user = call[c].user /\ r.name = call[c].name
        BY <1>1, <2>2, BecomeMoves
    <2> HIDE DEF r
    <2>4. Ready(r)
        BY <1>2, <2>2, <2>3 DEF Ready, SameCall
    <2>5. CallTrue(r, users)
        BY <2>2, <2>3 DEF CallTrue, SameCall
    <2> QED BY <1>1, <1>2, <2>1, <2>3, <2>4, <2>5, MoveKeeps
<1> QED BY <1>4, <1>5

LEMMA MakeNameKeeps ==
    ASSUME NEW E, NEW P, NEW S, NEW Mail, NEW K, AccConstants(E, P, S, Mail), AccInv(E, P, S, Mail, K), NEW c \in Calls,
           Logins!MakeName(c)
    PROVE  AccInv(E, P, S, Mail, K)' /\ (OnlyLogins(P, S, Mail, K) /\ LoginsTrue(P, S, Mail) => LoginsTrue(P, S, Mail)')
<1>1. /\ call \in [Calls -> AccCall(E, P, S)] /\ call[c] \in AccCall(E, P, S) /\ Ready(call[c]) /\ Asked(call[c], P, S, Mail)
      /\ call[c].user <= Len(users) /\ users \in Seq(AccUser(E, P, S)) /\ Len(users) \in Nat
      /\ call[c].kind \in K \cup {"register"}
    BY DEF AccInv
<1>2. PICK n \in Names : call' = [call EXCEPT ![c].st = "write", ![c].name = n] /\ call[c].st = "name" /\ UNCHANGED <<users, signed>>
    BY DEF Logins!MakeName
<1> DEFINE r == CallNamed(call[c], n)
<1>4. call' = [call EXCEPT ![c] = r]
    BY <1>1, <1>2 DEF CallNamed
<1>3. r \in AccCall(E, P, S) /\ SameCall(r, call[c]) /\ r.st = "write" /\ r.user = call[c].user /\ r.name = n
    BY <1>1, NameMoves
<1> HIDE DEF r
<1>5. Ready(r) /\ CallTrue(r, users)
    BY <1>1, <1>2, <1>3 DEF Ready, CallTrue, SameCall
<1> QED BY <1>1, <1>2, <1>3, <1>4, <1>5, MoveKeeps

\* An insert is of values nobody has, or tells which of its values somebody has.
LEMMA CreateKeeps ==
    ASSUME NEW E, NEW P, NEW S, NEW Mail, NEW K, AccConstants(E, P, S, Mail), AccInv(E, P, S, Mail, K), NEW c \in Calls,
           Logins!Create(c)
    PROVE  AccInv(E, P, S, Mail, K)' /\ (OnlyLogins(P, S, Mail, K) /\ LoginsTrue(P, S, Mail) => LoginsTrue(P, S, Mail)')
<1>1. /\ call \in [Calls -> AccCall(E, P, S)] /\ call[c] \in AccCall(E, P, S) /\ Ready(call[c]) /\ Asked(call[c], P, S, Mail)
      /\ call[c].user <= Len(users) /\ users \in Seq(AccUser(E, P, S)) /\ Len(users) \in Nat
      /\ call[c].kind \in K \cup {"register"}
    BY DEF AccInv
<1> DEFINE row == Logins!RowOf(c)
           clashes == Logins!Clashes(row, 0)
<1>2. call[c].st = "write" /\ call[c].kind \in {"register", "phone", "google"} /\ UNCHANGED signed
    BY DEF Logins!Create
<1>3. /\ row \in AccUser(E, P, S) /\ row.name = call[c].name /\ row.email = call[c].email
      /\ row.phone = call[c].phone /\ row.sub = call[c].sub
    BY <1>1, <1>2 DEF Logins!RowOf, AccUser, AccCall, Ready
<1>4. /\ row["name"] = row.name /\ row["email"] = row.email /\ row["phone"] = row.phone /\ row["sub"] = row.sub
    OBVIOUS
<1>5. \A f \in Fields : f \in clashes <=> \E v \in 1..Len(users) : row[f] # None /\ users[v][f] = row[f]
    <2> HIDE DEF row
    <2> SUFFICES ASSUME NEW f \in Fields
                 PROVE  f \in clashes <=> \E v \in 1..Len(users) : row[f] # None /\ users[v][f] = row[f]
        OBVIOUS
    <2>1. f \in clashes <=> Logins!Having(f, row[f]) \ {0} # {}
        BY DEF Logins!Clashes, Fields
    <2>2. Logins!Having(f, row[f]) = {v \in 1..Len(users) : row[f] # None /\ users[v][f] = row[f]}
        BY Havings
    <2> HIDE DEF clashes
    <2> QED BY <1>1, <2>1, <2>2
<1>6. clashes \subseteq Fields
    BY DEF Logins!Clashes, Fields
<1>7. CASE clashes = {}
    <2> DEFINE r == CallFound(call[c], "found", Len(users) + 1)
    <2>1. users' = Append(users, row) /\ call' = [call EXCEPT ![c] = r]
        BY <1>1, <1>7 DEF Logins!Create, Logins!Found, CallFound
    <2>2. r \in AccCall(E, P, S) /\ SameCall(r, call[c]) /\ r.st = "found" /\ r.user = Len(users) + 1
        BY <1>1, FoundMoves
    <2> HIDE DEF r, row, clashes
    <2>3. \A f \in Fields, v \in 1..Len(users) : row[f] = None \/ users[v][f] # row[f]
        BY <1>5, <1>7
    <2>4. /\ users' \in Seq(AccUser(E, P, S)) /\ Len(users') = Len(users) + 1 /\ users'[Len(users) + 1] = row
          /\ \A v \in 1..Len(users) : users'[v] = users[v]
          /\ \A v, w \in 1..Len(users'), f \in Fields : users'[v][f] = users'[w][f] => v = w \/ users'[v][f] = None
        BY <1>1, <1>3, <2>1, <2>3, RowJoins DEF AccInv
    <2>5. Unique' /\ Len(users) <= Len(users') /\ r.user <= Len(users') /\ 1..Len(users) \subseteq 1..Len(users')
        BY <1>1, <2>2, <2>4 DEF Unique
    <2>6. Asked(r, P, S, Mail) /\ Ready(r) /\ r.kind \in K \cup {"register"}
        BY <1>1, <1>2, <2>2 DEF Asked, Ready, SameCall
    <2>7. signed' \subseteq (P \cup S) \X (1..Len(users')) /\ signed' \subseteq (P \cup S) \X (1..Len(users))
        BY <1>2, <2>5 DEF AccInv
    <2>8. AccInv(E, P, S, Mail, K)'
        BY <2>1, <2>2, <2>4, <2>5, <2>6, <2>7, AccKeeps
    <2>9. RowsKept(users, users')
        BY <2>4, <2>5 DEF RowsKept
    <2>10. CallTrue(r, users')
        BY <1>3, <2>2, <2>4 DEF CallTrue, SameCall
    <2>11. row.sub # None => row.email = Mail[row.sub]
        BY <1>1, <1>2, <1>3 DEF Asked
    <2>12. ASSUME LoginsTrue(P, S, Mail) PROVE RowsTrue(Mail, users')
        <3>1. \A v \in 1..Len(users') : v = Len(users) + 1 \/ v \in 1..Len(users)
            BY <1>1, <2>4
        <3> QED BY <2>4, <2>11, <2>12, <3>1 DEF RowsTrue, LoginsTrue
    <2> QED BY <1>2, <2>1, <2>7, <2>8, <2>9, <2>10, <2>12, LoginsKeep
<1>8. CASE clashes # {}
    <2> DEFINE st == Logins!AfterClash(c)
               b == "name" \in clashes
               r == CallClashed(call[c], st, b)
    <2>1. call' = [call EXCEPT ![c] = r] /\ UNCHANGED users
        BY <1>1, <1>8 DEF Logins!Create, CallClashed
    <2>2. st = IF call[c].kind \in {"phone", "google"} THEN "again" ELSE "failed"
        BY DEF Logins!AfterClash
    <2>3. st \in {"again", "failed"} /\ b \in BOOLEAN /\ ("name" \in clashes => b = TRUE)
        BY <2>2
    <2> HIDE DEF st, b
    <2>4. /\ r \in AccCall(E, P, S) /\ SameCall(r, call[c]) /\ r.st = st /\ r.user = call[c].user /\ r.name = call[c].name
          /\ r.clash = b
        BY <1>1, <2>3, ClashMoves
    <2> HIDE DEF r, clashes, row
    <2>5. Ready(r)
        BY <1>1, <1>2, <2>2, <2>4 DEF Ready, SameCall
    <2>6. PICK f \in Fields : f \in clashes
        BY <1>6, <1>8
    <2>7. PICK v \in 1..Len(users) : row[f] # None /\ users[v][f] = row[f]
        BY <1>5, <2>6
    <2>8. f = "name" => r.clash = TRUE
        BY <2>3, <2>4, <2>6
    <2>9. r.kind = "phone" => r.clash = TRUE \/ users[v].phone = r.phone
        BY <1>1, <1>3, <1>4, <2>4, <2>7, <2>8 DEF Asked, Fields, SameCall
    <2>10. r.kind = "google" => r.clash = TRUE \/ users[v].sub = r.sub \/ (r.email # None /\ users[v].email = r.email)
        BY <1>1, <1>3, <1>4, <2>4, <2>7, <2>8 DEF Asked, Fields, SameCall
    <2>11. CallTrue(r, users)
        BY <1>2, <2>2, <2>4, <2>9, <2>10 DEF CallTrue, SameCall
    <2> QED BY <1>1, <1>2, <2>1, <2>4, <2>5, <2>11, MoveKeeps
<1> QED BY <1>7, <1>8

\* After a clash, the value that clashed is somebody's still.
LEMMA LookAgainKeeps ==
    ASSUME NEW E, NEW P, NEW S, NEW Mail, NEW K, AccConstants(E, P, S, Mail), AccInv(E, P, S, Mail, K), NEW c \in Calls,
           Logins!LookAgain(c)
    PROVE  AccInv(E, P, S, Mail, K)' /\ (OnlyLogins(P, S, Mail, K) /\ LoginsTrue(P, S, Mail) => LoginsTrue(P, S, Mail)')
<1>1. /\ call \in [Calls -> AccCall(E, P, S)] /\ call[c] \in AccCall(E, P, S) /\ Ready(call[c]) /\ Asked(call[c], P, S, Mail)
      /\ call[c].user <= Len(users) /\ users \in Seq(AccUser(E, P, S)) /\ Len(users) \in Nat
      /\ call[c].kind \in K \cup {"register"}
    BY DEF AccInv
<1> DEFINE W == Logins!Winner(c)
           M == Logins!Having("email", call[c].email)
<1>2. call[c].st = "again" /\ call[c].kind \in {"phone", "google"} /\ UNCHANGED <<users, signed>>
    BY <1>1 DEF Logins!LookAgain, Ready
<1>3. /\ call[c].kind = "phone" => W = {v \in 1..Len(users) : call[c].phone # None /\ users[v].phone = call[c].phone}
      /\ call[c].kind = "google" => W = {v \in 1..Len(users) : call[c].sub # None /\ users[v].sub = call[c].sub}
      /\ M = {v \in 1..Len(users) : call[c].email # None /\ users[v].email = call[c].email}
      /\ (W # {} => Logins!Only(W) \in W) /\ (M # {} => Logins!Only(M) \in M)
    BY <1>2, Havings DEF Fields, Logins!Winner
<1>4. /\ call[c].kind = "phone" => call[c].phone # None /\ M = {}
      /\ call[c].kind = "google" => call[c].sub # None
    BY <1>1, <1>3 DEF Asked, AccConstants
<1>5. ASSUME NEW T \in {W, M}, NEW st \in {"found", "link"}, T # {}, st = "found" <=> T = W,
             st = "link" => call[c].kind = "google",
             call' = [call EXCEPT ![c] = CallFound(call[c], st, Logins!Only(T))]
      PROVE  AccInv(E, P, S, Mail, K)' /\ (OnlyLogins(P, S, Mail, K) /\ LoginsTrue(P, S, Mail) => LoginsTrue(P, S, Mail)')
    <2> DEFINE u == Logins!Only(T)
               r == CallFound(call[c], st, u)
    <2>1. u \in T /\ u \in 1..Len(users) /\ u \in Nat /\ u # 0 /\ u <= Len(users)
        BY <1>1, <1>2, <1>3, <1>5
    <2>2. /\ st = "found" /\ call[c].kind = "phone" => users[u].phone = call[c].phone
          /\ st = "found" /\ call[c].kind = "google" => users[u].sub = call[c].sub
          /\ st = "link" => call[c].email # None /\ users[u].email = call[c].email
        BY <1>3, <1>5, <2>1
    <2>3. call' = [call EXCEPT ![c] = r]
        BY <1>5
    <2> HIDE DEF u
    <2>4. r \in AccCall(E, P, S) /\ SameCall(r, call[c]) /\ r.st = st /\ r.user = u
        BY <1>1, <2>1, FoundMoves
    <2> HIDE DEF r, W, M
    <2>5. Ready(r) /\ CallTrue(r, users)
        BY <1>2, <1>5, <2>1, <2>2, <2>4 DEF Ready, CallTrue, SameCall
    <2> QED BY <1>2, <2>1, <2>3, <2>4, <2>5, MoveKeeps
<1>6. CASE W # {}
    <2>1. call' = [call EXCEPT ![c] = CallFound(call[c], "found", Logins!Only(W))]
        BY <1>1, <1>6 DEF Logins!LookAgain, Logins!Found, CallFound
    <2> HIDE DEF W, M
    <2> QED BY <1>5, <1>6, <2>1
<1>7. CASE W = {} /\ call[c].kind = "google" /\ M # {}
    <2>1. call' = [call EXCEPT ![c] = CallFound(call[c], "link", Logins!Only(M))]
        BY <1>1, <1>7 DEF Logins!LookAgain, Logins!Found, CallFound
    <2> HIDE DEF W, M
    <2> QED BY <1>5, <1>7, <2>1
<1>8. CASE W = {} /\ M = {}
    <2> DEFINE r == CallAt(call[c], "failed")
    <2>1. call' = [call EXCEPT ![c] = r]
        BY <1>1, <1>8 DEF Logins!LookAgain, Logins!Become, CallAt
    <2>2. r \in AccCall(E, P, S) /\ SameCall(r, call[c]) /\ r.st = "failed" /\ r.user = call[c].user /\ r.clash = call[c].clash
        BY <1>1, BecomeMoves
    <2> HIDE DEF r, W, M
    <2>3. Ready(r)
        BY <1>1, <1>2, <2>2 DEF Ready, SameCall
    <2>4. ASSUME LoginsTrue(P, S, Mail) PROVE CallTrue(r, users)
        <3>1. CallTrue(call[c], users)
            BY <2>4 DEF LoginsTrue
        <3>2. CASE call[c].kind = "phone"
            <4>1. call[c].clash = TRUE
                BY <1>2, <1>3, <1>4, <1>8, <3>1, <3>2 DEF CallTrue
            <4> QED BY <2>2, <4>1 DEF CallTrue
        <3>3. CASE call[c].kind = "google"
            <4>1. call[c].clash = TRUE
                BY <1>2, <1>3, <1>4, <1>8, <3>1, <3>3 DEF CallTrue
            <4> QED BY <2>2, <4>1 DEF CallTrue
        <3> QED BY <1>2, <3>2, <3>3
    <2> QED BY <1>1, <1>2, <2>1, <2>2, <2>3, <2>4, MoveKeeps
<1>9. call[c].kind # "google" => M = {}
    BY <1>2, <1>4
<1> HIDE DEF W, M
<1> QED BY <1>2, <1>6, <1>7, <1>8, <1>9

\* Nobody else can have the account: he would have its email, which is this user's.
LEMMA LinkKeeps ==
    ASSUME NEW E, NEW P, NEW S, NEW Mail, NEW K, AccConstants(E, P, S, Mail), AccInv(E, P, S, Mail, K), NEW c \in Calls,
           Logins!Link(c)
    PROVE  AccInv(E, P, S, Mail, K)' /\ (OnlyLogins(P, S, Mail, K) /\ LoginsTrue(P, S, Mail) => LoginsTrue(P, S, Mail)')
<1>1. /\ call \in [Calls -> AccCall(E, P, S)] /\ call[c] \in AccCall(E, P, S) /\ Ready(call[c]) /\ Asked(call[c], P, S, Mail)
      /\ call[c].user <= Len(users) /\ users \in Seq(AccUser(E, P, S)) /\ Len(users) \in Nat
      /\ call[c].kind \in K \cup {"register"}
    BY DEF AccInv
<1> DEFINE u == call[c].user
           T == Logins!Having("sub", call[c].sub) \ {u}
<1>2. call[c].st = "link" /\ call[c].kind = "google" /\ UNCHANGED signed /\ u \in 1..Len(users) /\ u # 0
    BY <1>1 DEF Logins!Link, Ready, AccCall
<1>3. call[c].sub \in S /\ call[c].sub # None /\ call[c].email = Mail[call[c].sub]
    BY <1>1, <1>2 DEF Asked, AccConstants
<1>4. T = {v \in 1..Len(users) : users[v].sub = call[c].sub} \ {u}
    BY <1>3, Havings DEF Fields
<1>5. ASSUME LoginsTrue(P, S, Mail) PROVE call[c].email # None /\ users[u].email = call[c].email
    BY <1>2, <1>5 DEF LoginsTrue, CallTrue
<1>6. CASE T # {}
    <2> DEFINE r == CallAt(call[c], "failed")
    <2>1. call' = [call EXCEPT ![c] = r] /\ UNCHANGED users
        BY <1>1, <1>6 DEF Logins!Link, Logins!Become, CallAt
    <2>2. r \in AccCall(E, P, S) /\ SameCall(r, call[c]) /\ r.st = "failed" /\ r.user = u
        BY <1>1, BecomeMoves
    <2> HIDE DEF r
    <2>3. Ready(r)
        BY <1>1, <1>2, <2>2 DEF Ready, SameCall
    <2>4. ASSUME LoginsTrue(P, S, Mail) PROVE FALSE
        <3>1. PICK v \in 1..Len(users) : v # u /\ users[v].sub = call[c].sub
            BY <1>4, <1>6
        <3>2. users[v].email = users[u].email /\ users[u].email # None
            BY <1>3, <1>5, <2>4, <3>1 DEF LoginsTrue, RowsTrue
        <3>3. users[v]["email"] = users[u]["email"] /\ users[v]["email"] # None /\ "email" \in Fields
            BY <3>2 DEF Fields
        <3> QED BY <1>2, <3>1, <3>3 DEF AccInv, Unique
    <2> QED BY <1>1, <1>2, <2>1, <2>2, <2>3, <2>4, MoveKeeps
<1>7. CASE T = {}
    <2> DEFINE r == CallAt(call[c], "found")
               row == [users[u] EXCEPT !.sub = call[c].sub]
    <2>1. call' = [call EXCEPT ![c] = r] /\ users' = [users EXCEPT ![u] = row]
        BY <1>1, <1>7 DEF Logins!Link, Logins!Become, Logins!Linked, CallAt
    <2>2. r \in AccCall(E, P, S) /\ SameCall(r, call[c]) /\ r.st = "found" /\ r.user = u
        BY <1>1, BecomeMoves
    <2>3. users[u] \in AccUser(E, P, S)
        BY <1>1, <1>2
    <2>4. /\ row \in AccUser(E, P, S) /\ row.name = users[u].name /\ row.email = users[u].email
          /\ row.phone = users[u].phone /\ row.sub = call[c].sub
        BY <1>3, <2>3 DEF AccUser
    <2> HIDE DEF r, row
    <2>5. \A f \in Fields, v \in 1..Len(users) : v # u => row[f] = None \/ users[v][f] # row[f]
        BY <1>2, <1>4, <1>7, <2>4 DEF AccInv, Unique, Fields
    <2>6. /\ users' \in Seq(AccUser(E, P, S)) /\ Len(users') = Len(users) /\ users'[u] = row
          /\ \A v \in 1..Len(users) : v # u => users'[v] = users[v]
          /\ \A v, w \in 1..Len(users'), f \in Fields : users'[v][f] = users'[w][f] => v = w \/ users'[v][f] = None
        <3>1. users \in Seq(AccUser(E, P, S)) /\ Unique /\ u \in 1..Len(users) /\ row \in AccUser(E, P, S)
            BY <1>1, <1>2, <2>4 DEF AccInv
        <3> HIDE DEF u
        <3>2. users' = [users EXCEPT ![u] = row]
            BY <2>1
        <3> QED BY <2>5, <3>1, <3>2, RowStands
    <2>7. Unique' /\ Len(users) <= Len(users') /\ r.user <= Len(users') /\ signed' \subseteq (P \cup S) \X (1..Len(users'))
        BY <1>1, <1>2, <2>2, <2>6 DEF Unique, AccInv
    <2>8. Asked(r, P, S, Mail) /\ Ready(r) /\ r.kind \in K \cup {"register"}
        BY <1>1, <1>2, <2>2 DEF Asked, Ready, SameCall
    <2>9. AccInv(E, P, S, Mail, K)'
        BY <2>1, <2>2, <2>6, <2>7, <2>8, AccKeeps
    <2>10. ASSUME OnlyLogins(P, S, Mail, K), LoginsTrue(P, S, Mail) PROVE RowsKept(users, users')
        <3>1. users[u].sub # None => users[u].sub = call[c].sub
            <4>1. users[u].sub # None => users[u].sub \in S /\ users[u].email = Mail[users[u].sub]
                BY <1>2, <2>3, <2>10 DEF LoginsTrue, RowsTrue, AccUser
            <4> QED BY <1>3, <1>5, <2>10, <4>1 DEF OnlyLogins
        <3> QED BY <2>4, <2>6, <2>7, <3>1 DEF RowsKept
    <2>11. ASSUME LoginsTrue(P, S, Mail) PROVE RowsTrue(Mail, users') /\ CallTrue(r, users')
        <3>1. RowsTrue(Mail, users')
            BY <1>3, <1>5, <2>4, <2>6, <2>11 DEF LoginsTrue, RowsTrue
        <3>2. CallTrue(r, users')
            BY <1>2, <2>2, <2>4, <2>6 DEF CallTrue, SameCall
        <3> QED BY <3>1, <3>2
    <2>12. signed' \subseteq (P \cup S) \X (1..Len(users))
        BY <1>2 DEF AccInv
    <2> QED BY <1>2, <2>1, <2>9, <2>10, <2>11, <2>12, LoginsKeep
<1> QED BY <1>6, <1>7

LEMMA UpdateKeeps ==
    ASSUME NEW E, NEW P, NEW S, NEW Mail, NEW K, AccConstants(E, P, S, Mail), AccInv(E, P, S, Mail, K), NEW c \in Calls,
           Logins!Update(c)
    PROVE  AccInv(E, P, S, Mail, K)' /\ (OnlyLogins(P, S, Mail, K) /\ LoginsTrue(P, S, Mail) => LoginsTrue(P, S, Mail)')
<1>1. /\ call \in [Calls -> AccCall(E, P, S)] /\ call[c] \in AccCall(E, P, S) /\ Ready(call[c]) /\ Asked(call[c], P, S, Mail)
      /\ call[c].user <= Len(users) /\ users \in Seq(AccUser(E, P, S)) /\ Len(users) \in Nat
      /\ call[c].kind \in K \cup {"register"}
    BY DEF AccInv
<1> DEFINE u == call[c].user
           row == [users[u] EXCEPT !.name = IF call[c]["name"] = None THEN users[u]["name"] ELSE call[c]["name"],
                                   !.email = IF call[c]["email"] = None THEN users[u]["email"] ELSE call[c]["email"],
                                   !.phone = IF call[c]["phone"] = None THEN users[u]["phone"] ELSE call[c]["phone"]]
<1>2. call[c].st = "write" /\ call[c].kind = "update" /\ UNCHANGED signed /\ u \in 1..Len(users)
    BY <1>1 DEF Logins!Update, Ready, AccCall
<1>3. ~OnlyLogins(P, S, Mail, K)
    BY <1>1, <1>2 DEF OnlyLogins
<1>4. CASE call' = [call EXCEPT ![c] = CallAt(call[c], "failed")] /\ UNCHANGED users
    <2> DEFINE r == CallAt(call[c], "failed")
    <2>2. r \in AccCall(E, P, S) /\ SameCall(r, call[c]) /\ r.st = "failed" /\ r.user = call[c].user
        BY <1>1, BecomeMoves
    <2>1. call' = [call EXCEPT ![c] = r]
        BY <1>4
    <2> HIDE DEF r
    <2>3. Ready(r) /\ CallTrue(r, users)
        BY <1>1, <1>2, <2>2 DEF Ready, CallTrue, SameCall
    <2> QED BY <1>1, <1>2, <1>4, <2>1, <2>2, <2>3, MoveKeeps
<1>5. CASE /\ Logins!Clashes(row, u) = {} /\ users' = [users EXCEPT ![u] = row]
           /\ call' = [call EXCEPT ![c] = CallAt(call[c], "found")]
    <2> DEFINE r == CallAt(call[c], "found")
    <2>1. call' = [call EXCEPT ![c] = r]
        BY <1>5
    <2>2. r \in AccCall(E, P, S) /\ SameCall(r, call[c]) /\ r.st = "found" /\ r.user = u
        BY <1>1, BecomeMoves
    <2>3. row \in AccUser(E, P, S) /\ \A f \in Fields, v \in 1..Len(users) : v # u => row[f] = None \/ users[v][f] # row[f]
        <3>1. users[u] \in AccUser(E, P, S)
            BY <1>1, <1>2
        <3>2. row \in AccUser(E, P, S)
            BY ZenonT(60), <1>1, <3>1 DEF AccUser, AccCall
        <3> HIDE DEF row
        <3>3. \A f \in Fields, v \in 1..Len(users) : v # u => row[f] = None \/ users[v][f] # row[f]
            BY <1>5 DEF Logins!Clashes, Logins!Having, Logins!Ids, Fields
        <3> QED BY <3>2, <3>3
    <2> HIDE DEF r, row
    <2>4. /\ users' \in Seq(AccUser(E, P, S)) /\ Len(users') = Len(users) /\ users'[u] = row
          /\ \A v \in 1..Len(users) : v # u => users'[v] = users[v]
          /\ \A v, w \in 1..Len(users'), f \in Fields : users'[v][f] = users'[w][f] => v = w \/ users'[v][f] = None
        <3>1. users \in Seq(AccUser(E, P, S)) /\ Unique
            BY <1>1 DEF AccInv
        <3>2. users' = [users EXCEPT ![u] = row] /\ u \in 1..Len(users)
            BY <1>2, <1>5
        <3> HIDE DEF u
        <3> QED BY <2>3, <3>1, <3>2, RowStands
    <2>5. Unique' /\ Len(users) <= Len(users') /\ r.user <= Len(users') /\ signed' \subseteq (P \cup S) \X (1..Len(users'))
        BY <1>1, <1>2, <2>2, <2>4 DEF Unique, AccInv
    <2>6. Asked(r, P, S, Mail) /\ Ready(r) /\ r.kind \in K \cup {"register"}
        BY <1>1, <1>2, <2>2 DEF Asked, Ready, SameCall
    <2>7. AccInv(E, P, S, Mail, K)'
        BY <2>1, <2>2, <2>4, <2>5, <2>6, AccKeeps
    <2> QED BY <1>3, <2>7
<1> HIDE DEF row
<1>6. \/ Logins!Clashes(row, u) = {} /\ users' = [users EXCEPT ![u] = row] /\ Logins!Become(c, "found")
      \/ Logins!Become(c, "failed") /\ UNCHANGED users
    BY DEF Logins!Update, row
<1> QED BY <1>4, <1>5, <1>6 DEF Logins!Become, CallAt

LEMMA ImportKeeps ==
    ASSUME NEW E, NEW P, NEW S, NEW Mail, NEW K, AccConstants(E, P, S, Mail), AccInv(E, P, S, Mail, K), NEW c \in Calls,
           Logins!Import(c)
    PROVE  AccInv(E, P, S, Mail, K)' /\ (OnlyLogins(P, S, Mail, K) /\ LoginsTrue(P, S, Mail) => LoginsTrue(P, S, Mail)')
<1>1. /\ call \in [Calls -> AccCall(E, P, S)] /\ call[c] \in AccCall(E, P, S) /\ Ready(call[c]) /\ Asked(call[c], P, S, Mail)
      /\ call[c].user <= Len(users) /\ users \in Seq(AccUser(E, P, S)) /\ Len(users) \in Nat
      /\ call[c].kind \in K \cup {"register"}
    BY DEF AccInv
<1> DEFINE T == Logins!Having("email", call[c].email)
           row == [Logins!RowOf(c) EXCEPT !.home = FALSE]
<1>2. call[c].st = "write" /\ call[c].kind = "import" /\ UNCHANGED signed /\ call[c].name \in Names
    BY <1>1 DEF Logins!Import, Ready
<1>3. ~OnlyLogins(P, S, Mail, K)
    BY <1>1, <1>2 DEF OnlyLogins
<1>4. CASE call' = [call EXCEPT ![c] = CallAt(call[c], "failed")] /\ UNCHANGED users
    <2> DEFINE r == CallAt(call[c], "failed")
    <2>2. r \in AccCall(E, P, S) /\ SameCall(r, call[c]) /\ r.st = "failed" /\ r.user = call[c].user
        BY <1>1, BecomeMoves
    <2>1. call' = [call EXCEPT ![c] = r]
        BY <1>4
    <2> HIDE DEF r
    <2>3. Ready(r) /\ CallTrue(r, users)
        BY <1>1, <1>2, <2>2 DEF Ready, CallTrue, SameCall
    <2> QED BY <1>1, <1>2, <1>4, <2>1, <2>2, <2>3, MoveKeeps
<1>5. T = {v \in 1..Len(users) : call[c].email # None /\ users[v].email = call[c].email} /\ (T # {} => Logins!Only(T) \in T)
    BY Havings DEF Fields
<1>6. ASSUME Logins!Having("name", call[c].name) \ T = {} PROVE \A v \in 1..Len(users) : users[v].name = call[c].name => v \in T \/ call[c].name = None
    BY <1>6, Havings DEF Fields
<1>7. CASE /\ Logins!Having("name", call[c].name) \ T = {} /\ T # {}
           /\ users' = [users EXCEPT ![Logins!Only(T)].name = call[c].name]
           /\ call' = [call EXCEPT ![c] = CallAt(call[c], "found")]
    <2> DEFINE r == CallAt(call[c], "found")
               u == Logins!Only(T)
               now == [users[u] EXCEPT !.name = call[c].name]
    <2>1. call' = [call EXCEPT ![c] = r]
        BY <1>7
    <2>2. r \in AccCall(E, P, S) /\ SameCall(r, call[c]) /\ r.st = "found" /\ r.user = call[c].user
        BY <1>1, BecomeMoves
    <2>8. u \in 1..Len(users) /\ \A v \in T : v = u
        <3>1. u \in T /\ \A v \in T : users[v]["email"] = users[u]["email"] /\ users[u]["email"] # None
            BY <1>5, <1>7
        <3> HIDE DEF u
        <3> QED BY <1>5, <3>1 DEF AccInv, Unique, Fields
    <2>3. now \in AccUser(E, P, S) /\ \A f \in Fields, v \in 1..Len(users) : v # u => now[f] = None \/ users[v][f] # now[f]
        <3>1. users[u] \in AccUser(E, P, S)
            BY <1>1, <2>8
        <3> HIDE DEF u
        <3>2. /\ now \in AccUser(E, P, S) /\ now["name"] = call[c].name /\ now["email"] = users[u]["email"]
              /\ now["phone"] = users[u]["phone"] /\ now["sub"] = users[u]["sub"]
            BY <1>2, <3>1 DEF AccUser
        <3> HIDE DEF now
        <3>3. ASSUME NEW f \in Fields, NEW v \in 1..Len(users), v # u PROVE now[f] = None \/ users[v][f] # now[f]
            <4>1. CASE f = "name"
                BY <1>6, <1>7, <2>8, <3>2, <3>3, <4>1
            <4>2. CASE f # "name"
                BY <2>8, <3>2, <3>3, <4>2 DEF AccInv, Unique, Fields
            <4> QED BY <4>1, <4>2
        <3> QED BY <3>2, <3>3
    <2> HIDE DEF r
    <2>9. users' = [users EXCEPT ![u] = now]
        BY <1>7
    <2> HIDE DEF now
    <2>4. /\ users' \in Seq(AccUser(E, P, S)) /\ Len(users') = Len(users) /\ users'[u] = now
          /\ \A v \in 1..Len(users) : v # u => users'[v] = users[v]
          /\ \A v, w \in 1..Len(users'), f \in Fields : users'[v][f] = users'[w][f] => v = w \/ users'[v][f] = None
        <3>1. users \in Seq(AccUser(E, P, S)) /\ Unique
            BY <1>1 DEF AccInv
        <3>2. users' = [users EXCEPT ![u] = now] /\ u \in 1..Len(users)
            BY <2>8, <2>9
        <3> HIDE DEF u
        <3> QED BY <2>3, <3>1, <3>2, RowStands
    <2>5. Unique' /\ Len(users) <= Len(users') /\ r.user <= Len(users') /\ signed' \subseteq (P \cup S) \X (1..Len(users'))
        BY <1>1, <1>2, <2>2, <2>4 DEF Unique, AccInv
    <2>6. Asked(r, P, S, Mail) /\ Ready(r) /\ r.kind \in K \cup {"register"}
        BY <1>1, <1>2, <2>2 DEF Asked, Ready, SameCall
    <2>7. AccInv(E, P, S, Mail, K)'
        BY <2>1, <2>2, <2>4, <2>5, <2>6, AccKeeps
    <2> QED BY <1>3, <2>7
<1>8. CASE /\ Logins!Having("name", call[c].name) \ T = {} /\ T = {} /\ users' = Append(users, row)
           /\ call' = [call EXCEPT ![c] = CallAt(call[c], "found")]
    <2> DEFINE r == CallAt(call[c], "found")
    <2>1. call' = [call EXCEPT ![c] = r]
        BY <1>8
    <2>2. r \in AccCall(E, P, S) /\ SameCall(r, call[c]) /\ r.st = "found" /\ r.user = call[c].user
        BY <1>1, BecomeMoves
    <2>3. /\ row \in AccUser(E, P, S) /\ row["name"] = call[c].name /\ row["email"] = call[c].email
          /\ row["phone"] = call[c].phone /\ row["sub"] = call[c].sub
        BY <1>1, <1>2 DEF Logins!RowOf, AccUser, AccCall
    <2> HIDE DEF r, row
    <2>8. \A f \in Fields, v \in 1..Len(users) : row[f] = None \/ users[v][f] # row[f]
        <3> SUFFICES ASSUME NEW f \in Fields, NEW v \in 1..Len(users), row[f] # None PROVE users[v][f] # row[f]
            OBVIOUS
        <3>1. CASE f = "name"
            BY <1>6, <1>8, <2>3, <3>1
        <3>2. CASE f = "email"
            BY <1>5, <1>8, <2>3, <3>2
        <3>3. f # "phone" /\ f # "sub"
            BY <1>1, <1>2, <2>3 DEF Asked
        <3> QED BY <3>1, <3>2, <3>3 DEF Fields
    <2>4. /\ users' \in Seq(AccUser(E, P, S)) /\ Len(users') = Len(users) + 1 /\ users'[Len(users) + 1] = row
          /\ \A v \in 1..Len(users) : users'[v] = users[v]
          /\ \A v, w \in 1..Len(users'), f \in Fields : users'[v][f] = users'[w][f] => v = w \/ users'[v][f] = None
        BY <1>1, <1>8, <2>3, <2>8, RowJoins DEF AccInv
    <2>9. 1..Len(users) \subseteq 1..Len(users') /\ call[c].user \in Nat
        BY <1>1, <2>4 DEF AccCall
    <2>5. Unique' /\ Len(users) <= Len(users') /\ r.user <= Len(users') /\ signed' \subseteq (P \cup S) \X (1..Len(users'))
        BY <1>1, <1>2, <2>2, <2>4, <2>9 DEF Unique, AccInv
    <2>6. Asked(r, P, S, Mail) /\ Ready(r) /\ r.kind \in K \cup {"register"}
        BY <1>1, <1>2, <2>2 DEF Asked, Ready, SameCall
    <2>7. AccInv(E, P, S, Mail, K)'
        BY <2>1, <2>2, <2>4, <2>5, <2>6, AccKeeps
    <2> QED BY <1>3, <2>7
<1> HIDE DEF row, T
<1>9. \/ Logins!Become(c, "failed") /\ UNCHANGED users
      \/ /\ Logins!Having("name", call[c].name) \ T = {} /\ Logins!Become(c, "found")
         /\ users' = IF T # {} THEN [users EXCEPT ![Logins!Only(T)].name = call[c].name] ELSE Append(users, row)
    BY DEF Logins!Import, row, T
<1> QED BY <1>4, <1>7, <1>8, <1>9 DEF Logins!Become, CallAt

LEMMA AnswerKeeps ==
    ASSUME NEW E, NEW P, NEW S, NEW Mail, NEW K, AccConstants(E, P, S, Mail), AccInv(E, P, S, Mail, K), NEW c \in Calls,
           Logins!Answer(c)
    PROVE  AccInv(E, P, S, Mail, K)' /\ (OnlyLogins(P, S, Mail, K) /\ LoginsTrue(P, S, Mail) => LoginsTrue(P, S, Mail)')
<1>1. /\ call \in [Calls -> AccCall(E, P, S)] /\ call[c] \in AccCall(E, P, S) /\ Ready(call[c]) /\ Asked(call[c], P, S, Mail)
      /\ call[c].user <= Len(users) /\ users \in Seq(AccUser(E, P, S)) /\ Len(users) \in Nat
      /\ call[c].kind \in K \cup {"register"}
    BY DEF AccInv
<1> DEFINE r == Logins!Idle
           who == IF call[c].kind = "phone" THEN call[c].phone ELSE call[c].sub
<1>2. /\ call[c].st \in {"found", "failed"} /\ call' = [call EXCEPT ![c] = r] /\ UNCHANGED users
      /\ signed' = IF call[c].st = "found" /\ call[c].kind \in {"phone", "google"}
                     THEN signed \cup {<<who, call[c].user>>} ELSE signed
    BY DEF Logins!Answer
<1>3. /\ r \in AccCall(E, P, S) /\ Asked(r, P, S, Mail) /\ Ready(r) /\ r.kind = "register" /\ r.user = 0 /\ r.st = "idle"
    BY DEF Logins!Idle, AccCall, Asked, Ready
<1>4. call[c].st = "found" /\ call[c].kind \in {"phone", "google"} => call[c].user \in 1..Len(users) /\ who \in P \cup S
    BY <1>1 DEF Asked, Ready, AccCall
<1>5. signed' \subseteq (P \cup S) \X (1..Len(users)) /\ signed' \subseteq (P \cup S) \X (1..Len(users'))
    BY <1>2, <1>4 DEF AccInv
<1> HIDE DEF r
<1>6. users' \in Seq(AccUser(E, P, S)) /\ Unique' /\ Len(users) <= Len(users') /\ r.user <= Len(users')
    BY <1>1, <1>2, <1>3 DEF AccInv, Unique
<1>7. AccInv(E, P, S, Mail, K)'
    BY <1>2, <1>3, <1>5, <1>6, AccKeeps
<1>8. RowsKept(users, users') /\ CallTrue(r, users')
    BY <1>1, <1>2, <1>3 DEF RowsKept, CallTrue
<1>9. ASSUME LoginsTrue(P, S, Mail)
      PROVE  /\ RowsTrue(Mail, users')
             /\ \A s \in signed' : s \in signed \/ (s[1] \in P /\ users[s[2]].phone = s[1])
                                               \/ (s[1] \in S /\ users[s[2]].sub = s[1])
    <2>1. CallTrue(call[c], users)
        BY <1>9 DEF LoginsTrue
    <2>2. call[c].st = "found" /\ call[c].kind = "phone" => call[c].phone \in P /\ users[call[c].user].phone = call[c].phone
        BY <1>1, <2>1 DEF CallTrue, Asked
    <2>3. call[c].st = "found" /\ call[c].kind = "google" => call[c].sub \in S /\ users[call[c].user].sub = call[c].sub
        BY <1>1, <2>1 DEF CallTrue, Asked
    <2>4. \A s \in signed' : s \in signed \/ (s[1] \in P /\ users[s[2]].phone = s[1])
                                          \/ (s[1] \in S /\ users[s[2]].sub = s[1])
        BY <1>2, <2>2, <2>3
    <2>5. RowsTrue(Mail, users')
        BY <1>2, <1>9 DEF LoginsTrue
    <2> QED BY <2>4, <2>5
<1> QED BY <1>2, <1>5, <1>7, <1>8, <1>9, LoginsKeep

LEMMA AccStep ==
    ASSUME NEW E, NEW P, NEW S, NEW Mail, NEW K, AccConstants(E, P, S, Mail), AccInv(E, P, S, Mail, K),
           AccNext(E, P, S, Mail, K)
    PROVE  AccInv(E, P, S, Mail, K)' /\ (OnlyLogins(P, S, Mail, K) /\ LoginsTrue(P, S, Mail) => LoginsTrue(P, S, Mail)')
<1>1. PICK c \in Calls :
       \/ AccBegin(c, E, P, S, Mail, K)
       \/ Logins!LookUp(c) \/ Logins!LookUpPhone(c) \/ Logins!LookUpSub(c) \/ Logins!LookUpEmail(c) \/ Logins!MakeName(c)
       \/ Logins!Create(c) \/ Logins!LookAgain(c) \/ Logins!Link(c) \/ Logins!Update(c) \/ Logins!Import(c)
       \/ Logins!Answer(c)
    BY DEF AccNext
<1>2. CASE AccBegin(c, E, P, S, Mail, K)
    BY <1>2, BeginKeeps
<1>3. CASE Logins!LookUp(c)
    BY <1>3, LookUpKeeps
<1>4. CASE Logins!LookUpPhone(c)
    BY <1>4, LookUpPhoneKeeps
<1>5. CASE Logins!LookUpSub(c)
    BY <1>5, LookUpSubKeeps
<1>6. CASE Logins!LookUpEmail(c)
    BY <1>6, LookUpEmailKeeps
<1>7. CASE Logins!MakeName(c)
    BY <1>7, MakeNameKeeps
<1>8. CASE Logins!Create(c)
    BY <1>8, CreateKeeps
<1>9. CASE Logins!LookAgain(c)
    BY <1>9, LookAgainKeeps
<1>10. CASE Logins!Link(c)
    BY <1>10, LinkKeeps
<1>11. CASE Logins!Update(c)
    BY <1>11, UpdateKeeps
<1>12. CASE Logins!Import(c)
    BY <1>12, ImportKeeps
<1>13. CASE Logins!Answer(c)
    BY <1>13, AnswerKeeps
<1> QED BY <1>1, <1>2, <1>3, <1>4, <1>5, <1>6, <1>7, <1>8, <1>9, <1>10, <1>11, <1>12, <1>13

LoginsGood == LoginsInv /\ LoginsTrue({"phone"}, {Sub, OtherSub}, LoginMail)

LEMMA LoginsStart == Logins!Init => LoginsGood
<1> SUFFICES ASSUME Logins!Init PROVE LoginsGood
    OBVIOUS
<1>1. users = <<>> /\ call = [c \in Calls |-> Logins!Idle] /\ signed = {} /\ Len(users) = 0
    BY DEF Logins!Init
<1> DEFINE E == {Email}
           P == {"phone"}
           S == {Sub, OtherSub}
<1>2. /\ Logins!Idle \in AccCall(E, P, S) /\ Asked(Logins!Idle, P, S, LoginMail) /\ Ready(Logins!Idle)
      /\ Logins!Idle.kind = "register" /\ Logins!Idle.user = 0 /\ CallTrue(Logins!Idle, users)
    BY DEF Logins!Idle, AccCall, Asked, Ready, CallTrue
<1>3. users \in Seq(AccUser(E, P, S)) /\ Unique
    BY <1>1 DEF Unique
<1>4. /\ call \in [Calls -> AccCall(E, P, S)] /\ signed \subseteq (P \cup S) \X (1..Len(users))
      /\ \A c \in Calls : /\ Asked(call[c], P, S, LoginMail) /\ Ready(call[c]) /\ call[c].user <= Len(users)
                          /\ call[c].kind = "register" /\ CallTrue(call[c], users)
    <2>1. call \in [Calls -> AccCall(E, P, S)] /\ \A c \in Calls : call[c] = Logins!Idle
        BY <1>1, <1>2
    <2>2. signed \subseteq (P \cup S) \X (1..Len(users)) /\ 0 <= Len(users)
        BY <1>1
    <2> QED BY <1>2, <2>1, <2>2
<1>6. LoginsInv
    BY <1>3, <1>4 DEF LoginsInv, AccInv
<1>5. LoginsTrue(P, S, LoginMail)
    BY <1>1, <1>4 DEF LoginsTrue, RowsTrue, SignedTrue
<1> QED BY <1>5, <1>6 DEF LoginsGood

LEMMA ImportsStart == Imports!Init => ImportsInv
<1> SUFFICES ASSUME Imports!Init PROVE ImportsInv
    OBVIOUS
<1>1. users = <<>> /\ call = [c \in Calls |-> Imports!Idle] /\ signed = {} /\ Len(users) = 0
    BY DEF Imports!Init
<1> DEFINE E == {Email, OtherEmail}
           P == {"phone"}
           S == {Sub}
<1>2. /\ Imports!Idle \in AccCall(E, P, S) /\ Asked(Imports!Idle, P, S, ImportMail) /\ Ready(Imports!Idle)
      /\ Imports!Idle.kind = "register" /\ Imports!Idle.user = 0
    BY DEF Imports!Idle, AccCall, Asked, Ready
<1>3. users \in Seq(AccUser(E, P, S)) /\ Unique
    BY <1>1 DEF Unique
<1>4. /\ call \in [Calls -> AccCall(E, P, S)] /\ signed \subseteq (P \cup S) \X (1..Len(users))
      /\ \A c \in Calls : /\ Asked(call[c], P, S, ImportMail) /\ Ready(call[c]) /\ call[c].user <= Len(users)
                          /\ call[c].kind = "register"
    <2>1. call \in [Calls -> AccCall(E, P, S)] /\ \A c \in Calls : call[c] = Imports!Idle
        BY <1>1, <1>2
    <2>2. signed \subseteq (P \cup S) \X (1..Len(users)) /\ 0 <= Len(users)
        BY <1>1
    <2> QED BY <1>2, <2>1, <2>2
<1> QED BY <1>3, <1>4 DEF ImportsInv, AccInv

LEMMA LoginsStep == ASSUME LoginsGood, Logins!Next PROVE LoginsGood'
<1>1. AccConstants({Email}, {"phone"}, {Sub, OtherSub}, LoginMail)
    BY AccessSuiteAssumption DEF AccConstants, Logins!AccountsAssumption
<1>2. OnlyLogins({"phone"}, {Sub, OtherSub}, LoginMail, {"register", "phone", "google"})
    BY Mails, AccessSuiteAssumption DEF OnlyLogins
<1>3. AccNext({Email}, {"phone"}, {Sub, OtherSub}, LoginMail, {"register", "phone", "google"})
    BY LoginSteps DEF LoginsGood
<1> QED BY <1>1, <1>2, <1>3, AccStep DEF LoginsGood, LoginsInv

LEMMA ImportsStep == ASSUME ImportsInv, Imports!Next PROVE ImportsInv'
<1>1. AccConstants({Email, OtherEmail}, {"phone"}, {Sub}, ImportMail)
    BY AccessSuiteAssumption DEF AccConstants, Imports!AccountsAssumption
<1>2. AccNext({Email, OtherEmail}, {"phone"}, {Sub}, ImportMail, {"google", "update", "import"})
    BY ImportSteps
<1> QED BY <1>1, <1>2, AccStep DEF ImportsInv

\* What the invariants say of the two instances.
LEMMA IdentitiesSafe ==
    /\ LoginsGood => Logins!TypeOK /\ Logins!SameIdentitySameUser /\ Logins!LoginFailsForReason /\ Logins!AccountStays
    /\ ImportsInv => Imports!TypeOK
<1>1. ASSUME LoginsGood PROVE Logins!TypeOK
    <2>1. /\ users \in Seq(AccUser({Email}, {"phone"}, {Sub, OtherSub})) /\ Unique
          /\ call \in [Calls -> AccCall({Email}, {"phone"}, {Sub, OtherSub})]
          /\ \A c \in Calls : Ready(call[c]) /\ call[c].user <= Len(users)
          /\ signed \subseteq ({"phone"} \cup {Sub, OtherSub}) \X (1..Len(users))
        BY <1>1 DEF LoginsGood, LoginsInv, AccInv
    <2>4. Len(users) \in Nat
        BY <2>1
    <2>2. \A u \in 1..Len(users) :
             /\ users[u].name \in Names /\ users[u].email \in {Email} \cup {None}
             /\ users[u].phone \in {"phone"} \cup {None} /\ users[u].sub \in {Sub, OtherSub} \cup {None}
        <3>1. \A u \in 1..Len(users) : users[u] \in AccUser({Email}, {"phone"}, {Sub, OtherSub})
            BY <2>1
        <3> QED BY <3>1 DEF AccUser
    <2>5. \A u \in 1..Len(users) : users[u].home \in BOOLEAN
        <3>1. \A u \in 1..Len(users) : users[u] \in AccUser({Email}, {"phone"}, {Sub, OtherSub})
            BY <2>1
        <3> QED BY <3>1, Zenon DEF AccUser
    <2>3. \A c \in Calls : /\ call[c].st \in {"idle", "lookup", "email", "name", "write", "again", "link", "found", "failed"}
                           /\ call[c].user \in 0..Len(users)
                           /\ call[c].st = "found" => call[c].user # 0 \/ call[c].kind = "import"
        BY <2>1, <2>4 DEF AccCall, Ready
    <2> QED BY <2>1, <2>2, <2>3, <2>5 DEF Logins!TypeOK, Logins!Ids, Unique, Fields
<1>2. ASSUME ImportsInv PROVE Imports!TypeOK
    <2>1. /\ users \in Seq(AccUser({Email, OtherEmail}, {"phone"}, {Sub})) /\ Unique
          /\ call \in [Calls -> AccCall({Email, OtherEmail}, {"phone"}, {Sub})]
          /\ \A c \in Calls : Ready(call[c]) /\ call[c].user <= Len(users)
          /\ signed \subseteq ({"phone"} \cup {Sub}) \X (1..Len(users))
        BY <1>2 DEF ImportsInv, AccInv
    <2>4. Len(users) \in Nat
        BY <2>1
    <2>2. \A u \in 1..Len(users) :
             /\ users[u].name \in Names /\ users[u].email \in {Email, OtherEmail} \cup {None}
             /\ users[u].phone \in {"phone"} \cup {None} /\ users[u].sub \in {Sub} \cup {None}
        <3>1. \A u \in 1..Len(users) : users[u] \in AccUser({Email, OtherEmail}, {"phone"}, {Sub})
            BY <2>1
        <3> QED BY <3>1 DEF AccUser
    <2>5. \A u \in 1..Len(users) : users[u].home \in BOOLEAN
        <3>1. \A u \in 1..Len(users) : users[u] \in AccUser({Email, OtherEmail}, {"phone"}, {Sub})
            BY <2>1
        <3> QED BY <3>1, Zenon DEF AccUser
    <2>3. \A c \in Calls : /\ call[c].st \in {"idle", "lookup", "email", "name", "write", "again", "link", "found", "failed"}
                           /\ call[c].user \in 0..Len(users)
                           /\ call[c].st = "found" => call[c].user # 0 \/ call[c].kind = "import"
        BY <2>1, <2>4 DEF AccCall, Ready
    <2> QED BY <2>1, <2>2, <2>3, <2>5 DEF Imports!TypeOK, Imports!Ids, Unique, Fields
<1>3. ASSUME LoginsGood PROVE Logins!SameIdentitySameUser
    <2> SUFFICES ASSUME NEW a \in signed, NEW b \in signed, a[1] = b[1] PROVE a[2] = b[2]
        BY DEF Logins!SameIdentitySameUser
    <2>1. /\ \/ a[1] \in {"phone"} /\ users[a[2]].phone = a[1]
             \/ a[1] \in {Sub, OtherSub} /\ users[a[2]].sub = a[1]
          /\ \/ b[1] \in {"phone"} /\ users[b[2]].phone = b[1]
             \/ b[1] \in {Sub, OtherSub} /\ users[b[2]].sub = b[1]
        BY <1>3 DEF LoginsGood, LoginsTrue, SignedTrue
    <2>2. a[2] \in 1..Len(users) /\ b[2] \in 1..Len(users) /\ Unique
        BY <1>3 DEF LoginsGood, LoginsInv, AccInv
    <2>3. "phone" # None /\ None \notin {Sub, OtherSub} /\ "phone" \notin {Sub, OtherSub}
        BY AccessSuiteAssumption DEF Logins!AccountsAssumption
    <2>4. \/ users[a[2]]["phone"] = users[b[2]]["phone"] /\ users[a[2]]["phone"] # None
          \/ users[a[2]]["sub"] = users[b[2]]["sub"] /\ users[a[2]]["sub"] # None
        BY <2>1, <2>3
    <2> QED BY <2>2, <2>4 DEF Unique, Fields
<1>4. ASSUME LoginsGood PROVE Logins!LoginFailsForReason
    <2>1. \A c \in Calls : call[c].open \in BOOLEAN /\ call[c].clash \in BOOLEAN
        BY <1>4, Zenon DEF LoginsGood, LoginsInv, AccInv, AccCall
    <2>2. \A c \in Calls : CallTrue(call[c], users)
        BY <1>4 DEF LoginsGood, LoginsTrue
    <2> QED BY <2>2 DEF CallTrue, Logins!LoginFailsForReason
<1>5. ASSUME LoginsGood PROVE Logins!AccountStays
    <2> SUFFICES ASSUME NEW c \in Calls, call[c].st = "found", call[c].kind = "google"
                 PROVE  call[c].user \in Logins!Having("sub", call[c].sub)
        BY DEF Logins!AccountStays
    <2>1. /\ CallTrue(call[c], users) /\ Ready(call[c]) /\ Asked(call[c], {"phone"}, {Sub, OtherSub}, LoginMail)
          /\ call[c].user <= Len(users) /\ users \in Seq(AccUser({Email}, {"phone"}, {Sub, OtherSub}))
          /\ call[c] \in AccCall({Email}, {"phone"}, {Sub, OtherSub})
        BY <1>5 DEF LoginsGood, LoginsTrue, LoginsInv, AccInv
    <2>2. call[c].user \in 1..Len(users) /\ users[call[c].user]["sub"] = call[c].sub
        BY <2>1 DEF CallTrue, Ready, AccCall
    <2>3. call[c].sub # None
        BY <2>1, AccessSuiteAssumption DEF Asked, Logins!AccountsAssumption
    <2> QED BY <2>2, <2>3, Havings DEF Fields
<1> QED BY <1>1, <1>2, <1>3, <1>4, <1>5

-----------------------------------------------------------------------------
\* The suite: whichever of the four is running, its invariant; and RolesKept's two action properties.
SuiteInv ==
    /\ running = "alone" => AloneInv
    /\ running = "overlap" => WsTypes(Pair)
    /\ running = "logins" => LoginsGood
    /\ running = "imports" => ImportsInv

RolesStep ==
    /\ running = "alone" => Alone!OwnersMakeOwnersStep
    /\ running = "overlap" => Overlap!OutcomeIsTrueStep

LEMMA NobodyIsNone == None \notin Members \cup {Root} /\ None \notin Pair
BY AccessSuiteAssumption DEF Alone!WorkspacesAssumption, Overlap!WorkspacesAssumption

LEMMA SuiteStarts == SuiteInit => SuiteInv
<1> SUFFICES ASSUME SuiteInit PROVE SuiteInv
    OBVIOUS
<1>1. /\ running = "alone" => Alone!Init
      /\ running = "overlap" => Overlap!Init
      /\ running = "logins" => Logins!Init
      /\ running = "imports" => Imports!Init
    BY DEF SuiteInit
<1> QED BY <1>1, AloneStarts, OverlapStarts, LoginsStart, ImportsStart DEF SuiteInv

LEMMA SuiteStutters == ASSUME SuiteInv, UNCHANGED suiteVars PROVE SuiteInv' /\ RolesStep
<1>1. UNCHANGED <<wsRole, wsDeleted, tx>> /\ UNCHANGED <<users, call, signed>> /\ UNCHANGED running
    BY DEF suiteVars, wsVars, accountVars
<1>2. ASSUME NEW U, WsTypes(U) PROVE WsTypes(U)'
    BY <1>1, <1>2 DEF WsTypes
<1>3. AloneInv => AloneInv'
    BY <1>1, <1>2 DEF AloneInv, Remembers, Alone!Owners
<1>4. ASSUME NEW E, NEW P, NEW S, NEW Mail, NEW K, AccInv(E, P, S, Mail, K) PROVE AccInv(E, P, S, Mail, K)'
    BY <1>1, <1>4 DEF AccInv, Unique
<1>5. ASSUME NEW P, NEW S, NEW Mail, LoginsTrue(P, S, Mail) PROVE LoginsTrue(P, S, Mail)'
    BY <1>1, <1>5 DEF LoginsTrue
<1>6. (LoginsGood => LoginsGood') /\ (ImportsInv => ImportsInv')
    BY <1>4, <1>5 DEF LoginsGood, LoginsInv, ImportsInv
<1>7. Alone!OwnersMakeOwnersStep
    BY <1>1 DEF Alone!OwnersMakeOwnersStep
<1>8. Overlap!OutcomeIsTrueStep
    BY <1>1 DEF Overlap!OutcomeIsTrueStep
<1> QED BY <1>1, <1>2, <1>3, <1>6, <1>7, <1>8 DEF SuiteInv, RolesStep

LEMMA SuiteStep == ASSUME SuiteInv, [SuiteNext]_suiteVars PROVE SuiteInv' /\ RolesStep
<1>1. CASE UNCHANGED suiteVars
    BY <1>1, SuiteStutters
<1>2. CASE SuiteNext
    <2>1. /\ running' = running
          /\ running = "alone" => Alone!Next
          /\ running = "overlap" => Overlap!Next
          /\ running = "logins" => Logins!Next
          /\ running = "imports" => Imports!Next
        BY <1>2 DEF SuiteNext
    <2>2. running = "alone" => AloneInv' /\ Alone!OwnersMakeOwnersStep
        BY <2>1, AloneStep, NobodyIsNone DEF SuiteInv
    <2>3. running = "overlap" => WsTypes(Pair)' /\ Overlap!OutcomeIsTrueStep
        BY <2>1, OverlapStep, NobodyIsNone DEF SuiteInv
    <2>4. (running = "logins" => LoginsGood') /\ (running = "imports" => ImportsInv')
        BY <2>1, LoginsStep, ImportsStep DEF SuiteInv
    <2> QED BY <2>1, <2>2, <2>3, <2>4 DEF SuiteInv, RolesStep
<1> QED BY <1>1, <1>2

\* The invariant holds in every state.
LEMMA SuiteHolds == SuiteSpec => []SuiteInv /\ [][RolesStep]_suiteVars
<1>1. SuiteInit => SuiteInv
    BY SuiteStarts
<1>2. SuiteInv /\ [SuiteNext]_suiteVars => SuiteInv'
    BY SuiteStep
<1>3. SuiteInv /\ [SuiteNext]_suiteVars => [RolesStep]_suiteVars
    BY SuiteStep
<1> QED BY <1>1, <1>2, <1>3, PTL DEF SuiteSpec

\* For any members of a workspace, with one request at a time: it keeps an owner and only owners make owners; and for
\* any two whose requests overlap, what each reports is what it did (workspace_service.py).
THEOREM RolesAreKept == SuiteSpec => RolesKept
<1> DEFINE Kept == /\ running = "alone" => Alone!TypeOK /\ Alone!AlwaysAnOwner
                   /\ running = "overlap" => Overlap!TypeOK
<1>1. SuiteInv => Kept
    BY RolesSafe DEF SuiteInv
<1>2. SuiteSpec => []Kept /\ [][RolesStep]_suiteVars
    BY <1>1, SuiteHolds, PTL
<1> QED BY <1>2 DEF RolesKept, RolesStep

\* However many first logins of the suite's phone and Google accounts race each other and registrations: each always
\* signs in the same user and stays on him, a login fails for a reason only, and among logins, updates and imports no
\* two users share a value of a unique column (user_service.py).
THEOREM IdentitiesAreKept == SuiteSpec => []IdentitiesKept
<1>1. SuiteInv => IdentitiesKept
    BY IdentitiesSafe DEF SuiteInv, IdentitiesKept
<1> QED BY <1>1, SuiteHolds, PTL

-----------------------------------------------------------------------------
(* The messages of a session: what SessionReadsProofs shows for any limits   *)
(* holds of the suite's.                                                     *)

ReadsP == INSTANCE SessionReadsProofs WITH FetchLimit <- 4, PageLimit <- 1, MaxAttempts <- 2

LEMMA ReadsAssumed == ReadsP!ReadsAssumption
BY AccessSuiteAssumption DEF Reads!ReadsAssumption, ReadsP!ReadsAssumption, Reads!IsFiniteSet,
                             ReadsP!IsFiniteSet

LEMMA ReadsSameOrder ==
    /\ Reads!Committed = ReadsP!Committed /\ Reads!Kinds = ReadsP!Kinds
    /\ \A S : Reads!InOrder(S) = ReadsP!InOrder(S)
    /\ \A S, from, limit : Reads!Messages(S, from, limit) = ReadsP!Messages(S, from, limit)
    /\ \A m : Reads!HasContent(m) <=> ReadsP!HasContent(m)
    /\ \A m : Reads!Row(m) = ReadsP!Row(m)
<1>1. \A S : Reads!Cardinality(S) = ReadsP!Cardinality(S)
    BY DEF Reads!Cardinality, ReadsP!Cardinality
<1>2. \A m, n : Reads!Before(m, n) <=> ReadsP!Before(m, n)
    BY DEF Reads!Before, ReadsP!Before
<1>3. \A m, S : Reads!Place(m, S) = ReadsP!Place(m, S)
    BY <1>1, <1>2 DEF Reads!Place, ReadsP!Place
<1>4. \A S : Reads!InOrder(S) = ReadsP!InOrder(S)
    BY <1>1, <1>3 DEF Reads!InOrder, ReadsP!InOrder
<1>5. \A S, from, limit : Reads!Messages(S, from, limit) = ReadsP!Messages(S, from, limit)
    BY <1>3 DEF Reads!Messages, ReadsP!Messages
<1>6. Reads!Kinds = ReadsP!Kinds /\ Reads!Committed = ReadsP!Committed
    BY DEF Reads!Kinds, ReadsP!Kinds, Reads!Committed, ReadsP!Committed
<1>7. \A m : (Reads!HasContent(m) <=> ReadsP!HasContent(m)) /\ Reads!Row(m) = ReadsP!Row(m)
    BY DEF Reads!HasContent, ReadsP!HasContent, Reads!Row, ReadsP!Row
<1> QED BY <1>4, <1>5, <1>6, <1>7

LEMMA ReadsSameNext == (Reads!Init <=> ReadsP!Init) /\ (Reads!Next <=> ReadsP!Next)
<1>1. Reads!Init <=> ReadsP!Init
    BY ReadsSameOrder DEF Reads!Init, ReadsP!Init
<1>2. \A r : Reads!Begin(r) <=> ReadsP!Begin(r)
    BY DEF Reads!Begin, ReadsP!Begin
<1>3. \A r, kind, from, to : Reads!Write(r, kind, from, to) <=> ReadsP!Write(r, kind, from, to)
    BY DEF Reads!Write, ReadsP!Write
<1>4. \A r : Reads!ReadHistory(r) <=> ReadsP!ReadHistory(r)
    BY ReadsSameOrder DEF Reads!ReadHistory, ReadsP!ReadHistory
<1>5. \A r : (Reads!Commit(r) <=> ReadsP!Commit(r)) /\ (Reads!Abort(r) <=> ReadsP!Abort(r))
    BY DEF Reads!Commit, ReadsP!Commit, Reads!Abort, ReadsP!Abort
<1>6. \A r : Reads!Settle(r) <=> ReadsP!Settle(r)
    BY DEF Reads!Settle, ReadsP!Settle
<1>7. \A r : Reads!Retry(r) <=> ReadsP!Retry(r)
    BY ReadsSameOrder DEF Reads!Retry, ReadsP!Retry, Reads!CanRetry, ReadsP!CanRetry
<1>8. Reads!ReadPage <=> ReadsP!ReadPage
    BY ReadsSameOrder DEF Reads!ReadPage, ReadsP!ReadPage, Reads!rounds, ReadsP!rounds
<1>9. Reads!ReadRequests <=> ReadsP!ReadRequests
    BY ReadsSameOrder DEF Reads!ReadRequests, ReadsP!ReadRequests, Reads!rounds, ReadsP!rounds,
                          Reads!Shown, ReadsP!Shown, Reads!NextSkip, ReadsP!NextSkip
<1> QED BY <1>1, <1>2, <1>3, <1>4, <1>5, <1>6, <1>7, <1>8, <1>9 DEF Reads!Next, ReadsP!Next

LEMMA ReadsSafe ==
    ASSUME ReadsP!ReadsInv
    PROVE  /\ Reads!TypeOK /\ Reads!PairsStayTogether /\ Reads!RetryForgetsFailure
           /\ Reads!NothingSkipped /\ Reads!RequestNotOlder
<1>1. ReadsP!TypeOK /\ ReadsP!NothingSkipped
    BY ReadsAssumed, ReadsP!ReadsAreSafe
<1>2. ReadsP!PairsStayTogether /\ ReadsP!RetryForgetsFailure /\ ReadsP!RequestNotOlder
    BY DEF ReadsP!ReadsInv
<1>3. Reads!TypeOK
    BY <1>1, ReadsSameOrder DEF Reads!TypeOK, ReadsP!TypeOK, Reads!Cardinality, ReadsP!Cardinality
<1>4. Reads!NothingSkipped
    BY <1>1 DEF Reads!NothingSkipped, ReadsP!NothingSkipped
<1>5. Reads!PairsStayTogether /\ Reads!RetryForgetsFailure
    BY <1>2 DEF Reads!PairsStayTogether, ReadsP!PairsStayTogether, Reads!RetryForgetsFailure,
                ReadsP!RetryForgetsFailure
<1>6. Reads!RequestNotOlder
    BY <1>2 DEF Reads!RequestNotOlder, ReadsP!RequestNotOlder
<1> QED BY <1>3, <1>4, <1>5, <1>6

ReadsKept == running = "reads" => ReadsP!ReadsInv

LEMMA ReadsStart == SuiteInit => ReadsKept
<1> SUFFICES ASSUME SuiteInit, running = "reads" PROVE ReadsP!ReadsInv
    BY DEF ReadsKept
<1>1. Reads!Init
    BY DEF SuiteInit
<1> QED BY <1>1, ReadsSameNext, ReadsAssumed, ReadsP!ReadsInit

LEMMA ReadsMove ==
    ASSUME ReadsKept, [SuiteNext]_suiteVars
    PROVE  ReadsKept'
<1>1. /\ running' = running
      /\ running = "reads" => Reads!Next \/ UNCHANGED readVars
    BY DEF SuiteNext, suiteVars
<1>2. CASE running = "reads"
    <2>1. ReadsP!ReadsInv /\ (ReadsP!Next \/ UNCHANGED readVars)
        BY <1>1, <1>2, ReadsSameNext DEF ReadsKept
    <2>2. [ReadsP!Next]_ReadsP!vars
        BY <2>1 DEF readVars, ReadsP!vars, ReadsP!rounds
    <2> QED BY <1>1, <2>1, <2>2, ReadsAssumed, ReadsP!ReadsStep DEF ReadsKept
<1> QED BY <1>1, <1>2 DEF ReadsKept

\* However questions of a session overlap, are aborted, answered, failed and retried while a client pages through it:
\* histories pair answers with their questions and forget the failure that is retried; he is shown all that was there,
\* and no message with a request that is older (chat_repo.py, session_query_service.py).
THEOREM HistoryIsWhole == SuiteSpec => []HistoryWhole
<1>1. SuiteInit => ReadsKept
    BY ReadsStart
<1>2. ReadsKept /\ [SuiteNext]_suiteVars => ReadsKept'
    BY ReadsMove
<1>3. ReadsKept => HistoryWhole
    BY ReadsSafe DEF ReadsKept, HistoryWhole
<1> QED BY <1>1, <1>2, <1>3, PTL DEF SuiteSpec
=============================================================================
