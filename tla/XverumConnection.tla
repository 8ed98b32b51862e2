-------------------------- MODULE XverumConnection --------------------------
(***************************************************************************)
(* The connections of a workspace to Xverum                                *)
(* (services/xverum_connections.py, api/routes/xverum.py): administrators  *)
(* assign, disconnect and rotate them while calls are under way; a call    *)
(* reads its authority again at every step, and the transport              *)
(* (providers/xverum_mcp.py) says of a failure whether the tool may have   *)
(* run. The secret service is external: CredentialProvider states what it  *)
(* must promise.                                                           *)
(***************************************************************************)
EXTENDS Integers, FiniteSets

CONSTANTS Workspaces,   \* the sets of connections a workspace may have
          Projects, Admins, Callers,
          MaxVersion,   \* bound: connections and versions together
          MaxFailures   \* bound: connections and failures together

VARIABLES rows,         \* xverum_connections: status, generation, version
          assigned,     \* xverum_project_assignments: <<project, connection>>
          entitled,     \* callers whose membership allows useXverumConnection
          secrets,      \* external: generations staged and revoked
          admins,       \* requests of administrators
          callers,      \* calls: what they were ordered with, and how far they are
          tombstoned,   \* calls whose receipts a disconnect took away
          mishaps

connectionVars == <<rows, assigned, entitled, secrets, admins, callers, tombstoned, mishaps>>

Connections == DOMAIN rows
Mishap == Cardinality(Connections) + mishaps < MaxFailures /\ mishaps' = mishaps + 1

Idle == [step |-> "idle", at |-> "none", generation |-> 0, status |-> "none", version |-> 0]
NoCall == [step |-> "idle", project |-> "none", at |-> "none", generation |-> 0]

Bumped(c, status) == [status |-> status, generation |-> rows[c].generation + 1, version |-> rows[c].version + 1]
ProjectsOf(c) == {p \in Projects : <<p, c>> \in assigned}
Read(c, step) == [step |-> step, at |-> c, generation |-> rows[c].generation, status |-> rows[c].status, version |-> rows[c].version]

\* An administrator opens the page: the version and generation it shows.
ReadConnection(a, c) ==
    /\ admins[a].step = "idle" /\ Cardinality(Connections) + rows[c].version < MaxVersion
    /\ admins' = [admins EXCEPT ![a] = Read(c, "read")]
    /\ UNCHANGED <<rows, assigned, entitled, secrets, callers, tombstoned, mishaps>>

GiveUp(a) == admins' = [admins EXCEPT ![a] = Idle]

\* _mutation: If-Match, under the row's lock.
Unchanged(a) == rows[admins[a].at].version = admins[a].version

\* assign_xverum, one transaction behind the locks of the projects; the
\* provider is told after the commit.
Assign(a, chosen) ==
    LET c == admins[a].at IN
    /\ admins[a].step = "read" /\ UNCHANGED <<entitled, secrets, callers, tombstoned, mishaps>>
    /\ IF /\ Unchanged(a) /\ rows[c].generation = admins[a].generation
          /\ \A p \in chosen, other \in Connections \ {c} : <<p, other>> \notin assigned
       THEN /\ assigned' = {x \in assigned : x[2] # c} \cup (chosen \X {c})
            /\ rows' = [rows EXCEPT ![c] = Bumped(c, "configuration_required")]
            /\ admins' = [admins EXCEPT ![a] = [Idle EXCEPT !.step = "revoking", !.at = c, !.generation = rows[c].generation + 1]]
       ELSE GiveUp(a) /\ UNCHANGED <<rows, assigned>>

\* disconnect_xverum: the receipts of every call ordered on it go with it.
Disconnect(a) ==
    LET c == admins[a].at IN
    /\ admins[a].step = "read" /\ UNCHANGED <<assigned, entitled, secrets, callers, mishaps>>
    /\ IF Unchanged(a)
       THEN /\ rows' = [rows EXCEPT ![c] = Bumped(c, "disconnected")]
            /\ tombstoned' = tombstoned \cup {k \in Callers : callers[k].at = c}
            /\ admins' = [admins EXCEPT ![a] = [Idle EXCEPT !.step = "revoking", !.at = c, !.generation = rows[c].generation + 1]]
       ELSE GiveUp(a) /\ UNCHANGED <<rows, tombstoned>>

\* revoke_local: durable and monotonic when it works; a failure undoes nothing.
RevokeLocal(a) ==
    LET c == admins[a].at IN
    /\ admins[a].step = "revoking" /\ GiveUp(a)
    /\ UNCHANGED <<rows, assigned, entitled, callers, tombstoned>>
    /\ \/ /\ secrets' = [secrets EXCEPT ![c].revoked = IF @ < admins[a].generation THEN admins[a].generation ELSE @]
          /\ UNCHANGED mishaps
       \/ Mishap /\ UNCHANGED secrets

\* prepare_rotation reads without a lock.
PrepareRotation(a) ==
    /\ admins[a].step = "read" /\ UNCHANGED <<rows, assigned, entitled, secrets, callers, tombstoned, mishaps>>
    /\ IF Unchanged(a) /\ rows[admins[a].at].generation = admins[a].generation /\ ProjectsOf(admins[a].at) # {}
       THEN admins' = [admins EXCEPT ![a] = Read(admins[a].at, "prepared")]
       ELSE GiveUp(a)

\* refresh_credential, with no transaction open: every caller gets the one
\* successor of this generation, unless it is revoked; then activation.
RefreshCredential(a) ==
    LET c == admins[a].at
        next == admins[a].generation + 1 IN
    /\ admins[a].step = "prepared" /\ UNCHANGED <<rows, assigned, entitled, callers, tombstoned>>
    /\ \/ /\ next > secrets[c].revoked
          /\ secrets' = [secrets EXCEPT ![c].staged = IF @ < next THEN next ELSE @]
          /\ admins' = [admins EXCEPT ![a].step = "refreshed"] /\ UNCHANGED mishaps
       \/ /\ Mishap /\ GiveUp(a) /\ UNCHANGED secrets
       \/ next <= secrets[c].revoked /\ GiveUp(a) /\ UNCHANGED <<secrets, mishaps>>

\* Mutant: whoever refreshed may publish.
Publishable_Always(a) == TRUE

\* publish_rotation: the row is what prepare_rotation read.
Publishable(a) ==
    LET row == rows[admins[a].at] IN
    Unchanged(a) /\ row.generation = admins[a].generation /\ row.status = admins[a].status

PublishRotation(a) ==
    /\ admins[a].step = "refreshed" /\ GiveUp(a)
    /\ rows' = IF Publishable(a)
               THEN [rows EXCEPT ![admins[a].at] = [status |-> "connected", generation |-> admins[a].generation + 1, version |-> admins[a].version + 1]]
               ELSE rows
    /\ UNCHANGED <<assigned, entitled, secrets, callers, tombstoned, mishaps>>

------------------------------------------------------------------------------
\* Mutant: any connected generation will do.
Current_Status(k) == rows[callers[k].at].status = "connected"

\* require_generation, in a transaction of its own: member, project's
\* assignment, status, and the generation the call began with.
Current(k) == rows[callers[k].at].status = "connected" /\ rows[callers[k].at].generation = callers[k].generation

Authorised(k) == k \in entitled /\ <<callers[k].project, callers[k].at>> \in assigned /\ Current(k)

Goes(k, step) == callers' = [callers EXCEPT ![k].step = step]

\* The quote a call was admitted with names connection and generation.
Order(k, p) ==
    /\ callers[k].step = "idle" /\ k \in entitled
    /\ \E c \in Connections :
        /\ <<p, c>> \in assigned /\ rows[c].status = "connected"
        /\ callers' = [callers EXCEPT ![k] = [step |-> "ordered", project |-> p, at |-> c, generation |-> rows[c].generation]]
    /\ UNCHANGED <<rows, assigned, entitled, secrets, admins, tombstoned, mishaps>>

\* call_xverum up to the transport: checked, credential resolved, checked again.
CheckFirst(k) ==
    /\ callers[k].step = "ordered" /\ Goes(k, IF Authorised(k) THEN "checked" ELSE "refused")
    /\ UNCHANGED <<rows, assigned, entitled, secrets, admins, tombstoned, mishaps>>

Resolve(k) ==
    LET s == secrets[callers[k].at] IN
    /\ callers[k].step = "checked"
    /\ Goes(k, IF callers[k].generation \in (s.revoked + 1)..s.staged THEN "resolved" ELSE "refused")
    /\ UNCHANGED <<rows, assigned, entitled, secrets, admins, tombstoned, mishaps>>

CheckResolved(k) ==
    /\ callers[k].step = "resolved" /\ Goes(k, IF Authorised(k) THEN "opening" ELSE "refused")
    /\ UNCHANGED <<rows, assigned, entitled, secrets, admins, tombstoned, mishaps>>

\* _session: initialize and initialized, then before_dispatch. Nothing that
\* fails up to here was accepted by the provider.
BeforeDispatch(k) ==
    /\ callers[k].step = "opening"
    /\ \/ Goes(k, IF Authorised(k) THEN "dispatching" ELSE "refused") /\ UNCHANGED mishaps
       \/ Mishap /\ Goes(k, "refused")
    /\ UNCHANGED <<rows, assigned, entitled, secrets, admins, tombstoned>>

\* tools/call: a failure leaves open whether the tool ran.
CallTool(k) ==
    /\ callers[k].step = "dispatching"
    /\ \/ Goes(k, "answered") /\ UNCHANGED mishaps
       \/ Mishap /\ Goes(k, "unknown")
    /\ UNCHANGED <<rows, assigned, entitled, secrets, admins, tombstoned>>

\* The last check: an answer whose authority changed is not used, and its
\* charge stays in doubt.
AcceptAnswer(k) ==
    /\ callers[k].step = "answered" /\ Goes(k, IF Authorised(k) THEN "accepted" ELSE "unknown")
    /\ UNCHANGED <<rows, assigned, entitled, secrets, admins, tombstoned, mishaps>>

\* Membership is external to this module: a caller loses it and gets it back.
ChangeMember(k) ==
    /\ Mishap
    /\ entitled' = IF k \in entitled THEN entitled \ {k} ELSE entitled \cup {k}
    /\ UNCHANGED <<rows, assigned, secrets, admins, callers, tombstoned>>

ConnectionInit ==
    /\ \E w \in Workspaces :
          /\ rows = [c \in w |-> [status |-> "connected", generation |-> 1, version |-> 1]]
          /\ secrets = [c \in w |-> [staged |-> 1, revoked |-> 0]]
    /\ \E c \in Connections : assigned = Projects \X {c}
    /\ entitled = Callers
    /\ admins = [a \in Admins |-> Idle] /\ callers = [k \in Callers |-> NoCall]
    /\ tombstoned = {} /\ mishaps = 0

ConnectionNext ==
    \/ \E a \in Admins :
        \/ \E c \in Connections : ReadConnection(a, c)
        \/ \E chosen \in SUBSET Projects \ {{}} : Assign(a, chosen)
        \/ Disconnect(a) \/ RevokeLocal(a)
        \/ PrepareRotation(a) \/ RefreshCredential(a) \/ PublishRotation(a)
    \/ \E k \in Callers :
        \/ \E p \in Projects : Order(k, p)
        \/ CheckFirst(k) \/ Resolve(k) \/ CheckResolved(k) \/ BeforeDispatch(k)
        \/ CallTool(k) \/ AcceptAnswer(k) \/ ChangeMember(k)

------------------------------------------------------------------------------
ConnectionTypeOK ==
    /\ \A c \in Connections : rows[c].status \in {"configuration_required", "connected", "disconnected"}
    /\ assigned \subseteq Projects \X Connections /\ tombstoned \subseteq Callers
    /\ \A a \in Admins : admins[a].step \in {"idle", "read", "revoking", "prepared", "refreshed"}

AuthorityHolds ==
    /\ \A c \in DOMAIN rows :
           /\ rows'[c].generation >= rows[c].generation
           /\ (rows'[c].status = "connected" => rows'[c].generation \in (secrets'[c].revoked + 1)..secrets'[c].staged)
           /\ (rows[c].status # "connected" /\ rows'[c].status = "connected"
               => \E a \in DOMAIN admins : admins[a].at = c /\ admins[a].version = rows[c].version)
    /\ \A x, y \in assigned' : x[1] = y[1] => x = y
    /\ \A k \in DOMAIN callers :
           /\ (callers[k].step # "accepted" /\ callers'[k].step = "accepted"
               => rows[callers[k].at].generation = callers[k].generation /\ k \notin tombstoned)
           /\ (callers'[k].step = "accepted" /\ k \notin tombstoned' => rows'[callers[k].at].status # "disconnected")

\* The credential of the generation in force was staged and is not revoked: a
\* late revocation, of a disconnect somebody rotated after, spares it.
\* An assignment or a disconnect committed while a rotation was refreshing is
\* never undone by publishing it: a connection becomes connected only from the
\* state that was prepared, with the credential staged from it. A project never
\* has two connections. An answer is used only if nothing touched its
\* connection since it was ordered, and a disconnect takes every answer its
\* connection gave (publish_rotation, assign_xverum, call_xverum).
ConnectionAuthority == [][AuthorityHolds]_connectionVars
=============================================================================
