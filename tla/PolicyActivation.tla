------------------------- MODULE PolicyActivation --------------------------
(***************************************************************************)
(* Who may permit what, for one purpose of one project                     *)
(* (services/api/buyeros_api/services): policy_activation_bootstrap writes *)
(* the designation of a controller, policy_activation_service takes an     *)
(* application from submission to its resolution, policy_activation_read   *)
(* says at each use whether the newest decision still permits, and         *)
(* membership_admin changes the memberships a designation is bound to.     *)
(* Writers hold the workspace's advisory locks to their commit, so each    *)
(* operation is one step.                                                  *)
(***************************************************************************)
EXTENDS Naturals, Sequences, FiniteSets, Functions

CONSTANTS
    Members,            \* users with a membership of the workspace
    Horizon,            \* bound: the last instant
    Ends,               \* bound: the instants at which a term may end
    MaxChanges,         \* bound: changes of memberships
    MaxAuthorities,     \* bound: designations and revocations written
    MaxRequests,        \* bound: applications submitted
    MaxDecisions        \* bound: policy decisions written

VARIABLES
    instant,            \* the database's clock
    members,            \* the membership of each user
    authorities,        \* rows of policy_controller_authorities, in order
    requests,           \* applications, each with its resolution
    decisions,          \* rows of policy_decisions, in order of version
    source              \* the document the terms allow is ready

policyVars == <<instant, members, authorities, requests, decisions, source>>

Manual == 0             \* a decision recorded without an application

PolicyTypeOK ==
    /\ instant \in 0..Horizon
    /\ members \in [Members -> [admin: BOOLEAN, active: BOOLEAN, version: 1..MaxChanges + 1]]
    /\ Len(authorities) <= MaxAuthorities
    /\ \A n \in DOMAIN authorities : authorities[n] \in
          [approver: Members, membership: 1..MaxChanges + 1, status: {"active", "revoked"},
           until: Ends]
    /\ Len(requests) <= MaxRequests
    /\ \A r \in DOMAIN requests : requests[r] \in
          [requester: Members, authority: DOMAIN authorities, head: 0..MaxDecisions,
           until: Ends, deadline: Ends,
           outcome: {"none", "approved", "rejected", "withdrawn"}]
    /\ Len(decisions) <= MaxDecisions
    /\ \A d \in DOMAIN decisions : decisions[d] \in
          [status: {"permitted", "requires_review", "blocked"},
           request: 0..MaxRequests, until: Ends]
    /\ source \in BOOLEAN

------------------------------------------------------------------------------
\* What the readers compute.

CurrentAdmin(u) == members[u].active /\ members[u].admin
LatestHead == Len(decisions)

IsCurrentAuthority(a) ==
    \A n \in DOMAIN authorities : authorities[n].approver = authorities[a].approver => n <= a

AuthorityEligible(a) ==
    LET row == authorities[a] IN
    /\ row.status = "active"
    /\ instant < row.until
    /\ IsCurrentAuthority(a)
    /\ CurrentAdmin(row.approver)
    /\ members[row.approver].version = row.membership

RequestState(r) ==
    CASE requests[r].outcome # "none" -> requests[r].outcome
      [] requests[r].outcome = "none" /\ requests[r].deadline <= instant -> "expired"
      [] OTHER -> IF AuthorityEligible(requests[r].authority) /\ requests[r].head = LatestHead
                  THEN "submitted" ELSE "stale"

\* What a use of the purpose is told of decision d, were d the head.
EffectiveStatus(d) ==
    CASE decisions[d].until <= instant -> "expired"
      [] decisions[d].until > instant /\ decisions[d].status # "permitted" -> decisions[d].status
      [] OTHER -> IF AuthorityEligible(requests[decisions[d].request].authority)
                  THEN "permitted" ELSE "revoked"

Permits(d) == d = LatestHead /\ EffectiveStatus(d) = "permitted"

------------------------------------------------------------------------------
\* Membership: update_membership and the restore of staff reconciliation, both
\* through apply_membership_update under the membership lock.

\* Mutant: the version of a membership does not count changes of its roles.
ApplyUpdate_SameVersion(u, admin, active) ==
    members' = [members EXCEPT ![u].admin = admin, ![u].active = active]

ApplyUpdate(u, admin, active) ==
    members' = [members EXCEPT ![u] = [admin |-> admin, active |-> active, version |-> @.version + 1]]

Changes == SumFunction([u \in Members |-> members[u].version - 1])

UpdateMembership(actor, u, admin, active) ==
    /\ CurrentAdmin(actor)
    /\ <<admin, active>> # <<members[u].admin, members[u].active>>
    /\ CurrentAdmin(u) /\ ~(admin /\ active) =>
          Cardinality({m \in Members : CurrentAdmin(m)}) > 1
    /\ Changes < MaxChanges
    /\ ApplyUpdate(u, admin, active)
    /\ UNCHANGED <<instant, authorities, requests, decisions, source>>

RestoreStaff(actor, u) ==
    /\ CurrentAdmin(actor) /\ ~members[u].active
    /\ Changes < MaxChanges
    /\ ApplyUpdate(u, members[u].admin, TRUE)
    /\ UNCHANGED <<instant, authorities, requests, decisions, source>>

------------------------------------------------------------------------------
\* Designation: apply_authority_manifest and revoke_authority, by the owner of
\* the database, each bound to the head it saw.

Provision(u, until) ==
    /\ Len(authorities) < MaxAuthorities
    /\ CurrentAdmin(u) /\ instant < until
    /\ authorities' = Append(authorities,
          [approver |-> u, membership |-> members[u].version, status |-> "active",
           until |-> until])
    /\ UNCHANGED <<instant, members, requests, decisions, source>>

RevokeAuthority(a) ==
    /\ Len(authorities) < MaxAuthorities
    /\ IsCurrentAuthority(a)
    /\ authorities' = Append(authorities, [authorities[a] EXCEPT !.status = "revoked"])
    /\ UNCHANGED <<instant, members, requests, decisions, source>>

------------------------------------------------------------------------------
\* Applications.

SubmitActivation(actor, a, until, deadline) ==
    /\ Len(requests) < MaxRequests
    /\ CurrentAdmin(actor) /\ AuthorityEligible(a)
    /\ until <= authorities[a].until /\ instant < until /\ instant < deadline
    /\ source
    /\ requests' = Append(requests,
          [requester |-> actor, authority |-> a, head |-> LatestHead,
           until |-> until, deadline |-> deadline, outcome |-> "none"])
    /\ UNCHANGED <<instant, members, authorities, decisions, source>>

\* The checks decide_activation makes of an application it has not resolved.
Decidable(r) ==
    /\ requests[r].outcome = "none" /\ instant < requests[r].deadline
    /\ CurrentAdmin(authorities[requests[r].authority].approver)
    /\ AuthorityEligible(requests[r].authority)
    /\ instant < requests[r].until
    /\ requests[r].head = LatestHead
    /\ source

Approve(r) ==
    /\ Decidable(r) /\ Len(decisions) < MaxDecisions
    /\ decisions' = Append(decisions,
          [status |-> "permitted", request |-> r, until |-> requests[r].until])
    /\ requests' = [requests EXCEPT ![r].outcome = "approved"]
    /\ UNCHANGED <<instant, members, authorities, source>>

Reject(r) ==
    /\ Decidable(r)
    /\ requests' = [requests EXCEPT ![r].outcome = "rejected"]
    /\ UNCHANGED <<instant, members, authorities, decisions, source>>

WithdrawActivation(r) ==
    /\ CurrentAdmin(requests[r].requester)
    /\ requests[r].outcome = "none" /\ instant < requests[r].deadline
    /\ requests' = [requests EXCEPT ![r].outcome = "withdrawn"]
    /\ UNCHANGED <<instant, members, authorities, decisions, source>>

RecordPolicyDecision(actor, status, until) ==
    /\ CurrentAdmin(actor) /\ instant < until
    /\ Len(decisions) < MaxDecisions
    /\ decisions' = Append(decisions, [status |-> status, request |-> Manual, until |-> until])
    /\ UNCHANGED <<instant, members, authorities, requests, source>>

------------------------------------------------------------------------------

DropSource ==
    /\ source /\ source' = FALSE
    /\ UNCHANGED <<instant, members, authorities, requests, decisions>>

Tick ==
    /\ instant < Horizon /\ instant' = instant + 1
    /\ UNCHANGED <<members, authorities, requests, decisions, source>>

PolicyInit ==
    /\ instant = 0
    /\ members = [u \in Members |-> [admin |-> TRUE, active |-> TRUE, version |-> 1]]
    /\ authorities = <<>> /\ requests = <<>> /\ decisions = <<>>
    /\ source = TRUE

PolicyNext ==
    \/ \E actor, u \in Members :
          \/ \E admin, active \in BOOLEAN : UpdateMembership(actor, u, admin, active)
          \/ RestoreStaff(actor, u)
    \/ \E u \in Members, until \in Ends : Provision(u, until)
    \/ \E a \in DOMAIN authorities : RevokeAuthority(a)
    \/ \E actor \in Members, a \in DOMAIN authorities, until, deadline \in Ends :
          SubmitActivation(actor, a, until, deadline)
    \/ \E r \in DOMAIN requests : Approve(r) \/ Reject(r) \/ WithdrawActivation(r)
    \/ \E actor \in Members, status \in {"requires_review", "blocked"}, until \in Ends :
          RecordPolicyDecision(actor, status, until)
    \/ DropSource \/ Tick

PolicySpec == PolicyInit /\ [][PolicyNext]_policyVars

------------------------------------------------------------------------------
\* A permission that ended never comes back: once a granted decision no longer
\* permits (superseded, expired, its controller revoked, replaced, demoted and
\* promoted again, or removed and restored) nothing but a new decision does,
\* and an application found stale or expired is not approved later
\* (policy_activation_read, decide_activation).
PermissionEndsForGood ==
    [][/\ \A d \in DOMAIN decisions : Permits(d)' => Permits(d)
       /\ \A r \in DOMAIN requests :
             RequestState(r) \in {"stale", "expired"} =>
                RequestState(r)' \notin {"submitted", "approved"}]_policyVars
=============================================================================
