------------------------- MODULE WorkspaceSelection -------------------------
(***************************************************************************)
(* Which workspace and project a page shows (workspace-picker.tsx). The    *)
(* URL names them, the session scope holds them, and two reads say which   *)
(* exist for this person: the workspaces (/v1/workspaces) and the projects *)
(* of the one chosen. Both reads are made again whenever the scope moves;  *)
(* meanwhile the person walks the history, other panels hear that access   *)
(* is gone, and memberships change on the server.                          *)
(***************************************************************************)
EXTENDS Integers, FiniteSets

CONSTANTS Home,       \* project -> its workspace
          Strange,    \* a workspace of a link that was never theirs
          Early,      \* TRUE: location events follow (Navigation API); FALSE: at once
          MaxMoves,   \* bound: scope generations
          MaxChanges  \* bound: failures, memberships changed, denials of other kinds

VARIABLES listing,     \* memberships and the projects created
          view,        \* the page: URL, scope, the two lists and the refs
          check,      \* loadSelection of the workspaces under way
          browse,     \* loadSelection of the projects under way
          visited,    \* entries of the history
          denied,     \* a denial heard in this scope that no check has begun after
          upheavals   \* failures and changes so far

selectionVars == <<listing, view, check, browse, visited, denied, upheavals>>

Projects == DOMAIN Home
Workspaces == {Home[p] : p \in Projects}
Nowhere == <<"none", "none">>
Unread == [kind |-> "loading", items |-> {}]
Ready(items) == [kind |-> "ready", items |-> items]
Idle == [on |-> FALSE, moves |-> 0, attempt |-> 0, answer |-> "none", items |-> {}]
Asked(t) == [Idle EXCEPT !.on = TRUE, !.moves = t.moves]
In(w) == {p \in listing.projects : Home[p] = w}

Authorized(t) == t.spaces.kind = "ready" /\ t.scope[1] \in t.spaces.items
Known(t) == t.projects.kind = "ready" /\ t.scope[2] \in t.projects.items

------------------------------------------------------------------------------
\* SessionScope.next: a new generation; everything asked in the old one is cancelled.
Next(t, place) == [t EXCEPT !.scope = place, !.moves = @ + 1, !.due = @ \cup {"check", "browse"}]

\* restoreScope: a URL is no authority; forget the scope and ask again.
RestoreScope(t) ==
    IF t.scope = t.url THEN t
    ELSE [Next(t, Nowhere) EXCEPT !.projects = Unread]

UpdateUrl(t, place) ==
    IF Early THEN [t EXCEPT !.url = place, !.announced = TRUE] ELSE RestoreScope([t EXCEPT !.url = place])

Mine(t) == t.moves <= MaxMoves

SelectionInit ==
    /\ listing \in {[members |-> m, projects |-> c] : m \in SUBSET Workspaces, c \in {Projects, Projects \ {CHOOSE p \in Projects : TRUE}}}
    /\ \E u \in {Nowhere, <<Strange, "none">>} \cup {<<Home[p], p>> : p \in Projects} :
         /\ view = [url |-> u, scope |-> Nowhere, moves |-> 1, spaces |-> Unread, projects |-> Unread, checking |-> FALSE,
                   pending |-> 0, auto |-> TRUE, due |-> {"check", "browse"}, shown |-> FALSE, announced |-> FALSE]
         /\ visited = {u}
    /\ check = Idle /\ browse = Idle /\ denied = FALSE /\ upheavals = 0

\* The effects of a commit: the previous reads are aborted, the due ones begin.
Render ==
    /\ view.due # {} \/ view.shown # Authorized(view)
    /\ view' = [view EXCEPT !.due = {}, !.shown = Authorized(view), !.checking = @ \/ "check" \in view.due]
    /\ check' = IF "check" \in view.due THEN Asked(view) ELSE check
    /\ browse' = IF "browse" \notin view.due /\ view.shown = Authorized(view) THEN browse
                 ELSE IF Authorized(view) THEN Asked(view) ELSE Idle
    /\ denied' = (denied /\ "check" \notin view.due)
    /\ UNCHANGED <<listing, visited, upheavals>>

\* One of the two bounded attempts is answered: by the server, or not at all.
Answered(load, items) ==
    \/ load' = [load EXCEPT !.answer = "items", !.items = items] /\ UNCHANGED upheavals
    \/ /\ upheavals < MaxChanges /\ upheavals' = upheavals + 1
       /\ \/ load' = [load EXCEPT !.answer = "failed"]
          \/ load.attempt = 0 /\ load' = [load EXCEPT !.attempt = 1]

ListWorkspaces ==
    /\ check.on /\ check.answer = "none" /\ Answered(check, listing.members)
    /\ UNCHANGED <<listing, view, browse, visited, denied>>

ListProjects ==
    /\ browse.on /\ browse.answer = "none" /\ browse.moves = view.moves
    /\ view.scope[1] \in listing.members /\ Answered(browse, In(view.scope[1]))
    /\ UNCHANGED <<listing, view, check, visited, denied>>

\* Mutant: what is heard during a check is taken to be answered by it.
Heard_Once(t) == IF t.checking THEN t ELSE [t EXCEPT !.checking = TRUE, !.due = @ \cup {"check"}]

\* subscribeAccessDenied: one check at a time, another after it.
Heard(t) ==
    IF t.checking THEN [t EXCEPT !.pending = t.moves]
    ELSE [t EXCEPT !.checking = TRUE, !.due = @ \cup {"check"}]

\* A panel is refused: its membership is gone, or only the one thing it asked for.
AccessDenied ==
    /\ view.scope[1] # "none"
    /\ IF view.scope[1] \in listing.members THEN upheavals < MaxChanges /\ upheavals' = upheavals + 1 ELSE ~denied /\ UNCHANGED upheavals
    /\ view' = Heard(view) /\ denied' = TRUE
    /\ UNCHANGED <<listing, check, browse, visited>>

ProjectsDenied ==
    /\ browse.on /\ browse.answer = "none" /\ browse.moves = view.moves /\ view.scope[1] \notin listing.members
    /\ view' = [Heard(view) EXCEPT !.projects = [kind |-> "error", items |-> {}]]
    /\ browse' = Idle /\ denied' = TRUE
    /\ UNCHANGED <<listing, check, visited, upheavals>>

\* Where the page goes when the workspaces are read.
Placed(t, items) ==
    LET target == t.url[1] IN
    IF t.scope[1] # "none" /\ t.scope[1] \notin items
    THEN Next(UpdateUrl([t EXCEPT !.auto = FALSE, !.projects = Unread], Nowhere), Nowhere)
    ELSE IF target # "none" /\ target \notin items THEN t
    ELSE IF target = "none" /\ Cardinality(items) = 1 /\ t.auto
    THEN LET only == CHOOSE w \in items : TRUE IN UpdateUrl(Next(t, <<only, "none">>), <<only, "none">>)
    ELSE IF target # "none" /\ t.scope[1] # target THEN Next(t, <<target, "none">>)
    ELSE t

\* The finally of the check: only in the scope that began it.
Finished(t, began) ==
    IF t.moves # began THEN t
    ELSE [t EXCEPT !.checking = FALSE, !.pending = 0, !.due = IF t.pending = began THEN @ \cup {"check"} ELSE @]

ReceiveWorkspaces ==
    /\ check.on /\ check.answer # "none"
    /\ view' = IF check.moves # view.moves THEN view
              ELSE IF check.answer = "items" THEN Finished(Placed([view EXCEPT !.spaces = Ready(check.items)], check.items), check.moves)
              ELSE Finished([view EXCEPT !.spaces = IF @.kind = "ready" THEN @ ELSE [kind |-> "error", items |-> {}]], check.moves)
    /\ Mine(view') /\ check' = Idle /\ denied' = (denied /\ view'.moves = view.moves)
    /\ UNCHANGED <<listing, browse, visited, upheavals>>

Opened(t, items) ==
    LET target == t.url[2] IN
    IF target # "none" /\ target \notin items THEN Next(t, <<t.scope[1], "none">>)
    ELSE IF target # "none" /\ t.scope[2] # target THEN Next(t, <<t.scope[1], target>>)
    ELSE IF target = "none" /\ Cardinality(items) = 1
    THEN LET only == CHOOSE p \in items : TRUE IN UpdateUrl(Next(t, <<t.scope[1], only>>), <<t.url[1], only>>)
    ELSE t

ReceiveProjects ==
    /\ browse.on /\ browse.answer # "none" /\ browse' = Idle
    /\ view' = IF browse.moves # view.moves THEN view
              ELSE IF browse.answer = "items" THEN Opened([view EXCEPT !.projects = Ready(browse.items)], browse.items)
              ELSE [view EXCEPT !.projects = [kind |-> "error", items |-> {}]]
    /\ Mine(view') /\ denied' = (denied /\ view'.moves = view.moves)
    /\ UNCHANGED <<listing, check, visited, upheavals>>

------------------------------------------------------------------------------
\* What the person does.
Moved(t) ==
    /\ Mine(t) /\ view' = t /\ visited' = visited \cup {t.url} /\ denied' = (denied /\ t.moves = view.moves)
    /\ UNCHANGED <<listing, check, browse, upheavals>>

ChooseWorkspace(w) ==
    /\ view.spaces.kind = "ready" /\ w \in view.spaces.items /\ w # view.scope[1]
    /\ Moved(UpdateUrl(Next([view EXCEPT !.auto = TRUE, !.projects = Unread], <<w, "none">>), <<w, "none">>))

ChooseProject(p) ==
    /\ Authorized(view) /\ view.projects.kind = "ready" /\ p \in view.projects.items /\ p # view.scope[2]
    /\ Moved(UpdateUrl(Next(view, <<view.scope[1], p>>), <<view.url[1], p>>))

\* A traversal, and the location events that follow a change of the URL.
Traverse(u) ==
    /\ u \in visited /\ u # view.url /\ Moved(RestoreScope([view EXCEPT !.url = u]))

Announce ==
    /\ view.announced /\ Moved(RestoreScope([view EXCEPT !.announced = FALSE]))

RetryAccess ==
    /\ view.spaces.kind # "loading" /\ ~view.checking
    /\ view' = [view EXCEPT !.checking = TRUE, !.due = @ \cup {"check"}, !.spaces = IF @.kind = "ready" THEN @ ELSE Unread]
    /\ upheavals < MaxChanges /\ upheavals' = upheavals + 1
    /\ UNCHANGED <<listing, check, browse, visited, denied>>

RetryProjects ==
    /\ Authorized(view) /\ view.projects.kind = "error"
    /\ view' = [view EXCEPT !.projects = Unread, !.due = @ \cup {"browse"}]
    /\ UNCHANGED <<listing, check, browse, visited, denied, upheavals>>

\* saved: the wizard wrote a project; the URL goes first, then the scope and its list.
Saved(p) ==
    /\ Authorized(view) /\ p \notin listing.projects /\ Home[p] = view.scope[1] /\ view.scope[1] \in listing.members
    /\ listing' = [listing EXCEPT !.projects = @ \cup {p}]
    /\ LET moved == UpdateUrl(view, <<view.scope[1], p>>) IN
         view' = [Next(moved, <<moved.scope[1], p>>) EXCEPT !.projects = Unread]
    /\ Mine(view') /\ visited' = visited \cup {view'.url} /\ denied' = FALSE
    /\ UNCHANGED <<check, browse, upheavals>>

\* onArchived: the scope first, then the URL.
Archived ==
    /\ Authorized(view) /\ Known(view)
    /\ Moved([UpdateUrl(Next(view, <<view.scope[1], "none">>), <<view.url[1], "none">>) EXCEPT !.projects = Unread])

ChangeMembers(w) ==
    /\ upheavals < MaxChanges /\ upheavals' = upheavals + 1
    /\ listing' = [listing EXCEPT !.members = IF w \in @ THEN @ \ {w} ELSE @ \cup {w}]
    /\ UNCHANGED <<view, check, browse, visited, denied>>

SelectionNext ==
    \/ Render \/ ListWorkspaces \/ ListProjects \/ AccessDenied \/ ProjectsDenied \/ ReceiveWorkspaces \/ ReceiveProjects
    \/ Announce \/ RetryAccess \/ RetryProjects \/ Archived
    \/ \E w \in Workspaces : ChooseWorkspace(w) \/ ChangeMembers(w)
    \/ \E p \in Projects : ChooseProject(p) \/ Saved(p)
    \/ \E u \in visited : Traverse(u)

------------------------------------------------------------------------------
SelectionTypeOK ==
    /\ listing.members \subseteq Workspaces /\ listing.projects \subseteq Projects
    /\ view.spaces.kind \in {"loading", "ready", "error"} /\ view.projects.kind \in {"loading", "ready", "error"}
    /\ view.moves <= MaxMoves /\ view.pending <= view.moves /\ view.due \subseteq {"check", "browse"}
    /\ denied \in BOOLEAN /\ upheavals \in 0..MaxChanges

Quiet == ~check.on /\ ~browse.on /\ view.due = {} /\ ~view.announced

\* The page shows a project only in the workspace it belongs to; no denial is
\* lost in a check that had begun before it; and once every read is in, the
\* page stands in a workspace that was read, at the address that names it
\* (workspace-picker.tsx: retryAccess, subscribeAccessDenied, restoreScope).
SelectionHolds ==
    /\ Authorized(view) /\ Known(view) => Home[view.scope[2]] = view.scope[1]
    /\ denied => "check" \in view.due \/ (check.on /\ check.moves = view.moves /\ view.pending = view.moves)
    /\ Quiet /\ view.scope[1] # "none" => Authorized(view) /\ view.url[1] = view.scope[1]
    /\ Quiet /\ Authorized(view) /\ Known(view) => view.url = view.scope
=============================================================================
