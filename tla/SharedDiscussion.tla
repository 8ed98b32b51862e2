-------------------------- MODULE SharedDiscussion --------------------------
(***************************************************************************)
(* Workspace discussions: api/routes/conversation_threads.py behind the    *)
(* access of services/conversation_access.py, and the page                 *)
(* features/live/discussion-server.tsx that writes notes and asks paid     *)
(* questions through services/live/conversation-threads.ts. The owner      *)
(* changes and revokes shares meanwhile, replies are lost, pages reload.   *)
(***************************************************************************)
EXTENDS Integers, FiniteSets, Sequences, Functions

CONSTANTS People, Owner,
          Does,      \* what each person's page is used for, a set of Kinds
          MaxTexts, MaxVersion, MaxMounts, MaxLost

VARIABLES discussion,  \* the thread's row and its shares
          posts,       \* notes and references written, with who wrote them
          requests,    \* requests between a page and the database
          desks,       \* each person's page
          answers,     \* paid answers each person's page received
          typed, dropped

sharedVars == <<discussion, posts, requests, desks, answers, typed, dropped>>

Grants == {"viewer", "editor", "none"}
Kinds == {"note", "sources", "rename", "delete"} \cup Grants
Keyless == {"rename", "delete", "none"}

Fresh(p, mount, api) ==
    [stage |-> "idle", sharing |-> FALSE, version |-> discussion.version, role |-> discussion.roles[p],
     sources |-> discussion.sources, stale |-> FALSE, text |-> 0, mount |-> mount, api |-> api, got |-> <<>>]

Editable(p) == desks[p].role \in {"owner", "editor"} /\ ~desks[p].stale
Question(p) == <<desks[p].text, desks[p].sources>>

\* A person whose access is gone or read-only forgets the answers kept here.
Withdrawn(p, role) == IF role \in {"owner", "editor"} THEN answers[p] ELSE << >>

\* get: the page opens, again after it went away (the answers are kept) or
\* after a reload (they are not; what was under way is nobody's any more).
OpenPage(p, reload) ==
    LET n == desks[p].mount + 1 IN
    /\ n <= MaxMounts /\ (reload \/ desks[p].stage = "idle") /\ ~desks[p].sharing
    /\ desks' = [desks EXCEPT ![p] = [Fresh(p, n, IF reload THEN n ELSE desks[p].api)
                     EXCEPT !.role = IF discussion.gone THEN "none" ELSE @, !.text = IF reload THEN 0 ELSE desks[p].text]]
    /\ answers' = [answers EXCEPT ![p] = IF reload THEN << >> ELSE Withdrawn(p, desks'[p].role)]
    /\ UNCHANGED <<discussion, posts, requests, typed, dropped>>

TypeNote(p) ==
    /\ Editable(p) /\ desks[p].stage = "idle" /\ desks[p].text = 0 /\ "note" \in Does[p] /\ typed < MaxTexts /\ typed' = typed + 1
    /\ desks' = [desks EXCEPT ![p].text = typed + 1]
    /\ UNCHANGED <<discussion, posts, requests, answers, dropped>>

\* request: one key for one payload at one version of the thread.
Request(p, kind) == [by |-> p, kind |-> kind, text |-> IF kind = "note" THEN desks[p].text ELSE 0, version |-> desks[p].version,
                     api |-> desks[p].api, mount |-> desks[p].mount, stage |-> "sent", seen |-> "none", reply |-> "none",
                     now |-> 0, sources |-> 0]
KeyOf(r) == <<r.by, r.kind, r.text, r.version, r.api>>

\* mutate, and send for a note; the share dialog keeps its own count.
Mutate(p, kind) ==
    /\ requests' = requests \cup {Request(p, kind)} /\ UNCHANGED <<discussion, posts, answers, typed, dropped>>
    /\ IF kind \in Grants
       THEN /\ p = Owner /\ desks[p].role = "owner" /\ ~desks[p].sharing
            /\ desks' = [desks EXCEPT ![p].sharing = TRUE]
       ELSE /\ desks[p].stage = "idle" /\ Editable(p)
            /\ kind = "note" => desks[p].text # 0
            /\ kind \in {"rename", "delete"} => p = Owner
            /\ desks' = [desks EXCEPT ![p].stage = "sending"]

\* ask: reads the thread again before anything is paid.
Ask(p) ==
    /\ desks[p].stage = "idle" /\ Editable(p) /\ desks[p].text # 0
    /\ desks' = [desks EXCEPT ![p].stage = "rechecking",
                     ![p].got = <<IF discussion.gone THEN "none" ELSE discussion.roles[p], discussion.version, discussion.sources>>]
    /\ UNCHANGED <<discussion, posts, requests, answers, typed, dropped>>

\* Mutant: an accepted answer is kept only once its note is saved.
Kept_WithNote(p) == FALSE

Kept(p) == Question(p) \in Range(answers[p])

Recheck(p) ==
    LET role == desks[p].got[1]
        same == desks[p].got[2] = desks[p].version
        ok == role \in {"owner", "editor"} /\ same
        seen == [desks[p] EXCEPT !.role = role, !.version = desks[p].got[2], !.got = <<>>] IN
    /\ desks[p].stage = "rechecking" /\ UNCHANGED <<discussion, posts, typed, dropped>>
    /\ answers' = [answers EXCEPT ![p] = Withdrawn(p, role)]
    /\ desks' = [desks EXCEPT ![p] = IF ok THEN [seen EXCEPT !.stage = IF Kept(p) THEN "saving" ELSE "answering"]
                                     ELSE [seen EXCEPT !.stage = "idle", !.stale = TRUE, !.sources = desks[p].got[3]]]
    /\ requests' = IF ok /\ Kept(p) THEN requests \cup {Request(p, "note")} ELSE requests

\* askBuyerOS answered: the answer is kept, then its note is appended.
Answered(p) ==
    /\ desks[p].stage = "answering" /\ answers' = [answers EXCEPT ![p] = Append(@, Question(p))]
    /\ desks' = [desks EXCEPT ![p].stage = "saving"] /\ requests' = requests \cup {Request(p, "note")}
    /\ UNCHANGED <<discussion, posts, typed, dropped>>

------------------------------------------------------------------------------
\* Behind the route. load's first statement: who may not even see the thread
\* is refused; the others wait for its row.
LoadThread(r) ==
    LET role == discussion.roles[r.by] IN
    /\ r.stage = "sent" /\ UNCHANGED <<discussion, posts, desks, answers, typed, dropped>>
    /\ requests' = (requests \ {r}) \cup {IF role = "none" \/ discussion.gone
                       THEN [r EXCEPT !.stage = "answered", !.reply = "missing"]
                       ELSE [r EXCEPT !.stage = "waiting", !.seen = role]}

\* Mutant: the role the first statement saw.
RoleNow_Seen(r) == r.seen

\* The role is read once the row is locked.
RoleNow(r) == discussion.roles[r.by]

Allowed(r) == RoleNow(r) \in IF r.kind \in {"note", "sources"} THEN {"owner", "editor"} ELSE {"owner"}
Replay(r) == r.kind \notin Keyless /\ \E q \in posts : q.key = KeyOf(r)

\* What the routes write, each with a new version.
Bumped(r) ==
    LET next == [discussion EXCEPT !.version = @ + 1] IN
    CASE r.kind = "sources" -> [next EXCEPT !.sources = next.version]
      [] r.kind = "delete" -> [next EXCEPT !.gone = TRUE]
      [] r.kind \in Grants -> [next EXCEPT !.roles = [p \in People |-> IF p = Owner THEN "owner" ELSE r.kind]]
      [] OTHER -> next

HandleRequest(r) ==
    LET applies == Allowed(r) /\ ~discussion.gone /\ ~Replay(r) /\ r.version = discussion.version
        reply == IF discussion.gone \/ ~Allowed(r) THEN "missing" ELSE IF applies \/ Replay(r) THEN "ok" ELSE "stale" IN
    /\ r.stage = "waiting" /\ UNCHANGED <<desks, answers, typed, dropped>>
    /\ applies => discussion.version < MaxVersion
    /\ discussion' = IF applies THEN Bumped(r) ELSE discussion
    /\ posts' = IF applies THEN posts \cup {[key |-> KeyOf(r), by |-> r.by, kind |-> r.kind]} ELSE posts
    /\ requests' = (requests \ {r}) \cup {[r EXCEPT !.stage = "answered", !.reply = reply, !.seen = "none",
                                                    !.now = discussion'.version, !.sources = discussion'.sources]}

\* The reply reaches the page that waits for it, or nobody.
Done(d, r) == [d EXCEPT !.stage = IF r.kind \in Grants THEN @ ELSE "idle", !.sharing = IF r.kind \in Grants THEN FALSE ELSE @]
Shown(d, r) ==
    IF r.reply = "missing" THEN [Done(d, r) EXCEPT !.role = "none"]
    ELSE IF r.reply = "stale" THEN [Done(d, r) EXCEPT !.stale = TRUE]
    ELSE IF r.kind = "note" /\ d.stage = "saving" /\ r.sources # d.sources THEN Done(d, r)
    ELSE IF r.kind = "delete" THEN [Done(d, r) EXCEPT !.role = "none"]
    ELSE [Done(d, r) EXCEPT !.version = r.now, !.sources = r.sources, !.text = IF r.kind = "note" THEN 0 ELSE @]

Receive(r) ==
    LET d == desks[r.by] IN
    /\ r.stage = "answered" /\ requests' = requests \ {r}
    /\ desks' = IF r.mount = d.mount THEN [desks EXCEPT ![r.by] = Shown(d, r)] ELSE desks
    /\ answers' = IF r.mount = d.mount /\ r.reply = "missing" THEN [answers EXCEPT ![r.by] = << >>] ELSE answers
    /\ UNCHANGED <<discussion, posts, typed, dropped>>

\* The page gives up waiting; the request may still arrive.
LoseReply(r) ==
    LET d == desks[r.by] IN
    /\ r.mount = d.mount /\ dropped < MaxLost /\ dropped' = dropped + 1
    /\ requests' = (requests \ {r}) \cup {[r EXCEPT !.mount = 0]}
    /\ desks' = [desks EXCEPT ![r.by] = Done(d, r)] /\ UNCHANGED <<discussion, posts, answers, typed>>

------------------------------------------------------------------------------
SharedInit ==
    /\ discussion = [version |-> 1, sources |-> 1, gone |-> FALSE,
                     roles |-> [p \in People |-> IF p = Owner THEN "owner" ELSE "editor"]]
    /\ desks = [p \in People |-> Fresh(p, 1, 1)] /\ answers = [p \in People |-> << >>]
    /\ posts = {} /\ requests = {} /\ typed = 0 /\ dropped = 0

SharedNext ==
    \/ \E p \in People : OpenPage(p, TRUE) \/ OpenPage(p, FALSE) \/ TypeNote(p) \/ Ask(p) \/ Recheck(p) \/ Answered(p)
    \/ \E p \in People : \E kind \in Does[p] : Mutate(p, kind)
    \/ \E r \in requests : LoadThread(r) \/ HandleRequest(r) \/ Receive(r) \/ LoseReply(r)

------------------------------------------------------------------------------
SharedTypeOK ==
    /\ discussion.version \in 1..MaxVersion /\ discussion.roles \in [People -> {"owner"} \cup Grants]
    /\ \A p \in People : desks[p].stage \in {"idle", "sending", "rechecking", "answering", "saving"} /\ desks[p].text \in 0..typed
    /\ \A r \in requests : r.kind \in Kinds /\ r.reply \in {"none", "ok", "stale", "missing"}

AdmittedNow ==
    /\ \A q \in posts' \ posts : discussion.roles[q.by] \in {"owner", "editor"} /\ ~discussion.gone
    /\ \A q \in requests \ requests', r \in requests' \ requests :
           q.stage = "waiting" /\ r.reply = "ok" => discussion'.roles[r.by] # "none"
    /\ \A p \in DOMAIN answers : IsInjective(answers'[p])

\* Nobody who is not admitted at that moment writes into a discussion or is
\* answered with it, not even when an accepted request is repeated and waits
\* for the row while the share is revoked; and an answer that was paid is not
\* paid again because its note could not be saved (load, begin_idempotency, ask).
AdmittedAtEachStep == [][AdmittedNow]_sharedVars
=============================================================================
