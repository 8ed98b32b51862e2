---------------------------- MODULE DraftEditor ----------------------------
(***************************************************************************)
(* The draft editor of one browser tab: features/live/drafts.tsx with the  *)
(* dirty guard, the recovery buffers (services/live/draft-recovery.ts) and *)
(* the edit route, while other people edit the same drafts, requests and   *)
(* answers get lost and sessions end in the middle of a save.              *)
(*                                                                         *)
(* A text is a number: n > 0 is the n-th one typed in this tab, 0 and      *)
(* below are the server's. The fields are disabled while something is      *)
(* under way. Lists, senders and generation never touch the text.          *)
(***************************************************************************)
EXTENDS Integers, FiniteSets, Sequences

CONSTANTS Actors, MaxTexts, MaxOthers, MaxSessions,
          DraftLists,   \* the sets of drafts a project may have
          MaxTrouble    \* bound: drafts and lost answers together

VARIABLES server,       \* draft -> the texts of its revisions, oldest first
          settled,      \* saves the server has a record of under their key
          tab,          \* the editor
          kept,         \* recovery buffers, by actor and draft
          sent,         \* requests to save that were sent and not answered
          typists,      \* who typed each text
          passed,       \* texts typed over, discarded, or passed by (PassedBy)
          others, sessions, lost

editorVars == <<server, settled, tab, kept, sent, typists, passed, others, sessions, lost>>

None == "none"
NoBuffer == [text |-> 0, version |-> 0]
Fresh(a) == [actor |-> a, draft |-> None, version |-> 0, text |-> 0, base |-> 0,
             awaits |-> FALSE, next |-> None]

Drafts == DOMAIN server
Version(d) == Len(server[d])
Unsaved == tab.draft # None /\ tab.text # tab.base
Here == <<tab.actor, tab.draft>>

\* The fingerprint stands for its key: the same save goes out under the same
\* one until it succeeds or the editor is gone (ActionIntent).
Fingerprint == [session |-> sessions, draft |-> tab.draft, version |-> tab.version, text |-> tab.text]

------------------------------------------------------------------------------
(* Sessions and the recovery buffers                                       *)

SignIn(a) ==
    /\ tab.actor = None /\ sessions < MaxSessions
    /\ sessions' = sessions + 1 /\ tab' = Fresh(a)
    /\ UNCHANGED <<server, settled, kept, sent, typists, passed, others, lost>>

\* Mutant: nothing is retained while a save is under way.
Retained_WhenIdle == IF Unsaved /\ ~tab.awaits
                     THEN [kept EXCEPT ![Here] = [text |-> tab.text, version |-> tab.version]]
                     ELSE kept

\* retainBuffer, before the token is cleared or the page unloads
Retained == IF Unsaved
            THEN [kept EXCEPT ![Here] = [text |-> tab.text, version |-> tab.version]]
            ELSE kept

\* A buffer that was not shown when its draft was opened is dropped by the
\* next one for that draft, by its save and by its discard.
PassedBy(x) == {kept[x].text}
Forgotten == [kept EXCEPT ![Here] = NoBuffer]

SessionEnds ==
    /\ tab.actor # None
    /\ kept' = Retained /\ tab' = Fresh(None)
    /\ passed' = passed \cup (IF Unsaved THEN PassedBy(Here) ELSE {})
    /\ UNCHANGED <<server, settled, sent, typists, others, sessions, lost>>

------------------------------------------------------------------------------
(* Opening and typing                                                      *)

Applied(d) == [tab EXCEPT !.draft = d, !.version = Version(d), !.text = server[d][Version(d)],
                          !.base = server[d][Version(d)], !.awaits = FALSE, !.next = None]

\* Mutant: whoever signed in is shown what was retained for the draft.
Recovered_Anyones(d) ==
    LET found == {a \in Actors : kept[<<a, d>>] # NoBuffer} IN
    IF found = {} THEN NoBuffer ELSE kept[<<CHOOSE a \in found : TRUE, d>>]

Recovered(d) == kept[<<tab.actor, d>>]

\* The draft the address names, when the page loads: its buffer is shown to
\* the person who typed it, beside the current revision if that is another.
OpenFromAddress(d) ==
    /\ tab.actor # None /\ tab.draft = None
    /\ tab' = IF Recovered(d) = NoBuffer THEN Applied(d) ELSE [Applied(d) EXCEPT !.text = Recovered(d).text]
    /\ UNCHANGED <<server, settled, kept, sent, typists, passed, others, sessions, lost>>

\* Clean, or the person chose to discard; cancelling changes nothing. No
\* buffer is looked for.
OpenFromList(d) ==
    /\ tab.actor # None /\ ~tab.awaits
    /\ tab' = Applied(d)
    /\ kept' = IF Unsaved THEN Forgotten ELSE kept
    /\ passed' = passed \cup (IF Unsaved THEN {tab.text} \cup PassedBy(Here) ELSE {})
    /\ UNCHANGED <<server, settled, sent, typists, others, sessions, lost>>

Type ==
    /\ tab.draft # None /\ ~tab.awaits /\ Len(typists) < MaxTexts
    /\ typists' = Append(typists, tab.actor)
    /\ tab' = [tab EXCEPT !.text = Len(typists')]
    /\ passed' = IF Unsaved THEN passed \cup {tab.text} ELSE passed
    /\ UNCHANGED <<server, settled, kept, sent, others, sessions, lost>>

------------------------------------------------------------------------------
(* Saving                                                                  *)

\* Alone, or as the person's answer when another draft is opened.
SaveRevision(next) ==
    /\ Unsaved /\ ~tab.awaits
    /\ sent' = sent \cup {Fingerprint}
    /\ tab' = [tab EXCEPT !.awaits = TRUE, !.next = next]
    /\ UNCHANGED <<server, settled, kept, typists, passed, others, sessions, lost>>

Fits(save) == save.version = Version(save.draft)

\* edit_draft: what is recorded under its key is not done twice, any other
\* save has to name the current version. A refusal leaves nothing.
EditDraft(save) ==
    /\ save \notin settled /\ Fits(save)
    /\ server' = [server EXCEPT ![save.draft] = Append(@, save.text)]
    /\ settled' = settled \cup {save}
    /\ UNCHANGED <<tab, kept, sent, typists, passed, others, sessions, lost>>

Awaited(save) == tab.actor # None /\ tab.awaits /\ save = Fingerprint

\* persistRevision and then what the guard held up
Saved(save) ==
    /\ Awaited(save) /\ save \in settled
    /\ kept' = Forgotten /\ sent' = sent \ {save}
    /\ passed' = passed \cup (PassedBy(Here) \ {save.text})
    /\ tab' = IF tab.next # None THEN Applied(tab.next)
              ELSE [tab EXCEPT !.version = @ + 1, !.base = tab.text, !.awaits = FALSE]
    /\ UNCHANGED <<server, settled, typists, others, sessions, lost>>

StopsWaiting == [tab EXCEPT !.awaits = FALSE, !.next = None]

\* 412: the text stays, the current revision is shown beside it.
Refused(save) ==
    /\ Awaited(save) /\ save \notin settled /\ ~Fits(save)
    /\ tab' = StopsWaiting /\ sent' = sent \ {save}
    /\ UNCHANGED <<server, settled, kept, typists, passed, others, sessions, lost>>

\* The answer is lost, or the browser gives up and the request still arrives.
GiveUp(save) ==
    /\ Awaited(save) /\ Cardinality(Drafts) + lost < MaxTrouble
    /\ lost' = lost + 1 /\ tab' = StopsWaiting
    /\ UNCHANGED <<server, settled, kept, sent, typists, passed, others, sessions>>

\* Nobody waits for it: a session that ended, or one that gave up.
Vanishes(save) ==
    /\ ~Awaited(save) /\ sent' = sent \ {save}
    /\ UNCHANGED <<server, settled, tab, kept, typists, passed, others, sessions, lost>>

------------------------------------------------------------------------------
OtherEdits(d) ==
    /\ others < MaxOthers /\ others' = others + 1
    /\ server' = [server EXCEPT ![d] = Append(@, -others - 1)]
    /\ UNCHANGED <<settled, tab, kept, sent, typists, passed, sessions, lost>>

\* A review or approval met 412: the current revision becomes the baseline
\* under the text that was shown, which now counts as unsaved.
ExplainApprovalFailure ==
    /\ tab.draft # None /\ ~Unsaved /\ ~tab.awaits /\ tab.version # Version(tab.draft)
    /\ tab' = [Applied(tab.draft) EXCEPT !.text = tab.text]
    /\ UNCHANGED <<server, settled, kept, sent, typists, passed, others, sessions, lost>>

EditorInit ==
    /\ server \in {[d \in project |-> <<0>>] : project \in DraftLists}
    /\ settled = {} /\ tab = Fresh(None)
    /\ kept = [x \in Actors \X Drafts |-> NoBuffer] /\ sent = {}
    /\ typists = << >> /\ passed = {} /\ others = 0 /\ sessions = 0 /\ lost = 0

EditorNext ==
    \/ \E a \in Actors : SignIn(a)
    \/ \E d \in Drafts : OpenFromAddress(d) \/ OpenFromList(d) \/ OtherEdits(d)
    \/ \E next \in Drafts \cup {None} : SaveRevision(next)
    \/ \E save \in sent : \/ EditDraft(save) \/ Saved(save) \/ Refused(save)
                          \/ GiveUp(save) \/ Vanishes(save)
    \/ SessionEnds \/ Type \/ ExplainApprovalFailure

------------------------------------------------------------------------------
EditorTypeOK ==
    /\ tab.actor \in Actors \cup {None} /\ tab.draft \in Drafts \cup {None}
    /\ tab.awaits => Fingerprint \in sent
    /\ Len(typists) <= MaxTexts /\ \A n \in passed : n <= Len(typists)

Written == UNION {{server[d][n] : n \in DOMAIN server[d]} : d \in Drafts}

\* A text that was typed is in the editor, in a recovery buffer of its author
\* or in a revision, unless the author typed over it, discarded it or passed
\* its buffer by - whatever becomes of the save it was in and of the session
\* (retainBuffer, forgetBuffer, persistRevision).
TypedTextIsKept ==
    \A n \in DOMAIN typists :
        \/ n \in Written \cup passed \/ tab.text = n
        \/ \E d \in Drafts : kept[<<typists[n], d>>].text = n

\* What one person typed and did not save is never shown to another who signs
\* in on the same tab (DraftRecovery.find, restoreBuffer).
OwnTextOnly == tab.text > 0 /\ tab.text \notin Written => typists[tab.text] = tab.actor

\* A save adds a revision to the one its author started from: nobody's
\* revision in between is passed over, and none is written twice.
SavesFollowTheirBaseline ==
    \A save \in settled : save.version < Version(save.draft) /\ server[save.draft][save.version + 1] = save.text

\* What is typed in the draft editor is neither lost nor shown to another
\* person, and a save follows the revision its author started from
\* (TypedTextIsKept, OwnTextOnly, SavesFollowTheirBaseline).
EditorKeepsText == TypedTextIsKept /\ OwnTextOnly /\ SavesFollowTheirBaseline
==============================================================================
