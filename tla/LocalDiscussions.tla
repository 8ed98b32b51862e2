-------------------------- MODULE LocalDiscussions --------------------------
(***************************************************************************)
(* Device discussions: services/live/discussions.ts keeps a thread of      *)
(* notes in the browser's storage, shared by its tabs, and                 *)
(* services/live/conversation-threads.ts saves a copy of it to the         *)
(* workspace. Tabs write behind a lock the browser may lack, storage may   *)
(* fail, a reply of the workspace may be lost.                             *)
(***************************************************************************)
EXTENDS Integers, FiniteSets, Sequences

CONSTANTS Browsers,   \* tabs of one account on one device
          Locking,    \* navigator.locks is there
          MaxNotes, MaxCopies, MaxFailures

VARIABLES device,     \* stored thread: number of the last write, notes
          windows,    \* each tab's store: snapshot, what it last read, pending write
          saves,      \* each tab's imports: frozen body, its key, call under way
          workspace,  \* threads created in the workspace
          noted, tried, failures

localVars == <<device, windows, saves, workspace, noted, tried, failures>>

NoSave == [attempt |-> 0, body |-> {}, uncertain |-> FALSE, calling |-> FALSE, done |-> FALSE]
Opened == [notes |-> device.notes, raw |-> device.number, memory |-> FALSE, stage |-> "idle", new |-> {}, removing |-> FALSE,
           dropped |-> {}]  \* notes the person removed here: for the property

\* The constructor: a new tab, or a reload of one, reads what is stored.
OpenStore(w) ==
    /\ windows[w].stage = "idle"
    /\ windows' = [windows EXCEPT ![w] = Opened] /\ saves' = [saves EXCEPT ![w] = NoSave]
    /\ UNCHANGED <<device, workspace, noted, tried, failures>>

\* append: a note the person typed here. write() takes one at a time.
AppendNote(w) ==
    /\ windows[w].stage = "idle" /\ noted < MaxNotes /\ noted' = noted + 1
    /\ windows' = [windows EXCEPT ![w].stage = "queued", ![w].new = {noted + 1}, ![w].removing = FALSE]
    /\ UNCHANGED <<device, saves, workspace, tried, failures>>

\* Remove local copy is offered where the copy was saved.
RemoveCopy(w) ==
    /\ windows[w].stage = "idle" /\ saves[w].done /\ windows[w].notes # {}
    /\ windows' = [windows EXCEPT ![w].stage = "queued", ![w].new = {}, ![w].removing = TRUE]
    /\ UNCHANGED <<device, saves, workspace, noted, tried, failures>>

\* Mutant: the tab does not wait for the others.
MayEnter_AtOnce(w) == TRUE

MayEnter(w) == \A v \in Browsers \ {w} : windows[v].stage # "writing"

Written(w) == IF windows[w].removing THEN {} ELSE windows[w].notes \cup windows[w].new
Idle(w, notes) == [windows[w] EXCEPT !.stage = "idle", !.notes = notes, !.dropped = @ \cup (windows[w].notes \ notes)]

\* withLocalWrite: behind the lock the store is compared with what this tab
\* read; a tab that cannot lock keeps its edits to itself.
EnterWrite(w) ==
    /\ windows[w].stage = "queued" /\ UNCHANGED <<device, saves, workspace, noted, tried, failures>>
    /\ IF Locking
       THEN /\ MayEnter(w)
            /\ windows' = [windows EXCEPT ![w] =
                   IF windows[w].memory THEN Idle(w, Written(w))
                   ELSE IF windows[w].raw = device.number THEN [windows[w] EXCEPT !.stage = "writing"]
                   ELSE Idle(w, windows[w].notes)]
       ELSE windows' = [windows EXCEPT ![w] = [Idle(w, Written(w)) EXCEPT !.memory = TRUE]]

\* save: setItem, then the snapshot the tab shows.
StoreWrite(w) ==
    /\ windows[w].stage = "writing" /\ UNCHANGED <<saves, workspace, noted, tried>>
    /\ \/ /\ device' = [number |-> device.number + 1, notes |-> Written(w)] /\ UNCHANGED failures
          /\ windows' = [windows EXCEPT ![w] = [Idle(w, Written(w)) EXCEPT !.raw = device.number + 1]]
       \/ /\ failures < MaxFailures /\ failures' = failures + 1 /\ UNCHANGED device
          /\ windows' = [windows EXCEPT ![w] = Idle(w, Written(w))]

\* The scope changed while the write waited.
AbandonWrite(w) ==
    /\ windows[w].stage = "queued" /\ windows' = [windows EXCEPT ![w] = Idle(w, windows[w].notes)]
    /\ UNCHANGED <<device, saves, workspace, noted, tried, failures>>

------------------------------------------------------------------------------
\* Mutant: what is sent again is what the thread says by then.
Frozen_Never(w) == windows[w].notes

\* import: an attempt whose outcome is unknown is sent again as it was, so that
\* its key finds what it may have created.
Frozen(w) == IF saves[w].body = {} THEN windows[w].notes ELSE saves[w].body

SaveToWorkspace(w) ==
    LET first == saves[w].body = {} IN
    /\ ~saves[w].calling /\ ~saves[w].done /\ windows[w].notes # {}
    /\ first => tried < MaxCopies
    /\ tried' = IF first THEN tried + 1 ELSE tried
    /\ saves' = [saves EXCEPT ![w].body = Frozen(w), ![w].calling = TRUE,
                              ![w].attempt = IF first THEN tried + 1 ELSE @]
    /\ UNCHANGED <<device, windows, workspace, noted, failures>>

\* createConversationThread: a key that is known returns its thread.
CreateThread(w) ==
    LET copy == [attempt |-> saves[w].attempt, notes |-> saves[w].body] IN
    workspace' = IF \E n \in DOMAIN workspace : workspace[n] = copy THEN workspace ELSE Append(workspace, copy)

SaveAnswered(w) ==
    /\ saves[w].calling /\ CreateThread(w)
    /\ saves' = [saves EXCEPT ![w] = [NoSave EXCEPT !.done = TRUE]]
    /\ UNCHANGED <<device, windows, noted, tried, failures>>

\* The reply is lost: the thread may be there or not.
SaveLost(w) ==
    /\ saves[w].calling /\ failures < MaxFailures /\ failures' = failures + 1
    /\ CreateThread(w) \/ UNCHANGED workspace
    /\ saves' = [saves EXCEPT ![w].calling = FALSE, ![w].uncertain = TRUE]
    /\ UNCHANGED <<device, windows, noted, tried>>

\* A source was revoked: checked before the key, so also for a copy that is
\* there. Only a first refusal proves that nothing was created.
SaveRefused(w) ==
    /\ saves[w].calling /\ failures < MaxFailures /\ failures' = failures + 1
    /\ saves' = [saves EXCEPT ![w] = IF saves[w].uncertain THEN [@ EXCEPT !.calling = FALSE] ELSE NoSave]
    /\ UNCHANGED <<device, windows, workspace, noted, tried>>

------------------------------------------------------------------------------
LocalInit ==
    /\ device = [number |-> 0, notes |-> {}]
    /\ windows = [w \in Browsers |-> Opened] /\ saves = [w \in Browsers |-> NoSave]
    /\ workspace = << >> /\ noted = 0 /\ tried = 0 /\ failures = 0

LocalNext ==
    \E w \in Browsers :
        \/ OpenStore(w) \/ AppendNote(w) \/ RemoveCopy(w)
        \/ EnterWrite(w) \/ StoreWrite(w) \/ AbandonWrite(w)
        \/ SaveToWorkspace(w) \/ SaveAnswered(w) \/ SaveLost(w) \/ SaveRefused(w)

------------------------------------------------------------------------------
LocalTypeOK ==
    /\ device.notes \subseteq 1..MaxNotes /\ noted \in 0..MaxNotes /\ tried \in 0..MaxCopies
    /\ \A w \in Browsers : windows[w].stage \in {"idle", "queued", "writing"}
    /\ \A n \in DOMAIN workspace : workspace[n].attempt \in 1..tried

RemovedHere(n) == \E w \in Browsers : n \in windows[w].dropped
CopiedOnce == \A n, k \in DOMAIN workspace : workspace[n].attempt = workspace[k].attempt => n = k

NoteIsKept ==
    (\A n \in device.notes \ device'.notes : RemovedHere(n)') /\ CopiedOnce'

\* No tab overwrites what another tab stored: a note leaves the device only by
\* a tab whose person saw it and removed it; and one save to the workspace makes one
\* copy, however often its reply was lost or refused and whatever was typed in
\* between (withLocalWrite, save, import).
DeviceNotesAreKept == [][NoteIsKept]_localVars
=============================================================================
