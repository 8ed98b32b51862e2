---- MODULE RunFeed ----
(***************************************************************************)
(* The run screen: a snapshot of the run, then its committed events by     *)
(* sequence over a stream or by polling, each of which makes the screen    *)
(* read the run again.  Reads overlap; a read is several statements of a   *)
(* READ COMMITTED transaction, and its response may be late or lost.       *)
(***************************************************************************)
EXTENDS Naturals

CONSTANTS LastEvent,  \* bound: events of the run, the first is "run.queued"
          PageLimit,  \* events of one response (200 in the code)
          Reads       \* bound: getRun requests, taken in order

VARIABLES committed,  \* number of committed events, each with a state of the run
          reads,      \* getRun requests
          screen,     \* state shown, 0 before the first response, and "none" or a transport
          cursor,     \* sequence the subscription goes on after
          batch        \* last sequence of the response being read, 0 for none

feedVars == <<committed, reads, screen, cursor, batch>>

NoRead == [phase |-> "unused", of |-> "none", state |-> 0, latest |-> 0]
Outstanding == {r \in Reads : reads[r].phase \in {"sent", "row", "answered"}}

\* The screen opens a run by reading it.
FeedInit ==
    /\ committed = 1
    /\ reads = [r \in Reads |-> IF r = 1 THEN [NoRead EXCEPT !.phase = "sent", !.of = "open"] ELSE NoRead]
    /\ screen = [state |-> 0, transport |-> "none"]
    /\ cursor = 0
    /\ batch = 0

\* emit_run_event and append_event: state and sequence under the lock of the row.
CommitEvent ==
    /\ committed < LastEvent
    /\ committed' = committed + 1
    /\ UNCHANGED <<reads, screen, cursor, batch>>

\* run_snapshot is handed the row of the run ...
ReadRow(r) ==
    /\ reads[r].phase = "sent"
    /\ reads' = [reads EXCEPT ![r].phase = "row", ![r].state = committed]
    /\ UNCHANGED <<committed, screen, cursor, batch>>

\* ... and reads the latest sequence in a later statement.
ReadLatest(r) ==
    /\ reads[r].phase = "row"
    /\ reads' = [reads EXCEPT ![r].phase = "answered", ![r].latest = committed]
    /\ UNCHANGED <<committed, screen, cursor, batch>>

\* Mutant: every snapshot moves the cursor.
ShowRun_MovesCursor(r) ==
    /\ reads[r].phase = "answered"
    /\ reads' = [reads EXCEPT ![r].phase = "over"]
    /\ screen' = [state |-> reads[r].state,
                  transport |-> IF reads[r].of = "open" THEN "sse" ELSE screen.transport]
    /\ batch = 0 \/ batch > reads[r].latest
    /\ cursor' = IF reads[r].latest > cursor THEN reads[r].latest ELSE cursor
    /\ UNCHANGED <<committed, batch>>

\* A response is shown when it arrives; the first one starts the subscription.
ShowRun(r) ==
    /\ reads[r].phase = "answered"
    /\ reads' = [reads EXCEPT ![r].phase = "over"]
    /\ screen' = [state |-> reads[r].state,
                  transport |-> IF reads[r].of = "open" THEN "sse" ELSE screen.transport]
    /\ cursor' = IF reads[r].of = "open" THEN reads[r].latest ELSE cursor
    /\ UNCHANGED <<committed, batch>>

\* The first read is repeated by hand; another one that is lost shows an error.
LoseRead(r) ==
    /\ r \in Outstanding /\ reads[r].of = "refresh"
    /\ reads' = [reads EXCEPT ![r].phase = "lost"]
    /\ UNCHANGED <<committed, screen, cursor, batch>>

\* One response of the stream or of the poll: the events after the cursor.
OpenPage ==
    /\ screen.transport # "none" /\ batch = 0 /\ cursor < committed
    /\ batch' = IF cursor + PageLimit < committed THEN cursor + PageLimit ELSE committed
    /\ UNCHANGED <<committed, reads, screen, cursor>>

\* A stream that fails is replaced by the poll of the same endpoint.
LosePage ==
    /\ batch # 0
    /\ batch' = 0
    /\ screen' = [screen EXCEPT !.transport = "poll"]
    /\ UNCHANGED <<committed, reads, cursor>>

\* Events are contiguous: each moves the cursor and makes the screen read again.
AcceptEvent(r) ==
    /\ batch # 0
    /\ reads[r].phase = "unused" /\ \A s \in Reads : s < r => reads[s].phase # "unused"
    /\ cursor' = cursor + 1
    /\ batch' = IF cursor' = batch THEN 0 ELSE batch
    /\ reads' = [reads EXCEPT ![r] = [NoRead EXCEPT !.phase = "sent", !.of = "refresh"]]
    /\ UNCHANGED <<committed, screen>>

FeedNext ==
    \/ CommitEvent
    \/ \E r \in Reads : ReadRow(r)
    \/ \E r \in Reads : ReadLatest(r)
    \/ \E r \in Reads : ShowRun(r)
    \/ \E r \in Reads : LoseRead(r)
    \/ OpenPage
    \/ LosePage
    \/ \E r \in Reads : AcceptEvent(r)

FeedTypeOK ==
    /\ committed \in 1..LastEvent /\ cursor <= committed /\ batch <= committed
    /\ \A r \in Reads : reads[r].state <= committed /\ reads[r].latest <= committed

FeedSpec == FeedInit /\ [][FeedNext]_feedVars

\* When every event was received and every read answered, a read sees the last
\* event's state, unless the opening read already counted that event as read:
\* it reads the row before the sequence, and its screen may then stay behind.
LastEventWasRead ==
    /\ cursor = committed /\ Outstanding = {}
    /\ \A r \in Reads : reads[r].phase # "lost"
    => \E r \in Reads :
          /\ reads[r].phase = "over"
          /\ \/ reads[r].state = committed
             \/ reads[r].of = "open" /\ reads[r].latest = committed
====
