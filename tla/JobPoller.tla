---- MODULE JobPoller ----
(***************************************************************************)
(* startJobPoller: the progress of a background job is read again and      *)
(* again while the page can be seen and is online.  Page events, timers,   *)
(* timeouts and answers come in any order.  A delay is over or is not.     *)
(***************************************************************************)
EXTENDS Naturals

CONSTANT MaxBackoff     \* failures that still lengthen the delay (4 in the code)

VARIABLES page,     \* what isVisible and isOnline answer
          poller,   \* the closure of startJobPoller
          jobOver   \* the job on the server is completed, failed or cancelled

pollerVars == <<page, poller, jobOver>>

CanRead(pg) == pg.visible /\ pg.online
Running(p) == ~p.stopped /\ ~p.done

\* poll: a request of its own, unless there is one or it cannot be read.
Poll(p, pg) ==
    IF Running(p) /\ ~p.inFlight /\ CanRead(pg)
    THEN [p EXCEPT !.inFlight = TRUE, !.aborted = FALSE, !.timedOut = FALSE, !.timer = FALSE]
    ELSE [p EXCEPT !.timer = FALSE]

\* schedule: one timer, for the deadline.
Schedule(p, pg) == [p EXCEPT !.timer = Running(p) /\ CanRead(pg)]

Idle == [stopped |-> FALSE, done |-> FALSE, inFlight |-> FALSE, aborted |-> FALSE,
         timedOut |-> FALSE, failures |-> 0, timer |-> FALSE, due |-> TRUE]

PollerInit ==
    /\ page \in [visible : BOOLEAN, online : BOOLEAN]
    /\ poller = Poll(Idle, page)
    /\ jobOver = FALSE

PollerTypeOK ==
    /\ page \in [visible : BOOLEAN, online : BOOLEAN]
    /\ poller \in [stopped : BOOLEAN, done : BOOLEAN, inFlight : BOOLEAN, aborted : BOOLEAN,
                   timedOut : BOOLEAN, failures : 0 .. MaxBackoff, timer : BOOLEAN, due : BOOLEAN]

\* availability, on visibilitychange, online and offline.
\* Mutant: a page that is shown again polls at once.
Availability_AtOnce(pg) ==
    IF ~Running(poller) THEN [poller EXCEPT !.timer = FALSE]
    ELSE IF ~CanRead(pg) THEN [poller EXCEPT !.timer = FALSE, !.aborted = poller.inFlight]
    ELSE IF poller.inFlight THEN [poller EXCEPT !.timer = FALSE]
    ELSE Poll(poller, pg)

Availability(pg) ==
    IF ~Running(poller) THEN [poller EXCEPT !.timer = FALSE]
    ELSE IF ~CanRead(pg) THEN [poller EXCEPT !.timer = FALSE, !.aborted = poller.inFlight]
    ELSE IF poller.inFlight THEN [poller EXCEPT !.timer = FALSE]
    ELSE IF poller.due THEN Poll(poller, pg) ELSE Schedule(poller, pg)

PageEvent ==
    /\ \/ page' = [page EXCEPT !.visible = ~@]
       \/ page' = [page EXCEPT !.online = ~@]
    /\ poller' = Availability(page')
    /\ UNCHANGED jobOver

DeadlinePasses ==
    /\ ~poller.due
    /\ poller' = [poller EXCEPT !.due = TRUE]
    /\ UNCHANGED <<page, jobOver>>

TimerFires ==
    /\ poller.timer /\ poller.due
    /\ poller' = Poll(poller, page)
    /\ UNCHANGED <<page, jobOver>>

\* After 10 s the request is aborted; that it was the timeout is remembered.
TimeOut ==
    /\ poller.inFlight /\ ~poller.timedOut
    /\ poller' = [poller EXCEPT !.timedOut = TRUE, !.aborted = TRUE]
    /\ UNCHANGED <<page, jobOver>>

\* The finally block: the next request now, or after the delay.
\* Mutant: a request that was aborted leaves without a next one.
Rearm_NotAborted(p, soon) ==
    LET settled == [p EXCEPT !.inFlight = FALSE, !.due = soon] IN
    IF ~Running(p) \/ p.aborted THEN [p EXCEPT !.inFlight = FALSE]
    ELSE IF soon /\ CanRead(page) THEN Poll(settled, page) ELSE Schedule(settled, page)

Rearm(p, soon) ==
    LET settled == [p EXCEPT !.inFlight = FALSE, !.due = soon] IN
    IF ~Running(p) THEN [p EXCEPT !.inFlight = FALSE]
    ELSE IF soon /\ CanRead(page) THEN Poll(settled, page) ELSE Schedule(settled, page)

\* A value that is no longer wanted is read again at once.
SettleValue ==
    /\ poller.inFlight
    /\ poller' = IF poller.aborted \/ ~CanRead(page) THEN Rearm(poller, TRUE)
                 ELSE Rearm([poller EXCEPT !.failures = 0, !.done = jobOver], FALSE)
    /\ UNCHANGED <<page, jobOver>>

\* A request aborted by the page is no failure; a cancelled scope stops the
\* poller, a refusal ends it, anything else is retried later and later.
SettleError ==
    /\ poller.inFlight
    /\ \E cause \in {"cancelled", "refused", "transient"} :
         poller' =
           IF ~CanRead(page) \/ (poller.aborted /\ ~poller.timedOut) THEN Rearm(poller, TRUE)
           ELSE IF cause = "cancelled" /\ ~poller.timedOut THEN Rearm([poller EXCEPT !.stopped = TRUE, !.timer = FALSE], TRUE)
           ELSE IF cause = "refused" /\ ~poller.timedOut THEN Rearm([poller EXCEPT !.done = TRUE], FALSE)
           ELSE Rearm([poller EXCEPT !.failures = IF @ < MaxBackoff THEN @ + 1 ELSE @], FALSE)
    /\ UNCHANGED <<page, jobOver>>

\* stop, or the abort of the owner's signal.
Stop ==
    /\ ~poller.stopped
    /\ poller' = [poller EXCEPT !.stopped = TRUE, !.timer = FALSE, !.aborted = poller.inFlight]
    /\ UNCHANGED <<page, jobOver>>

JobEnds ==
    /\ ~jobOver /\ jobOver' = TRUE
    /\ UNCHANGED <<page, poller>>

PollerNext ==
    \/ PageEvent
    \/ DeadlinePasses
    \/ TimerFires
    \/ TimeOut
    \/ SettleValue
    \/ SettleError
    \/ Stop
    \/ JobEnds

PollerSpec == PollerInit /\ [][PollerNext]_pollerVars

----------------------------------------------------------------------------

\* However hiding, going offline, timeouts and answers interleave, a page that
\* can be read always has a request or a timer: polling never dies silently.
KeepsPolling == Running(poller) /\ CanRead(page) => poller.inFlight \/ poller.timer

\* Once the page stays readable, a job that is over is shown to be over, or the
\* poller was stopped or refused: timeouts and failures only put it off. Hiding
\* and showing the page never shortens a backoff or a Retry-After.
OutcomeIsShown ==
    /\ <>[]CanRead(page) => (jobOver ~> ~Running(poller))
    /\ [][~poller.inFlight /\ poller'.inFlight => poller.due]_pollerVars
====
