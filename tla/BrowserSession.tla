---- MODULE BrowserSession ----
(***************************************************************************)
(* The session of one browser tab: the cookie session behind it, the Neon  *)
(* adapter that keeps the token, and SessionScope with the actor and the   *)
(* generation.  Page loads, renewals and invalidations race; a response is *)
(* made with the cookie of its time and may arrive much later.             *)
(***************************************************************************)
EXTENDS Naturals, FiniteSets

CONSTANTS Users,          \* subjects that may sign in
          MaxGeneration,  \* bound: scope changes and invalidations
          MaxLoads        \* bound: page loads

VARIABLES cookie,     \* subject of the cookie session, shared with other tabs, or "none"
          storage,    \* the tab's sessionStorage: a return transaction, the invalidated mark
          adapter,    \* createNeonAuthAdapter: the closure of this page
          scope,      \* SessionScope: actor, token (by its subject) and generation
          wire,       \* the request of the page that is under way
          waiters,    \* generations of the scope that wait for the renewal
          loads       \* page loads so far

sessionVars == <<cookie, storage, adapter, scope, wire, waiters, loads>>

NoWire == [op |-> "none", generation |-> 0, expected |-> "none", answer |-> "none"]
SignedOut == [actor |-> "none", token |-> "none"]
Clean == [blocked |-> FALSE, subject |-> "none", token |-> "none", generation |-> 0]

SessionInit ==
    /\ cookie \in Users \cup {"none"}
    /\ storage = [transaction |-> FALSE, invalidated |-> FALSE]
    /\ adapter = Clean
    /\ scope = [actor |-> "none", token |-> "none", generation |-> 0]
    /\ wire = [NoWire EXCEPT !.op = "session"]
    /\ waiters = {}
    /\ loads = 1

SessionTypeOK ==
    /\ cookie \in Users \cup {"none"}
    /\ adapter.subject \in Users \cup {"none"} /\ adapter.token \in Users \cup {"none"}
    /\ scope.actor \in Users \cup {"none"} /\ scope.token \in Users \cup {"none"}
    /\ wire.op \in {"none", "session", "token"} /\ wire.answer \in Users \cup {"none", "nobody", "error"}
    /\ waiters \subseteq 0 .. MaxGeneration

----------------------------------------------------------------------------
(* Invalidation.                                                           *)

\* SessionScope.setToken without a token: a new generation without an actor.
Cleared(s) == IF s.token = "none" THEN s
              ELSE [actor |-> "none", token |-> "none", generation |-> s.generation + 1]

\* clear: the adapter blocks, the tab remembers it, the scope is emptied; a
\* return transaction stays unless the caller removes it.
Clear(transaction) ==
    /\ adapter' = [blocked |-> TRUE, subject |-> "none", token |-> "none", generation |-> adapter.generation + 1]
    /\ storage' = [transaction |-> transaction, invalidated |-> TRUE]
    /\ scope' = Cleared(scope)
    /\ waiters' = {}

HasRoom == adapter.generation < MaxGeneration /\ scope.generation < MaxGeneration

\* signOut here, which also drops a sign-in that was begun and whose request to
\* end the cookie session may fail; or the broadcast of another tab, which ends
\* this session alone.
Invalidate ==
    /\ HasRoom /\ ~adapter.blocked
    /\ Clear(FALSE) \/ Clear(storage.transaction)
    /\ cookie' \in {cookie, "none"}
    /\ UNCHANGED <<wire, loads>>

----------------------------------------------------------------------------
(* Requests to the cookie session.                                         *)

Respond ==
    /\ wire.op # "none" /\ wire.answer = "none"
    /\ wire' \in {[wire EXCEPT !.answer = IF cookie = "none" THEN "nobody" ELSE cookie], [wire EXCEPT !.answer = "error"]}
    /\ UNCHANGED <<cookie, storage, adapter, scope, waiters, loads>>

\* guard of the adapter: the answer belongs to an earlier session.
Outdated == wire.generation # adapter.generation \/ adapter.blocked

\* initialize: the cookie names the subject, the token is asked for next.
ReceiveSession ==
    /\ wire.op = "session" /\ wire.answer # "none"
    /\ \/ /\ Outdated \/ wire.answer = "nobody"
          /\ wire' = NoWire
          /\ UNCHANGED <<storage, adapter, scope, waiters>>
       \/ /\ ~Outdated /\ wire.answer \in Users
          /\ adapter' = [adapter EXCEPT !.subject = wire.answer]
          /\ wire' = [op |-> "token", generation |-> adapter.generation, expected |-> wire.answer, answer |-> "none"]
          /\ waiters' = {scope.generation}
          /\ UNCHANGED <<storage, scope>>
       \/ /\ ~Outdated /\ wire.answer = "error" /\ HasRoom
          /\ Clear(storage.transaction)
          /\ wire' = NoWire
    /\ UNCHANGED <<cookie, loads>>

\* refresh: a token of the expected subject is published to those whose scope is
\* still current; any other answer invalidates the session.
Accepted == ~Outdated /\ wire.answer = wire.expected

ReceiveToken ==
    /\ wire.op = "token" /\ wire.answer # "none"
    /\ \/ /\ Accepted
          /\ adapter' = [adapter EXCEPT !.token = wire.answer]
          /\ scope' = IF scope.generation \notin waiters THEN scope
                      ELSE IF scope.token = "none"
                      \* hydration, or the callback: the actor with its token
                      THEN [actor |-> adapter.subject, token |-> wire.answer, generation |-> scope.generation + 1]
                      ELSE IF adapter.subject = scope.actor THEN [scope EXCEPT !.token = wire.answer] ELSE scope
          /\ waiters' = {}
          /\ UNCHANGED storage
       \/ /\ ~Outdated /\ wire.answer # wire.expected /\ HasRoom
          /\ Clear(storage.transaction)
       \/ /\ Outdated
          /\ UNCHANGED <<adapter, scope, storage, waiters>>
    /\ wire' = NoWire
    /\ UNCHANGED <<cookie, loads>>

\* The timer before expiry, or a request that was answered 401: one renewal,
\* which later callers join.
Renew ==
    /\ scope.token # "none" /\ ~adapter.blocked /\ wire.op \in {"none", "token"}
    /\ waiters' = waiters \cup {scope.generation}
    /\ wire' = IF wire.op = "token" THEN wire
               ELSE [op |-> "token", generation |-> adapter.generation, expected |-> adapter.subject, answer |-> "none"]
    /\ UNCHANGED <<cookie, storage, adapter, scope, loads>>

----------------------------------------------------------------------------
(* The user.                                                               *)

\* next: another workspace or project; the token stays.
Move ==
    /\ scope.token # "none" /\ scope.generation < MaxGeneration
    /\ scope' = [scope EXCEPT !.generation = @ + 1]
    /\ UNCHANGED <<cookie, storage, adapter, wire, waiters, loads>>

\* signIn, here or in another tab: another cookie; here also the return transaction.
SignIn ==
    /\ cookie' \in Users \ {cookie}
    /\ storage' \in {storage, [storage EXCEPT !.transaction = TRUE]}
    /\ UNCHANGED <<adapter, scope, wire, waiters, loads>>

\* A page load: the closures are new; what the tab stored is not.
Load ==
    /\ loads < MaxLoads
    /\ loads' = loads + 1
    /\ adapter' = [Clean EXCEPT !.blocked = storage.invalidated]
    /\ scope' = [actor |-> "none", token |-> "none", generation |-> 0]
    /\ wire' = IF storage.invalidated THEN NoWire ELSE [NoWire EXCEPT !.op = "session"]
    /\ waiters' = {}
    /\ UNCHANGED <<cookie, storage>>

\* completeCallback: the page the sign-in returns to; the transaction is used once.
Callback ==
    /\ loads < MaxLoads /\ storage.transaction
    /\ loads' = loads + 1
    /\ storage' = [transaction |-> FALSE, invalidated |-> FALSE]
    /\ adapter' = Clean
    /\ scope' = [actor |-> "none", token |-> "none", generation |-> 0]
    /\ wire' = [NoWire EXCEPT !.op = "session"]
    /\ waiters' = {}
    /\ UNCHANGED cookie

SessionNext ==
    \/ Invalidate
    \/ Respond
    \/ ReceiveSession
    \/ ReceiveToken
    \/ Renew
    \/ Move
    \/ SignIn
    \/ Load
    \/ Callback

SessionSpec == SessionInit /\ [][SessionNext]_sessionVars

----------------------------------------------------------------------------

\* The token the page sends is the one of the actor it shows, whoever signs in
\* elsewhere meanwhile and however late a renewal is answered.
TokenIsActors == scope.token # "none" => scope.token = scope.actor /\ adapter.subject = scope.actor

\* After a sign-out neither a late answer nor a page load brings the session
\* back, even if the cookie survived; only a new sign-in of this tab does.
NoRevival == [][ /\ adapter.blocked /\ scope'.token # "none" => FALSE
                 /\ adapter.blocked /\ ~adapter'.blocked => storage.transaction ]_sessionVars
====
