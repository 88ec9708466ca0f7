----------------------------- MODULE ApiServer ------------------------------
(***************************************************************************)
(* The life of cmd/api: it opens the database, listens, serves, and ends   *)
(* when the listener fails, when a signal asks it to, or when it is        *)
(* killed.  A signal makes Shutdown wait, for so long, for the requests in *)
(* flight; each of these has a deadline of its own, which its statements   *)
(* run under and nothing else: not the wait for the body, and not COMMIT   *)
(* and ROLLBACK, which TxManager.Do sends under no context.                *)
(*                                                                         *)
(* Time passes in ticks, and only when nobody has something to do that     *)
(* takes less.  What requests do to the tables is in the other modules.    *)
(*                                                                         *)
(* A definition whose name ends in an underscore and a suffix is the one   *)
(* after it with a mistake in it; the runs show which property it breaks.  *)
(***************************************************************************)
EXTENDS Integers

CONSTANTS
    Request,          \* the requests clients may send, each on its own connection
    RequestTimeouts,  \* the values of CONTEXT_TIMEOUT, in ticks
    ShutdownTimeout   \* shutdownTimeout, in ticks

ASSUME TimeoutAssumption == RequestTimeouts \subseteq Int /\ ShutdownTimeout \in Nat \ {0}

VARIABLES
    pc,              \* run
    listener,        \* the goroutine that accepts connections
    errCh,           \* is there an error in errCh?
    signaled,        \* ctx is done
    waited,          \* ticks since Shutdown was called, up to ShutdownTimeout
    result,          \* how run and the process ended
    requestTimeout,  \* CONTEXT_TIMEOUT
    place,           \* where each request is
    left,            \* ticks to its deadline
    owed             \* auxiliary: requests at their statements when Shutdown was
                     \* called, but for those COMMIT or ROLLBACK has kept too long

process == <<pc, listener, errCh, signaled, waited, result, requestTimeout, owed>>
apiVars == <<pc, listener, errCh, signaled, waited, result, requestTimeout, place, left, owed>>

\* The end of a request's transaction: tx.Commit() or tx.Rollback().
Ending == {"committing", "rollingBack"}

\* "connected" has sent nothing yet, "reading" awaits the body, "running" is at
\* its statements, "succeeded" and "failed" have the answer to write.
InFlightPlaces == {"reading", "running", "succeeded", "failed"} \cup Ending
Places == InFlightPlaces \cup {"none", "connected", "answered", "dropped", "cut"}

Init ==
    /\ pc = "open"
    /\ listener = "starting"
    /\ errCh = FALSE
    /\ signaled = FALSE
    /\ waited = 0
    /\ result = "none"
    /\ requestTimeout \in RequestTimeouts
    /\ place = [r \in Request |-> "none"]
    /\ left = [r \in Request |-> 0]
    /\ owed = {}

-----------------------------------------------------------------------------
(* run *)

\* The process is gone, and with it every connection.
Exit(how) ==
    /\ pc' = "exited"
    /\ listener' = "stopped"
    /\ result' = how
    /\ place' = [r \in Request |-> IF place[r] \in InFlightPlaces THEN "cut"
                                  ELSE IF place[r] = "connected" THEN "dropped"
                                  ELSE place[r]]
    /\ UNCHANGED <<errCh, signaled, waited, requestTimeout, left, owed>>

\* run returns: what it deferred is next, db.Close at last.
Return(how) ==
    /\ pc' = "closing"
    /\ result' = how

OpenFails == pc = "open" /\ Exit("error")

StartServer ==
    /\ pc = "open"
    /\ pc' = "select"
    /\ UNCHANGED <<listener, errCh, signaled, waited, result, requestTimeout, owed, place, left>>

\* The listener failed: nothing waits for the requests in flight.
ReturnError ==
    /\ pc = "select"
    /\ errCh
    /\ Return("error")
    /\ errCh' = FALSE
    /\ UNCHANGED <<listener, signaled, waited, requestTimeout, owed, place, left>>

BeginShutdown_StillListening ==
    /\ pc = "select"
    /\ signaled
    /\ pc' = "shutdown"
    /\ owed' = {r \in Request : place[r] \in InFlightPlaces \ {"reading"}}
    /\ UNCHANGED <<listener, errCh, signaled, waited, result, requestTimeout, place, left>>

\* <-ctx.Done(); Shutdown stops the listener.
BeginShutdown ==
    /\ pc = "select"
    /\ signaled
    /\ pc' = "shutdown"
    /\ listener' = "stopped"
    /\ owed' = {r \in Request : place[r] \in InFlightPlaces \ {"reading"}}
    /\ UNCHANGED <<errCh, signaled, waited, result, requestTimeout, place, left>>

Quiescent_ListenerOnly == listener = "stopped"

\* Shutdown closes idle connections and waits for all others.
Quiescent == \A r \in Request : place[r] \notin InFlightPlaces \cup {"connected"}

Expired_SignalContext == signaled
Expired_Never == FALSE

\* shutdownCtx
Expired == waited >= ShutdownTimeout

ShutdownDone ==
    /\ pc = "shutdown"
    /\ Quiescent
    /\ Return("ok")
    /\ UNCHANGED <<listener, errCh, signaled, waited, requestTimeout, owed, place, left>>

ShutdownTimesOut ==
    /\ pc = "shutdown"
    /\ Expired
    /\ Return("error")
    /\ UNCHANGED <<listener, errCh, signaled, waited, requestTimeout, owed, place, left>>

\* db.Close and the end of main.
Close == pc = "closing" /\ Exit(result)

Run == ReturnError \/ BeginShutdown \/ ShutdownDone \/ ShutdownTimesOut \/ Close

-----------------------------------------------------------------------------
(* The listener and the operating system *)

Listen ==
    /\ pc # "open" /\ listener = "starting"
    /\ listener' = "accepting"
    /\ UNCHANGED <<pc, errCh, signaled, waited, result, requestTimeout, owed, place, left>>

\* ListenAndServe returns an error that is not ErrServerClosed.
ListenFails ==
    /\ pc # "open" /\ listener \in {"starting", "accepting"}
    /\ listener' = "stopped"
    /\ errCh' = TRUE
    /\ UNCHANGED <<pc, signaled, waited, result, requestTimeout, owed, place, left>>

\* SIGINT or SIGTERM; a second one is ignored, one before NotifyContext kills.
Signal ==
    \/ pc = "open" /\ Exit("killed")
    \/ /\ pc \in {"select", "shutdown"}
       /\ signaled' = TRUE
       /\ UNCHANGED <<pc, listener, errCh, waited, result, requestTimeout, owed, place, left>>

Kill == pc # "exited" /\ Exit("killed")

-----------------------------------------------------------------------------
(* A request *)

Goto(r, there) == place' = [place EXCEPT ![r] = there]

Connect(r) ==
    /\ place[r] = "none" /\ listener = "accepting"
    /\ Goto(r, "connected")
    /\ UNCHANGED <<process, left>>

\* The request line and the headers: Timeout starts the request's clock.
Arrive(r) ==
    /\ place[r] = "connected"
    /\ Goto(r, "reading")
    /\ left' = [left EXCEPT ![r] = IF requestTimeout > 0 THEN requestTimeout ELSE 0]
    /\ UNCHANGED process

\* The client leaves, or Shutdown closes a connection that has long been silent.
CloseSilent(r) ==
    /\ place[r] = "connected"
    /\ Goto(r, "dropped")
    /\ UNCHANGED <<process, left>>

\* The handler has what it needs of the request, or refuses it.
ReadBody(r) ==
    /\ place[r] = "reading"
    /\ Goto(r, "running") \/ Goto(r, "failed")
    /\ UNCHANGED <<process, left>>

Overdue_NoTimeout(r) == FALSE

\* The context of the request's statements is done.
Overdue(r) == place[r] = "running" /\ left[r] = 0

\* The use-case returns, and had no transaction.
Succeed(r) ==
    /\ place[r] = "running" /\ left[r] > 0
    /\ Goto(r, "succeeded")
    /\ UNCHANGED <<process, left>>

\* A domain error, or the database fails: without a transaction, or when the
\* connection is gone and there is nothing to roll back.
Fail(r) ==
    /\ place[r] = "running"
    /\ Goto(r, "failed")
    /\ UNCHANGED <<process, left>>

\* fn returned in time; a COMMIT is not sent once the context is done.
BeginCommit(r) ==
    /\ place[r] = "running" /\ left[r] > 0
    /\ Goto(r, "committing")
    /\ UNCHANGED <<process, left>>

\* fn returned an error.
BeginRollback(r) ==
    /\ place[r] = "running"
    /\ Goto(r, "rollingBack")
    /\ UNCHANGED <<process, left>>

\* MySQL answers COMMIT, with an error or without, or ROLLBACK; nothing says when.
EndTransaction(r) ==
    /\ \/ place[r] = "committing" /\ (Goto(r, "succeeded") \/ Goto(r, "failed"))
       \/ place[r] = "rollingBack" /\ Goto(r, "failed")
    /\ UNCHANGED <<process, left>>

\* The driver closes the connection of a statement whose context is done; Do's
\* Rollback finds it closed.
DeadlineFails(r) ==
    /\ Overdue(r)
    /\ Goto(r, "failed")
    /\ UNCHANGED <<process, left>>

Answer(r) ==
    /\ place[r] \in {"succeeded", "failed"}
    /\ Goto(r, "answered")
    /\ UNCHANGED <<process, left>>

Serve(r) ==
    \/ Connect(r) \/ Arrive(r) \/ CloseSilent(r) \/ ReadBody(r)
    \/ Succeed(r) \/ Fail(r) \/ BeginCommit(r) \/ BeginRollback(r)
    \/ EndTransaction(r) \/ DeadlineFails(r) \/ Answer(r)

-----------------------------------------------------------------------------

\* What takes less than a tick: whatever run can do, a statement whose context
\* is done, an answer.
Urgent ==
    \/ pc = "select" /\ (errCh \/ signaled)
    \/ pc = "shutdown" /\ (Quiescent \/ Expired)
    \/ pc = "closing"
    \/ \E r \in Request : Overdue(r) \/ place[r] \in {"succeeded", "failed"}

Tick ==
    /\ ~Urgent
    /\ pc \in {"select", "shutdown"}
    /\ waited' = IF pc = "shutdown" /\ waited < ShutdownTimeout THEN waited + 1 ELSE waited
    /\ left' = [r \in Request |-> IF left[r] > 0 THEN left[r] - 1 ELSE 0]
    /\ owed' = {r \in owed : place[r] \in Ending => left[r] > 0}
    /\ UNCHANGED <<pc, listener, errCh, signaled, result, requestTimeout, place>>

Next ==
    \/ OpenFails \/ StartServer \/ Run
    \/ Listen \/ ListenFails \/ Signal \/ Kill
    \/ \E r \in Request : Serve(r)
    \/ Tick

Spec == Init /\ [][Next]_apiVars

\* Goroutines that can run do, time passes; clients, the database and whoever
\* sends signals need not do anything.  In particular MySQL need not answer
\* COMMIT or ROLLBACK: no deadline is assumed to reach these.
Fairness ==
    /\ WF_apiVars(Run) /\ WF_apiVars(Tick)
    /\ \A r \in Request : WF_apiVars(DeadlineFails(r)) /\ WF_apiVars(Answer(r))

FairSpec == Spec /\ Fairness

-----------------------------------------------------------------------------
(* Properties *)

\* The type invariant; what run has left, the listener has left too.
ApiServerTypeOK ==
    /\ pc \in {"open", "select", "shutdown", "closing", "exited"}
    /\ listener \in {"starting", "accepting", "stopped"}
    /\ errCh \in BOOLEAN
    /\ signaled \in BOOLEAN
    /\ waited \in 0 .. ShutdownTimeout
    /\ result \in {"none", "ok", "error", "killed"}
    /\ requestTimeout \in RequestTimeouts
    /\ place \in [Request -> Places]
    /\ left \in [Request -> Nat]
    /\ owed \subseteq Request
    /\ pc \in {"shutdown", "closing", "exited"} => listener = "stopped"

\* A process that ends with status 0 has answered every request it began.
CleanExitAnswersAll ==
    result = "ok" => \A r \in Request : place[r] \notin InFlightPlaces \cup {"cut"}

\* If requests have less time than Shutdown, none that was at its statements
\* when the signal came is cut, unless the process is killed, or the request was
\* still at its COMMIT or ROLLBACK when its deadline had passed: these outlast it.
\* (By default requests have three times as much: CONTEXT_TIMEOUT is 30 s,
\* shutdownTimeout 10 s.)
DrainedInTime ==
    requestTimeout < ShutdownTimeout /\ result # "killed" =>
      \A r \in owed : place[r] # "cut"

\* A signal ends the server, whatever clients and the database do.
SignalEndsServer == signaled ~> pc = "exited"

\* A request whose statement hangs is answered, or the process ends: only a COMMIT
\* or a ROLLBACK that MySQL never answers holds it for ever, deadline or not.
OnlyCommitHangs ==
    \A r \in Request :
      place[r] = "running" ~>
        (place[r] \in {"answered", "cut"} \/ [](place[r] \in Ending))
=============================================================================
