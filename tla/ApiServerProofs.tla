-------------------------- MODULE ApiServerProofs --------------------------
(***************************************************************************)
(* The safety properties of ApiServer, for any set of requests and any     *)
(* timeouts, from one inductive invariant.                                 *)
(***************************************************************************)
EXTENDS ApiServer, TLAPS

\* What a request is given to run.
Clock == IF requestTimeout > 0 THEN requestTimeout ELSE 0

\* Until run returns there is no result, and until Shutdown nothing it counts;
\* only the end of the process cuts a request, and an error in errCh is the
\* listener's last word.
Stages ==
    /\ pc \in {"open", "select", "shutdown"} => result = "none"
    /\ pc \in {"open", "select"} => waited = 0 /\ owed = {}
    /\ pc # "exited" => \A r \in Request : place[r] # "cut"
    /\ errCh => listener = "stopped"

\* CleanExitAnswersAll, and no connection from which a request may still come.
Clean ==
    result = "ok" =>
      \A r \in Request : place[r] \notin InFlightPlaces \cup {"connected", "cut"}

Clocks == \A r \in Request : left[r] <= Clock

\* What an owed request has left of its time fits what Shutdown has left, also at
\* its COMMIT, and it has been answered when Shutdown gives up.
Drain ==
    requestTimeout < ShutdownTimeout =>
      \A r \in owed :
        /\ place[r] \notin {"none", "connected", "reading"}
        /\ result # "killed" => place[r] # "cut"
        /\ pc = "shutdown" /\ place[r] \in InFlightPlaces => waited < ShutdownTimeout
        /\ pc = "shutdown" /\ place[r] \in Ending \cup {"running"} => left[r] + waited <= Clock
        /\ pc \in {"closing", "exited"} /\ result # "killed" => place[r] \notin InFlightPlaces

IInv == ApiServerTypeOK /\ Stages /\ Clean /\ Clocks /\ Drain

\* Every step of the server preserves its type invariant.
LEMMA TypeStep == ASSUME IInv, [Next]_apiVars PROVE ApiServerTypeOK'
<1> USE TimeoutAssumption DEF IInv
<1>1. CASE OpenFails
  BY <1>1 DEF OpenFails, Exit, ApiServerTypeOK, Stages, Places, InFlightPlaces, Ending
<1>2. CASE StartServer
  BY <1>2 DEF StartServer, ApiServerTypeOK, Stages, Places, InFlightPlaces, Ending
<1>3. CASE ReturnError
  BY <1>3 DEF ReturnError, Return, ApiServerTypeOK, Stages, Places, InFlightPlaces, Ending
<1>4. CASE BeginShutdown
  BY <1>4 DEF BeginShutdown, ApiServerTypeOK, Stages, Places, InFlightPlaces, Ending
<1>5. CASE ShutdownDone
  BY <1>5 DEF ShutdownDone, Return, Quiescent, ApiServerTypeOK, Stages, Places, InFlightPlaces, Ending
<1>6. CASE ShutdownTimesOut
  BY <1>6 DEF ShutdownTimesOut, Return, Expired, ApiServerTypeOK, Stages, Places, InFlightPlaces, Ending
<1>7. CASE Close
  BY <1>7 DEF Close, Exit, ApiServerTypeOK, Stages, Places, InFlightPlaces, Ending
<1>8. CASE Listen
  BY <1>8 DEF Listen, ApiServerTypeOK, Stages, Places, InFlightPlaces, Ending
<1>9. CASE ListenFails
  BY <1>9 DEF ListenFails, ApiServerTypeOK, Stages, Places, InFlightPlaces, Ending
<1>10. CASE Signal
  BY <1>10 DEF Signal, Exit, ApiServerTypeOK, Stages, Places, InFlightPlaces, Ending
<1>11. CASE Kill
  BY <1>11 DEF Kill, Exit, ApiServerTypeOK, Stages, Places, InFlightPlaces, Ending
<1>12. CASE Tick
  BY <1>12 DEF Tick, Urgent, Overdue, ApiServerTypeOK, Stages, Places, InFlightPlaces, Ending
<1>13. ASSUME NEW r \in Request, Serve(r) PROVE ApiServerTypeOK'
  <2>1. CASE Connect(r)
    BY <2>1 DEF Connect, Goto, process, ApiServerTypeOK, Stages, Places, InFlightPlaces, Ending
  <2>2. CASE Arrive(r)
    BY <2>2 DEF Arrive, Goto, process, ApiServerTypeOK, Stages, Places, InFlightPlaces, Ending
  <2>3. CASE CloseSilent(r)
    BY <2>3 DEF CloseSilent, Goto, process, ApiServerTypeOK, Stages, Places, InFlightPlaces, Ending
  <2>4. CASE ReadBody(r)
    BY <2>4 DEF ReadBody, Goto, process, ApiServerTypeOK, Stages, Places, InFlightPlaces, Ending
  <2>5. CASE Succeed(r)
    BY <2>5 DEF Succeed, Goto, process, ApiServerTypeOK, Stages, Places, InFlightPlaces, Ending
  <2>6. CASE Fail(r)
    BY <2>6 DEF Fail, Goto, process, ApiServerTypeOK, Stages, Places, InFlightPlaces, Ending
  <2>7. CASE DeadlineFails(r)
    BY <2>7 DEF DeadlineFails, Goto, process, Overdue, ApiServerTypeOK, Stages, Places, InFlightPlaces, Ending
  <2>8. CASE Answer(r)
    BY <2>8 DEF Answer, Goto, process, ApiServerTypeOK, Stages, Places, InFlightPlaces, Ending
  <2>9. CASE BeginCommit(r)
    BY <2>9 DEF BeginCommit, Goto, process, ApiServerTypeOK, Stages, Places, InFlightPlaces, Ending
  <2>10. CASE BeginRollback(r)
    BY <2>10 DEF BeginRollback, Goto, process, ApiServerTypeOK, Stages, Places, InFlightPlaces, Ending
  <2>11. CASE EndTransaction(r)
    BY <2>11 DEF EndTransaction, Goto, process, ApiServerTypeOK, Stages, Places, InFlightPlaces, Ending
  <2>12. QED BY <1>13, <2>1, <2>2, <2>3, <2>4, <2>5, <2>6, <2>7, <2>8, <2>9, <2>10, <2>11 DEF Serve
<1>14. CASE UNCHANGED apiVars
  BY <1>14 DEF apiVars, ApiServerTypeOK
<1>15. QED BY <1>1, <1>2, <1>3, <1>4, <1>5, <1>6, <1>7, <1>8, <1>9, <1>10, <1>11, <1>12, <1>13, <1>14 DEF Next, Run

\* Every step preserves what holds of each stage of run.
LEMMA StagesStep == ASSUME IInv, [Next]_apiVars PROVE Stages'
<1> USE TimeoutAssumption DEF IInv
<1>1. CASE OpenFails
  BY <1>1 DEF OpenFails, Exit, ApiServerTypeOK, Stages, InFlightPlaces, Ending
<1>2. CASE StartServer
  BY <1>2 DEF StartServer, ApiServerTypeOK, Stages, InFlightPlaces, Ending
<1>3. CASE ReturnError
  BY <1>3 DEF ReturnError, Return, ApiServerTypeOK, Stages, InFlightPlaces, Ending
<1>4. CASE BeginShutdown
  BY <1>4 DEF BeginShutdown, ApiServerTypeOK, Stages, InFlightPlaces, Ending
<1>5. CASE ShutdownDone
  BY <1>5 DEF ShutdownDone, Return, Quiescent, ApiServerTypeOK, Stages, InFlightPlaces, Ending
<1>6. CASE ShutdownTimesOut
  BY <1>6 DEF ShutdownTimesOut, Return, Expired, ApiServerTypeOK, Stages, InFlightPlaces, Ending
<1>7. CASE Close
  BY <1>7 DEF Close, Exit, ApiServerTypeOK, Stages, InFlightPlaces, Ending
<1>8. CASE Listen
  BY <1>8 DEF Listen, ApiServerTypeOK, Stages, InFlightPlaces, Ending
<1>9. CASE ListenFails
  BY <1>9 DEF ListenFails, ApiServerTypeOK, Stages, InFlightPlaces, Ending
<1>10. CASE Signal
  BY <1>10 DEF Signal, Exit, ApiServerTypeOK, Stages, InFlightPlaces, Ending
<1>11. CASE Kill
  BY <1>11 DEF Kill, Exit, ApiServerTypeOK, Stages, InFlightPlaces, Ending
<1>12. CASE Tick
  BY <1>12 DEF Tick, Urgent, Overdue, ApiServerTypeOK, Stages, InFlightPlaces, Ending
<1>13. ASSUME NEW r \in Request, Serve(r) PROVE Stages'
  <2>1. CASE Connect(r)
    BY <2>1 DEF Connect, Goto, process, ApiServerTypeOK, Stages, InFlightPlaces, Ending
  <2>2. CASE Arrive(r)
    BY <2>2 DEF Arrive, Goto, process, ApiServerTypeOK, Stages, InFlightPlaces, Ending
  <2>3. CASE CloseSilent(r)
    BY <2>3 DEF CloseSilent, Goto, process, ApiServerTypeOK, Stages, InFlightPlaces, Ending
  <2>4. CASE ReadBody(r)
    BY <2>4 DEF ReadBody, Goto, process, ApiServerTypeOK, Stages, InFlightPlaces, Ending
  <2>5. CASE Succeed(r)
    BY <2>5 DEF Succeed, Goto, process, ApiServerTypeOK, Stages, InFlightPlaces, Ending
  <2>6. CASE Fail(r)
    BY <2>6 DEF Fail, Goto, process, ApiServerTypeOK, Stages, InFlightPlaces, Ending
  <2>7. CASE DeadlineFails(r)
    BY <2>7 DEF DeadlineFails, Goto, process, Overdue, ApiServerTypeOK, Stages, InFlightPlaces, Ending
  <2>8. CASE Answer(r)
    BY <2>8 DEF Answer, Goto, process, ApiServerTypeOK, Stages, InFlightPlaces, Ending
  <2>9. CASE BeginCommit(r)
    BY <2>9 DEF BeginCommit, Goto, process, ApiServerTypeOK, Stages, InFlightPlaces, Ending
  <2>10. CASE BeginRollback(r)
    BY <2>10 DEF BeginRollback, Goto, process, ApiServerTypeOK, Stages, InFlightPlaces, Ending
  <2>11. CASE EndTransaction(r)
    BY <2>11 DEF EndTransaction, Goto, process, ApiServerTypeOK, Stages, InFlightPlaces, Ending
  <2>12. QED BY <1>13, <2>1, <2>2, <2>3, <2>4, <2>5, <2>6, <2>7, <2>8, <2>9, <2>10, <2>11 DEF Serve
<1>14. CASE UNCHANGED apiVars
  BY <1>14 DEF apiVars, Stages
<1>15. QED BY <1>1, <1>2, <1>3, <1>4, <1>5, <1>6, <1>7, <1>8, <1>9, <1>10, <1>11, <1>12, <1>13, <1>14 DEF Next, Run

\* Every step preserves that nothing is left of a process that ended well.
LEMMA CleanStep == ASSUME IInv, [Next]_apiVars PROVE Clean'
<1> USE TimeoutAssumption DEF IInv
<1>1. CASE OpenFails
  BY <1>1 DEF OpenFails, Exit, ApiServerTypeOK, Stages, Clean, InFlightPlaces, Ending
<1>2. CASE StartServer
  BY <1>2 DEF StartServer, ApiServerTypeOK, Stages, Clean, InFlightPlaces, Ending
<1>3. CASE ReturnError
  BY <1>3 DEF ReturnError, Return, ApiServerTypeOK, Stages, Clean, InFlightPlaces, Ending
<1>4. CASE BeginShutdown
  BY <1>4 DEF BeginShutdown, ApiServerTypeOK, Stages, Clean, InFlightPlaces, Ending
<1>5. CASE ShutdownDone
  BY <1>5 DEF ShutdownDone, Return, Quiescent, ApiServerTypeOK, Stages, Clean, InFlightPlaces, Ending
<1>6. CASE ShutdownTimesOut
  BY <1>6 DEF ShutdownTimesOut, Return, Expired, ApiServerTypeOK, Stages, Clean, InFlightPlaces, Ending
<1>7. CASE Close
  BY <1>7 DEF Close, Exit, ApiServerTypeOK, Stages, Clean, InFlightPlaces, Ending
<1>8. CASE Listen
  BY <1>8 DEF Listen, ApiServerTypeOK, Stages, Clean, InFlightPlaces, Ending
<1>9. CASE ListenFails
  BY <1>9 DEF ListenFails, ApiServerTypeOK, Stages, Clean, InFlightPlaces, Ending
<1>10. CASE Signal
  BY <1>10 DEF Signal, Exit, ApiServerTypeOK, Stages, Clean, InFlightPlaces, Ending
<1>11. CASE Kill
  BY <1>11 DEF Kill, Exit, ApiServerTypeOK, Stages, Clean, InFlightPlaces, Ending
<1>12. CASE Tick
  BY <1>12 DEF Tick, Urgent, Overdue, ApiServerTypeOK, Stages, Clean, InFlightPlaces, Ending
<1>13. ASSUME NEW r \in Request, Serve(r) PROVE Clean'
  <2>1. CASE Connect(r)
    BY <2>1 DEF Connect, Goto, process, ApiServerTypeOK, Stages, Clean, InFlightPlaces, Ending
  <2>2. CASE Arrive(r)
    BY <2>2 DEF Arrive, Goto, process, ApiServerTypeOK, Stages, Clean, InFlightPlaces, Ending
  <2>3. CASE CloseSilent(r)
    BY <2>3 DEF CloseSilent, Goto, process, ApiServerTypeOK, Stages, Clean, InFlightPlaces, Ending
  <2>4. CASE ReadBody(r)
    BY <2>4 DEF ReadBody, Goto, process, ApiServerTypeOK, Stages, Clean, InFlightPlaces, Ending
  <2>5. CASE Succeed(r)
    BY <2>5 DEF Succeed, Goto, process, ApiServerTypeOK, Stages, Clean, InFlightPlaces, Ending
  <2>6. CASE Fail(r)
    BY <2>6 DEF Fail, Goto, process, ApiServerTypeOK, Stages, Clean, InFlightPlaces, Ending
  <2>7. CASE DeadlineFails(r)
    BY <2>7 DEF DeadlineFails, Goto, process, Overdue, ApiServerTypeOK, Stages, Clean, InFlightPlaces, Ending
  <2>8. CASE Answer(r)
    BY <2>8 DEF Answer, Goto, process, ApiServerTypeOK, Stages, Clean, InFlightPlaces, Ending
  <2>9. CASE BeginCommit(r)
    BY <2>9 DEF BeginCommit, Goto, process, ApiServerTypeOK, Stages, Clean, InFlightPlaces, Ending
  <2>10. CASE BeginRollback(r)
    BY <2>10 DEF BeginRollback, Goto, process, ApiServerTypeOK, Stages, Clean, InFlightPlaces, Ending
  <2>11. CASE EndTransaction(r)
    BY <2>11 DEF EndTransaction, Goto, process, ApiServerTypeOK, Stages, Clean, InFlightPlaces, Ending
  <2>12. QED BY <1>13, <2>1, <2>2, <2>3, <2>4, <2>5, <2>6, <2>7, <2>8, <2>9, <2>10, <2>11 DEF Serve
<1>14. CASE UNCHANGED apiVars
  BY <1>14 DEF apiVars, Clean
<1>15. QED BY <1>1, <1>2, <1>3, <1>4, <1>5, <1>6, <1>7, <1>8, <1>9, <1>10, <1>11, <1>12, <1>13, <1>14 DEF Next, Run

\* Every step preserves that no deadline is further away than CONTEXT_TIMEOUT.
LEMMA ClocksStep == ASSUME IInv, [Next]_apiVars PROVE Clocks'
<1> USE TimeoutAssumption DEF IInv
<1>1. CASE OpenFails
  BY <1>1 DEF OpenFails, Exit, ApiServerTypeOK, Clocks, Clock, Stages
<1>2. CASE StartServer
  BY <1>2 DEF StartServer, ApiServerTypeOK, Clocks, Clock, Stages
<1>3. CASE ReturnError
  BY <1>3 DEF ReturnError, Return, ApiServerTypeOK, Clocks, Clock, Stages
<1>4. CASE BeginShutdown
  BY <1>4 DEF BeginShutdown, ApiServerTypeOK, Clocks, Clock, Stages
<1>5. CASE ShutdownDone
  BY <1>5 DEF ShutdownDone, Return, Quiescent, ApiServerTypeOK, Clocks, Clock, Stages
<1>6. CASE ShutdownTimesOut
  BY <1>6 DEF ShutdownTimesOut, Return, Expired, ApiServerTypeOK, Clocks, Clock, Stages
<1>7. CASE Close
  BY <1>7 DEF Close, Exit, ApiServerTypeOK, Clocks, Clock, Stages
<1>8. CASE Listen
  BY <1>8 DEF Listen, ApiServerTypeOK, Clocks, Clock, Stages
<1>9. CASE ListenFails
  BY <1>9 DEF ListenFails, ApiServerTypeOK, Clocks, Clock, Stages
<1>10. CASE Signal
  BY <1>10 DEF Signal, Exit, ApiServerTypeOK, Clocks, Clock, Stages
<1>11. CASE Kill
  BY <1>11 DEF Kill, Exit, ApiServerTypeOK, Clocks, Clock, Stages
<1>12. CASE Tick
  BY <1>12 DEF Tick, Urgent, Overdue, ApiServerTypeOK, Clocks, Clock, Stages
<1>13. ASSUME NEW r \in Request, Serve(r) PROVE Clocks'
  <2>1. CASE Connect(r)
    BY <2>1 DEF Connect, Goto, process, ApiServerTypeOK, Clocks, Clock, Stages
  <2>2. CASE Arrive(r)
    BY <2>2 DEF Arrive, Goto, process, ApiServerTypeOK, Clocks, Clock, Stages
  <2>3. CASE CloseSilent(r)
    BY <2>3 DEF CloseSilent, Goto, process, ApiServerTypeOK, Clocks, Clock, Stages
  <2>4. CASE ReadBody(r)
    BY <2>4 DEF ReadBody, Goto, process, ApiServerTypeOK, Clocks, Clock, Stages
  <2>5. CASE Succeed(r)
    BY <2>5 DEF Succeed, Goto, process, ApiServerTypeOK, Clocks, Clock, Stages
  <2>6. CASE Fail(r)
    BY <2>6 DEF Fail, Goto, process, ApiServerTypeOK, Clocks, Clock, Stages
  <2>7. CASE DeadlineFails(r)
    BY <2>7 DEF DeadlineFails, Goto, process, Overdue, ApiServerTypeOK, Clocks, Clock, Stages
  <2>8. CASE Answer(r)
    BY <2>8 DEF Answer, Goto, process, ApiServerTypeOK, Clocks, Clock, Stages
  <2>9. CASE BeginCommit(r)
    BY <2>9 DEF BeginCommit, Goto, process, ApiServerTypeOK, Clocks, Clock, Stages
  <2>10. CASE BeginRollback(r)
    BY <2>10 DEF BeginRollback, Goto, process, ApiServerTypeOK, Clocks, Clock, Stages
  <2>11. CASE EndTransaction(r)
    BY <2>11 DEF EndTransaction, Goto, process, ApiServerTypeOK, Clocks, Clock, Stages
  <2>12. QED BY <1>13, <2>1, <2>2, <2>3, <2>4, <2>5, <2>6, <2>7, <2>8, <2>9, <2>10, <2>11 DEF Serve
<1>14. CASE UNCHANGED apiVars
  BY <1>14 DEF apiVars, Clocks, Clock
<1>15. QED BY <1>1, <1>2, <1>3, <1>4, <1>5, <1>6, <1>7, <1>8, <1>9, <1>10, <1>11, <1>12, <1>13, <1>14 DEF Next, Run

\* Every step preserves that owed requests are through before Shutdown gives up.
LEMMA DrainStep == ASSUME IInv, [Next]_apiVars PROVE Drain'
<1> USE TimeoutAssumption DEF IInv
<1>1. CASE OpenFails
  BY <1>1 DEF OpenFails, Exit, ApiServerTypeOK, Stages, Clocks, Drain, Clock, InFlightPlaces, Ending
<1>2. CASE StartServer
  BY <1>2 DEF StartServer, ApiServerTypeOK, Stages, Clocks, Drain, Clock, InFlightPlaces, Ending
<1>3. CASE ReturnError
  BY <1>3 DEF ReturnError, Return, ApiServerTypeOK, Stages, Clocks, Drain, Clock, InFlightPlaces, Ending
<1>4. CASE BeginShutdown
  BY <1>4 DEF BeginShutdown, ApiServerTypeOK, Stages, Clocks, Drain, Clock, InFlightPlaces, Ending
<1>5. CASE ShutdownDone
  BY <1>5 DEF ShutdownDone, Return, Quiescent, ApiServerTypeOK, Stages, Clocks, Drain, Clock, InFlightPlaces, Ending
<1>6. CASE ShutdownTimesOut
  BY <1>6 DEF ShutdownTimesOut, Return, Expired, ApiServerTypeOK, Stages, Clocks, Drain, Clock, InFlightPlaces, Ending
<1>7. CASE Close
  BY <1>7 DEF Close, Exit, ApiServerTypeOK, Stages, Clocks, Drain, Clock, InFlightPlaces, Ending
<1>8. CASE Listen
  BY <1>8 DEF Listen, ApiServerTypeOK, Stages, Clocks, Drain, Clock, InFlightPlaces, Ending
<1>9. CASE ListenFails
  BY <1>9 DEF ListenFails, ApiServerTypeOK, Stages, Clocks, Drain, Clock, InFlightPlaces, Ending
<1>10. CASE Signal
  BY <1>10 DEF Signal, Exit, ApiServerTypeOK, Stages, Clocks, Drain, Clock, InFlightPlaces, Ending
<1>11. CASE Kill
  BY <1>11 DEF Kill, Exit, ApiServerTypeOK, Stages, Clocks, Drain, Clock, InFlightPlaces, Ending
<1>12. CASE Tick
  BY <1>12 DEF Tick, Urgent, Overdue, Expired, ApiServerTypeOK, Stages, Clocks, Drain, Clock, InFlightPlaces, Ending
<1>13. ASSUME NEW r \in Request, Serve(r) PROVE Drain'
  <2>1. CASE Connect(r)
    BY <2>1 DEF Connect, Goto, process, ApiServerTypeOK, Stages, Clocks, Drain, Clock, InFlightPlaces, Ending
  <2>2. CASE Arrive(r)
    BY <2>2 DEF Arrive, Goto, process, ApiServerTypeOK, Stages, Clocks, Drain, Clock, InFlightPlaces, Ending
  <2>3. CASE CloseSilent(r)
    BY <2>3 DEF CloseSilent, Goto, process, ApiServerTypeOK, Stages, Clocks, Drain, Clock, InFlightPlaces, Ending
  <2>4. CASE ReadBody(r)
    BY <2>4 DEF ReadBody, Goto, process, ApiServerTypeOK, Stages, Clocks, Drain, Clock, InFlightPlaces, Ending
  <2>5. CASE Succeed(r)
    BY <2>5 DEF Succeed, Goto, process, ApiServerTypeOK, Stages, Clocks, Drain, Clock, InFlightPlaces, Ending
  <2>6. CASE Fail(r)
    BY <2>6 DEF Fail, Goto, process, ApiServerTypeOK, Stages, Clocks, Drain, Clock, InFlightPlaces, Ending
  <2>7. CASE DeadlineFails(r)
    BY <2>7 DEF DeadlineFails, Goto, process, Overdue, ApiServerTypeOK, Stages, Clocks, Drain, Clock, InFlightPlaces, Ending
  <2>8. CASE Answer(r)
    BY <2>8 DEF Answer, Goto, process, ApiServerTypeOK, Stages, Clocks, Drain, Clock, InFlightPlaces, Ending
  <2>9. CASE BeginCommit(r)
    BY <2>9 DEF BeginCommit, Goto, process, ApiServerTypeOK, Stages, Clocks, Drain, Clock, InFlightPlaces, Ending
  <2>10. CASE BeginRollback(r)
    BY <2>10 DEF BeginRollback, Goto, process, ApiServerTypeOK, Stages, Clocks, Drain, Clock, InFlightPlaces, Ending
  <2>11. CASE EndTransaction(r)
    BY <2>11 DEF EndTransaction, Goto, process, ApiServerTypeOK, Stages, Clocks, Drain, Clock, InFlightPlaces, Ending
  <2>12. QED BY <1>13, <2>1, <2>2, <2>3, <2>4, <2>5, <2>6, <2>7, <2>8, <2>9, <2>10, <2>11 DEF Serve
<1>14. CASE UNCHANGED apiVars
  BY <1>14 DEF apiVars, Drain, Clock
<1>15. QED BY <1>1, <1>2, <1>3, <1>4, <1>5, <1>6, <1>7, <1>8, <1>9, <1>10, <1>11, <1>12, <1>13, <1>14 DEF Next, Run

\* The strengthened invariant holds of the server.
LEMMA IInvHolds == Spec => []IInv
<1>1. Init => IInv
  <2> SUFFICES ASSUME Init PROVE IInv
    OBVIOUS
  <2>1. ApiServerTypeOK
    <3>1. errCh \in BOOLEAN /\ signaled \in BOOLEAN
      BY Zenon DEF Init
    <3>2. place \in [Request -> Places] /\ left \in [Request -> Nat]
      BY DEF Init, Places
    <3>3. waited \in 0 .. ShutdownTimeout
      BY TimeoutAssumption DEF Init
    <3>4. QED BY <3>1, <3>2, <3>3 DEF Init, ApiServerTypeOK
  <2>2. Stages /\ Clean
    BY DEF Init, Stages, Clean
  <2>3. Clocks
    <3>1. requestTimeout \in Int
      BY TimeoutAssumption DEF Init
    <3>2. Clock >= 0
      BY <3>1 DEF Clock
    <3>3. \A r \in Request : left[r] = 0
      BY DEF Init
    <3>4. Clock \in Int
      BY <3>1 DEF Clock
    <3>5. QED BY <3>2, <3>3, <3>4 DEF Clocks
  <2>4. Drain
    BY DEF Init, Drain
  <2>5. QED BY <2>1, <2>2, <2>3, <2>4 DEF IInv
<1>2. IInv /\ [Next]_apiVars => IInv'
  BY TypeStep, StagesStep, CleanStep, ClocksStep, DrainStep DEF IInv
<1>3. QED BY <1>1, <1>2, PTL DEF Spec

\* The server's variables have their types; its listener stops with run.
THEOREM ApiServerTypeCorrect == Spec => []ApiServerTypeOK
<1>1. IInv => ApiServerTypeOK
  BY DEF IInv
<1>2. QED BY <1>1, IInvHolds, PTL

\* A process that ends with status 0 has answered every request it began.
THEOREM CleanExit == Spec => []CleanExitAnswersAll
<1>1. IInv => CleanExitAnswersAll
  BY DEF IInv, Clean, CleanExitAnswersAll
<1>2. QED BY <1>1, IInvHolds, PTL

\* With CONTEXT_TIMEOUT below shutdownTimeout, Shutdown cuts no request that was
\* at its statements, unless its COMMIT or ROLLBACK outlasts its deadline.
THEOREM Drained == Spec => []DrainedInTime
<1>1. IInv => DrainedInTime
  BY DEF IInv, Drain, DrainedInTime
<1>2. QED BY <1>1, IInvHolds, PTL
=============================================================================
