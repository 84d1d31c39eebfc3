----------------------- MODULE DesktopExecutionProofs -----------------------
(***************************************************************************)
(* What TLAPS proves of the DESKTOP path, for any sets of sessions and     *)
(* phones and any number of starts of the agent and of failures.           *)
(***************************************************************************)
EXTENDS DesktopExecution, TLAPS

-----------------------------------------------------------------------------
(* Connections                                                             *)

ConnsOK == conn \in [Conn -> Conns]

LEMMA Bounds == MaxBoots \in Nat /\ MaxFaults \in Nat
BY DesktopAssumption

LEMMA FinishTypes ==
  ASSUME NEW r \in Conns, NEW stage \in Stage
  PROVE  /\ Finish(r) \in Conns
         /\ Finish(r).sess = r.sess /\ Finish(r).stage = r.stage /\ Finish(r).exited
         /\ [Finish(r) EXCEPT !.stage = stage] \in Conns
         /\ [Finish(r) EXCEPT !.stage = stage].sess = r.sess
         /\ [Finish(r) EXCEPT !.stage = stage].stage = stage
         /\ [Finish(r) EXCEPT !.stage = stage].exited
         /\ [Finish(r) EXCEPT !.gone = TRUE] \in Conns
         /\ [Finish(r) EXCEPT !.gone = TRUE].sess = r.sess
         /\ [Finish(r) EXCEPT !.gone = TRUE].stage = r.stage
         /\ [Finish(r) EXCEPT !.gone = TRUE].exited
         /\ [Finish(r) EXCEPT !.gone = TRUE].gone
BY DEF Finish, Conns

(* What the gateway's steps make of a connection.                          *)
LEMMA ConnSteps ==
  ASSUME ConnsOK, NEW c \in Conn
  PROVE  /\ conn[c] \in Conns
         /\ Accept(c) =>
              /\ conn' = [conn EXCEPT ![c] = conn'[c]] /\ conn'[c] \in Conns
              /\ conn[c].stage = "unused" /\ conn'[c].stage = "open"
              /\ conn'[c].sess = conn[c].sess
              /\ conn'[c].exited = conn[c].exited /\ conn'[c].gone = conn[c].gone
         /\ PtyExit(c) =>
              /\ conn' = [conn EXCEPT ![c] = conn'[c]] /\ conn'[c] \in Conns
              /\ conn[c].stage = "running" /\ conn'[c].stage = "ended"
              /\ conn'[c].sess = conn[c].sess /\ conn'[c].exited
         /\ SocketClose(c) =>
              /\ conn' = [conn EXCEPT ![c] = conn'[c]] /\ conn'[c] \in Conns
              /\ conn'[c].stage = conn[c].stage
              /\ conn'[c].sess = conn[c].sess /\ conn'[c].exited /\ conn'[c].gone
<1>1. conn[c] \in Conns
  BY DEF ConnsOK
<1>2. ASSUME Accept(c) PROVE
        /\ conn' = [conn EXCEPT ![c] = conn'[c]] /\ conn'[c] \in Conns
        /\ conn[c].stage = "unused" /\ conn'[c].stage = "open"
        /\ conn'[c].sess = conn[c].sess
        /\ conn'[c].exited = conn[c].exited /\ conn'[c].gone = conn[c].gone
  BY <1>1, <1>2 DEF Accept, ConnsOK, Conns, Stage
<1>3. ASSUME PtyExit(c) PROVE
        /\ conn' = [conn EXCEPT ![c] = conn'[c]] /\ conn'[c] \in Conns
        /\ conn[c].stage = "running" /\ conn'[c].stage = "ended"
        /\ conn'[c].sess = conn[c].sess /\ conn'[c].exited
  <2>1. "ended" \in Stage
    BY DEF Stage
  <2>2. conn'[c] = [Finish(conn[c]) EXCEPT !.stage = "ended"]
    BY <1>3 DEF PtyExit, ConnsOK
  <2>3. QED
    BY <1>1, <1>3, <2>1, <2>2, FinishTypes DEF PtyExit, ConnsOK
<1>4. ASSUME SocketClose(c) PROVE
        /\ conn' = [conn EXCEPT ![c] = conn'[c]] /\ conn'[c] \in Conns
        /\ conn'[c].stage = conn[c].stage
        /\ conn'[c].sess = conn[c].sess /\ conn'[c].exited /\ conn'[c].gone
  <2>1. "ended" \in Stage
    BY DEF Stage
  <2>2. conn'[c] = [Finish(conn[c]) EXCEPT !.gone = TRUE]
    BY <1>4 DEF SocketClose, ConnsOK
  <2>3. QED
    BY <1>1, <1>4, <2>1, <2>2, FinishTypes DEF SocketClose, ConnsOK
<1>5. QED
  BY <1>1, <1>2, <1>3, <1>4

(* A shell of s starts, or is refused.                                     *)
LEMMA StartSteps ==
  ASSUME ConnsOK, NEW c \in Conn, NEW s \in Session, StartShell(c, s) \/ StartFails(c, s)
  PROVE  /\ conn' = [conn EXCEPT ![c] = conn'[c]] /\ conn'[c] \in Conns
         /\ conn'[c].stage \in {"running", "refused"} /\ conn'[c].sess = s
         /\ StartShell(c, s) => conn'[c].exited = conn[c].exited
BY DEF StartShell, StartFails, ConnsOK, Conns, Stage

LEMMA DeathStep ==
  ASSUME ConnsOK, GatewayDies, NEW c \in Conn
  PROVE  /\ conn'[c] \in Conns
         /\ conn'[c].sess = conn[c].sess
         /\ conn[c].stage = "unused" => conn'[c] = conn[c]
         /\ conn[c].stage # "unused" => conn'[c].stage = "refused" /\ conn'[c].exited
BY DEF ConnsOK, GatewayDies, Conns, Stage

LEMMA InitTypes ==
  ASSUME Init
  PROVE  TypeOK /\ NamedOnceStarted
<1>1. ConnsOK
  BY DEF Init, GatewayInit, ConnsOK, Conns, Stage
<1>2. TypeOK
  <2>1. presence \in Presence /\ agent \in Agent
    BY DEF Init, Presence, Agent
  <2>2. {tunnelUrl, goodbye, advertised} \subseteq BOOLEAN /\ beats \subseteq BOOLEAN
    BY DEF Init
  <2>3. /\ reports \cup closing \cup lost \subseteq Session
        /\ create \in [Session -> {"route", "job", "session", "done", "failed", "cloud"}]
        /\ jobRow \in [Session -> {"none", "RUNNING", "SUCCEEDED"}]
        /\ sessRow \in [Session -> {"none", "ACTIVE", "CLOSED"}]
    BY DEF Init
  <2>4. boots \in 0..MaxBoots /\ faults \in 0..MaxFaults
    BY Bounds DEF Init
  <2>5. QED
    BY <1>1, <2>1, <2>2, <2>3, <2>4 DEF TypeOK, ConnsOK
<1>3. NamedOnceStarted
  BY DEF Init, GatewayInit, NamedOnceStarted, Reports
<1>4. QED
  BY <1>2, <1>3

(* The connections' part of EndInv, which types rest on as well: a report  *)
(* is for a session.                                                       *)
LEMMA NamesStep ==
  ASSUME TypeOK, NamedOnceStarted, [Next]_dvars
  PROVE  NamedOnceStarted'
<1>1. CASE UNCHANGED conn
  BY <1>1 DEF NamedOnceStarted, Reports
<1>2. CASE Die
  BY <1>2, DeathStep DEF Die, NamedOnceStarted, Reports, TypeOK, ConnsOK
<1>3. ASSUME NEW c \in Conn,
             \/ Open(c) \/ ShellExits(c) \/ HangUp(c)
             \/ \E s \in Session : StartShell(c, s) \/ StartFails(c, s)
      PROVE  NamedOnceStarted'
  <2>1. ConnsOK
    BY DEF TypeOK, ConnsOK
  <2>2. /\ conn' = [conn EXCEPT ![c] = conn'[c]]
        /\ conn'[c].stage \in {"unused", "open"} =>
             conn'[c].sess = NoSession /\ (conn'[c].exited => conn'[c].gone)
        /\ ~conn'[c].exited /\ conn'[c].stage \notin {"unused", "open"} =>
             conn'[c].sess \in Session
    <3>1. CASE Open(c)
      BY <3>1, <2>1, ConnSteps DEF Open, NamedOnceStarted
    <3>2. CASE ShellExits(c)
      BY <3>2, <2>1, ConnSteps DEF ShellExits
    <3>3. CASE HangUp(c)
      BY <3>3, <2>1, ConnSteps DEF HangUp, NamedOnceStarted
    <3>4. ASSUME NEW s \in Session, StartShell(c, s) \/ StartFails(c, s)
          PROVE  /\ conn' = [conn EXCEPT ![c] = conn'[c]]
                 /\ conn'[c].stage \notin {"unused", "open"} /\ conn'[c].sess \in Session
      BY <3>4, <2>1, StartSteps
    <3>5. QED
      BY <1>3, <3>1, <3>2, <3>3, <3>4
  <2>3. QED
    BY <2>1, <2>2 DEF NamedOnceStarted, Reports, ConnsOK
<1>4. QED
  BY <1>1, <1>2, <1>3
  DEF Next, Desktop, Api, dvars, Boot, Heartbeat, Beats, Shutdown, CloseGateway, Exit,
      HeartbeatArrives, Upserts, HeartbeatLost, OfflineArrives, OfflineLost, WindowExpires,
      Route, Creates, CreateJob, CreatesJob, OpenSession, CreateThrows, ReportArrives,
      CloseSession, ReportLost, CloseSwallowed, UserCloses, FinishJob, Finishes,
      FinishSwallowed, ApiDies

-----------------------------------------------------------------------------
(* Types                                                                   *)

LEMMA DesktopTypes ==
  ASSUME TypeOK, NamedOnceStarted, Desktop
  PROVE  TypeOK'
<1>0. ConnsOK
  BY DEF TypeOK, ConnsOK
<1>1. CASE Boot
  BY <1>1, Bounds DEF Boot, TypeOK, Agent, routing, served, rows
<1>2. CASE Heartbeat
  BY <1>2 DEF Heartbeat, Beats, TypeOK, node, routing, served, rows
<1>3. CASE Shutdown
  BY <1>3 DEF Shutdown, TypeOK, Agent, routing, served, rows
<1>4. CASE CloseGateway
  BY <1>4 DEF CloseGateway, TypeOK, Agent, sent, routing, served, rows
<1>5. CASE Exit
  BY <1>5 DEF Exit, ProcessEnds, TypeOK, Agent, routing, rows
<1>6. CASE Die
  <2>1. ConnsOK'
    BY <1>0, <1>6 DEF Die, GatewayDies, ConnsOK, Conns, Stage
  <2>2. {conn[c].sess : c \in {d \in Conn : Reports(d)}} \subseteq Session
    BY DEF NamedOnceStarted
  <2>3. QED
    BY <1>6, <2>1, <2>2 DEF Die, ProcessEnds, TypeOK, ConnsOK, Agent, routing, rows
<1>7. ASSUME NEW c \in Conn, Open(c)
      PROVE  TypeOK'
  <2>1. ConnsOK'
    BY <1>0, <1>7, ConnSteps DEF Open, ConnsOK
  <2>2. QED
    BY <1>7, <2>1 DEF Open, TypeOK, ConnsOK, node, sent, routing, served, rows
<1>8. ASSUME NEW c \in Conn, ShellExits(c) \/ HangUp(c)
      PROVE  TypeOK'
  <2>1. ConnsOK'
    BY <1>0, <1>8, ConnSteps DEF ShellExits, HangUp, ConnsOK
  <2>2. reports' \subseteq Session
    BY <1>8 DEF ShellExits, HangUp, OnSessionExit, NamedOnceStarted, TypeOK
  <2>3. QED
    BY <1>8, <2>1, <2>2 DEF ShellExits, HangUp, TypeOK, ConnsOK, node, routing, served, rows
<1>9. ASSUME NEW c \in Conn, NEW s \in Session, StartShell(c, s) \/ StartFails(c, s)
      PROVE  TypeOK'
  <2>1. ConnsOK'
    BY <1>0, <1>9, StartSteps DEF ConnsOK
  <2>2. QED
    BY <1>9, <2>1
    DEF StartShell, StartFails, TypeOK, ConnsOK, node, sent, routing, served, rows
<1>10. QED
  BY <1>1, <1>2, <1>3, <1>4, <1>5, <1>6, <1>7, <1>8, <1>9 DEF Desktop

LEMMA ApiTypes ==
  ASSUME TypeOK, Api
  PROVE  TypeOK'
<1>1. ASSUME NEW url \in BOOLEAN, HeartbeatArrives(url)
      PROVE  TypeOK'
  <2>1. presence' \in Presence
    BY <1>1 DEF HeartbeatArrives, Upserts, TypeOK, Presence, Reader
  <2>2. advertised' \in BOOLEAN /\ beats' \subseteq BOOLEAN
    BY <1>1 DEF HeartbeatArrives, Upserts, TypeOK
  <2>3. QED
    BY <1>1, <2>1, <2>2 DEF HeartbeatArrives, Upserts, TypeOK, node, served, rows
<1>2. ASSUME NEW url \in BOOLEAN, HeartbeatLost(url)
      PROVE  TypeOK'
  BY <1>2 DEF HeartbeatLost, TypeOK, node, routing, served, rows
<1>3. CASE OfflineArrives \/ WindowExpires
  <2>1. presence' \in Presence
    <3>1. CASE OfflineArrives
      BY <3>1 DEF OfflineArrives, TypeOK, Presence
    <3>2. CASE WindowExpires
      BY <3>2 DEF WindowExpires, TypeOK, Presence
    <3>3. QED
      BY <1>3, <3>1, <3>2
  <2>2. QED
    BY <1>3, <2>1 DEF OfflineArrives, WindowExpires, TypeOK, node, sent, served, rows
<1>4. CASE OfflineLost
  BY <1>4 DEF OfflineLost, TypeOK, node, routing, served, rows
<1>5. ASSUME NEW s \in Session,
             \/ Route(s) \/ CreateJob(s) \/ OpenSession(s) \/ CreateThrows(s)
             \/ ReportArrives(s) \/ ReportLost(s) \/ CloseSwallowed(s)
             \/ UserCloses(s) \/ FinishJob(s) \/ FinishSwallowed(s)
      PROVE  TypeOK'
  <2>1. CASE Route(s)
    BY <2>1 DEF Route, Creates, TypeOK, node, sent, routing, rows
  <2>2. CASE CreateJob(s)
    BY <2>2 DEF CreateJob, CreatesJob, Creates, TypeOK, node, sent, routing
  <2>3. CASE OpenSession(s)
    BY <2>3 DEF OpenSession, Creates, TypeOK, node, sent, routing
  <2>4. CASE CreateThrows(s)
    BY <2>4, Bounds DEF CreateThrows, Creates, Fault, TypeOK, node, sent, routing, rows
  <2>5. CASE ReportArrives(s) \/ UserCloses(s)
    BY <2>5 DEF ReportArrives, UserCloses, CloseSession, TypeOK, node, routing
  <2>6. CASE ReportLost(s) \/ CloseSwallowed(s)
    BY <2>6, Bounds DEF ReportLost, CloseSwallowed, Fault, TypeOK, node, routing, rows
  <2>7. CASE FinishJob(s)
    BY <2>7 DEF FinishJob, Finishes, TypeOK, node, sent, routing
  <2>8. CASE FinishSwallowed(s)
    BY <2>8, Bounds DEF FinishSwallowed, Fault, TypeOK, node, sent, routing, rows
  <2>9. QED
    BY <1>5, <2>1, <2>2, <2>3, <2>4, <2>5, <2>6, <2>7, <2>8
<1>6. CASE ApiDies
  BY <1>6, Bounds DEF ApiDies, Fault, TypeOK, node, sent, routing, rows
<1>7. QED
  BY <1>1, <1>2, <1>3, <1>4, <1>5, <1>6 DEF Api

LEMMA TypesStep ==
  ASSUME TypeOK, NamedOnceStarted, [Next]_dvars
  PROVE  TypeOK'
<1>1. CASE Desktop
  BY <1>1, DesktopTypes
<1>2. CASE Api
  BY <1>2, ApiTypes
<1>3. CASE UNCHANGED dvars
  BY <1>3 DEF dvars, TypeOK
<1>4. QED
  BY <1>1, <1>2, <1>3 DEF Next

(* The type invariant of a DESKTOP job's path: only sessions are reported, *)
(* closed or lost, and no row leaves its states.                           *)
THEOREM TypeInvariant == Spec => []TypeOK
<1>1. Init => TypeOK /\ NamedOnceStarted
  BY InitTypes
<1>2. TypeOK /\ NamedOnceStarted /\ [Next]_dvars => (TypeOK /\ NamedOnceStarted)'
  BY TypesStep, NamesStep
<1>3. QED
  BY <1>1, <1>2, PTL DEF Spec

-----------------------------------------------------------------------------
(* The end of a shell reaches its rows                                     *)

evars == <<conn, reports, create, jobRow, sessRow, closing, lost>>

LEMMA EndStutter ==
  ASSUME EndInv, UNCHANGED evars
  PROVE  EndInv'
BY DEF EndInv, evars, NamedOnceStarted, Reports, CreatedInOrder, Begun, ClosingIsClosed,
       EndIsUnderWay, SucceededIsClosed

(* The steps that touch neither a connection nor a row.                    *)
LEMMA EndIdle ==
  ASSUME \/ Boot \/ Heartbeat \/ Shutdown \/ CloseGateway
         \/ OfflineArrives \/ OfflineLost \/ WindowExpires
         \/ \E url \in BOOLEAN : HeartbeatArrives(url) \/ HeartbeatLost(url)
         \/ UNCHANGED dvars
  PROVE  UNCHANGED evars
BY DEF evars, dvars, Boot, Heartbeat, Beats, Shutdown, CloseGateway, OfflineArrives,
       OfflineLost, WindowExpires, HeartbeatArrives, Upserts, HeartbeatLost,
       node, sent, routing, served, rows

(* A connection moves on: what has ended is reported or lost, what starts  *)
(* has been created.  The rows stay.                                       *)
LEMMA EndConnection ==
  ASSUME TypeOK, EndInv, TypeOK', NamedOnceStarted',
         UNCHANGED <<create, jobRow, sessRow, closing>>,
         reports \cup lost \subseteq reports' \cup lost', lost \subseteq lost',
         \A s \in reports' : s \in reports \/ create[s] = "done",
         \A c \in Conn : conn'[c].sess = conn[c].sess \/ create[conn'[c].sess] = "done",
         \A c \in Conn :
           conn'[c].exited /\ conn'[c].sess # NoSession =>
             \/ conn[c].exited /\ conn'[c].sess = conn[c].sess
             \/ conn'[c].sess \in reports' \cup lost'
  PROVE  EndInv'
<1>1. CreatedInOrder'
  <2> SUFFICES ASSUME NEW s \in Session, Begun(s)'
               PROVE  create[s] = "done"
    BY DEF EndInv, CreatedInOrder
  <2>1. CASE s \in reports' \ reports
    BY <2>1
  <2>2. CASE \E c \in Conn : conn'[c].sess = s /\ conn[c].sess # s
    BY <2>2
  <2>3. CASE Begun(s)
    BY <2>3 DEF EndInv, CreatedInOrder
  <2>4. QED
    BY <2>1, <2>2, <2>3 DEF Begun
<1>2. ClosingIsClosed' /\ SucceededIsClosed'
  BY DEF EndInv, ClosingIsClosed, SucceededIsClosed
<1>3. EndIsUnderWay'
  <2> SUFFICES ASSUME NEW c \in Conn, conn'[c].exited, conn'[c].sess # NoSession
               PROVE  LET s == conn'[c].sess IN
                      \/ s \in reports' \cup closing' \cup lost'
                      \/ sessRow'[s] = "CLOSED" /\ jobRow'[s] = "SUCCEEDED"
    BY DEF EndIsUnderWay
  <2>1. CASE conn'[c].sess \in reports' \cup lost'
    BY <2>1
  <2>2. CASE conn[c].exited /\ conn'[c].sess = conn[c].sess
    BY <2>2 DEF EndInv, EndIsUnderWay
  <2>3. QED
    BY <2>1, <2>2
<1>4. QED
  BY <1>1, <1>2, <1>3 DEF EndInv

LEMMA EndDesktop ==
  ASSUME TypeOK, EndInv, TypeOK', NamedOnceStarted', Desktop
  PROVE  EndInv'
<1>0. /\ ConnsOK
      /\ \A c \in Conn : Reports(c) => conn[c].sess \in Session /\ create[conn[c].sess] = "done"
  BY DEF TypeOK, ConnsOK, EndInv, NamedOnceStarted, CreatedInOrder, Begun
<1>1. CASE Boot \/ Heartbeat \/ Shutdown \/ CloseGateway
  BY <1>1, EndIdle, EndStutter
<1>2. CASE Exit
  <2>1. /\ UNCHANGED <<conn, create, jobRow, sessRow, closing>>
        /\ reports' \subseteq reports /\ lost' = lost \cup (reports \ reports')
    BY <1>2 DEF Exit, ProcessEnds, rows
  <2>2. QED
    BY <2>1, EndConnection
<1>3. CASE Die
  <2>1. /\ UNCHANGED <<create, jobRow, sessRow, closing>>
        /\ reports' \subseteq reports
        /\ lost' = lost \cup (reports \ reports')
                        \cup {conn[c].sess : c \in {d \in Conn : Reports(d)}}
    BY <1>3 DEF Die, ProcessEnds, rows
  <2>2. \A c \in Conn : conn'[c].sess = conn[c].sess
    BY <1>0, <1>3, DeathStep DEF Die
  <2>3. ASSUME NEW c \in Conn, conn'[c].exited, conn'[c].sess # NoSession, ~conn[c].exited
        PROVE  Reports(c)
    BY <1>0, <1>3, <2>2, <2>3, DeathStep DEF Die, Reports, EndInv, NamedOnceStarted
  <2>4. QED
    BY <2>1, <2>2, <2>3, EndConnection
<1>4. ASSUME NEW c \in Conn, Open(c)
      PROVE  EndInv'
  <2>1. UNCHANGED <<create, jobRow, sessRow, closing, reports, lost>>
    BY <1>4 DEF Open, sent, served, rows
  <2>2. \A d \in Conn : conn'[d].sess = conn[d].sess /\ conn'[d].exited = conn[d].exited
    BY <1>0, <1>4, ConnSteps DEF Open, ConnsOK
  <2>3. QED
    BY <2>1, <2>2, EndConnection
<1>5. ASSUME NEW c \in Conn, ShellExits(c) \/ HangUp(c)
      PROVE  EndInv'
  <2>1. /\ UNCHANGED <<create, jobRow, sessRow, closing, lost>>
        /\ reports' = IF Reports(c) THEN reports \cup {conn[c].sess} ELSE reports
    BY <1>5 DEF ShellExits, HangUp, OnSessionExit, routing, served, rows
  <2>2. /\ \A d \in Conn : conn'[d].sess = conn[d].sess
        /\ \A d \in Conn \ {c} : conn'[d] = conn[d]
    BY <1>0, <1>5, ConnSteps DEF ShellExits, HangUp, ConnsOK
  <2>3. ASSUME ~conn[c].exited, conn[c].sess # NoSession
        PROVE  Reports(c)
    BY <2>3 DEF Reports, EndInv, NamedOnceStarted
  <2>4. QED
    BY <1>0, <2>1, <2>2, <2>3, EndConnection
<1>6. ASSUME NEW c \in Conn, NEW s \in Session, StartShell(c, s) \/ StartFails(c, s)
      PROVE  EndInv'
  <2>1. /\ UNCHANGED <<create, jobRow, sessRow, closing, lost>>
        /\ create[s] = "done" /\ conn[c].stage = "open" /\ ~conn[c].gone
        /\ StartShell(c, s) => reports' = reports
        /\ StartFails(c, s) => reports' = reports \cup {s}
    BY <1>6 DEF StartShell, StartFails, sent, routing, served, rows
  <2>2. ~conn[c].exited
    BY <2>1 DEF EndInv, NamedOnceStarted
  <2>3. /\ conn'[c].sess = s
        /\ StartShell(c, s) => ~conn'[c].exited
        /\ \A d \in Conn \ {c} : conn'[d] = conn[d]
    BY <1>0, <1>6, <2>2, StartSteps DEF ConnsOK
  <2>4. QED
    BY <1>0, <1>6, <2>1, <2>3, EndConnection
<1>7. QED
  BY <1>1, <1>2, <1>3, <1>4, <1>5, <1>6 DEF Desktop

(* The rest of EndInv, for steps of the API, which leave connections alone. *)
RowsEnd == CreatedInOrder /\ ClosingIsClosed /\ EndIsUnderWay /\ SucceededIsClosed

LEMMA EndCreate ==
  ASSUME TypeOK, EndInv, NEW s \in Session,
         Route(s) \/ CreateJob(s) \/ OpenSession(s) \/ CreateThrows(s)
  PROVE  RowsEnd'
<1>1. /\ UNCHANGED <<conn, reports, closing, lost>>
      /\ create[s] # "done" /\ create' = [create EXCEPT ![s] = create'[s]]
      /\ create[s] \in {"route", "job", "session"}
  BY DEF Route, CreateJob, CreatesJob, OpenSession, CreateThrows, Creates, sent, TypeOK
<1>2. ~Begun(s)
  BY <1>1 DEF EndInv, CreatedInOrder
<1>3. /\ \A t \in Session \ {s} : /\ create'[t] = create[t]
                                  /\ jobRow'[t] = jobRow[t] /\ sessRow'[t] = sessRow[t]
      /\ jobRow'[s] # "SUCCEEDED"
      /\ create'[s] \in {"session", "done"} => jobRow'[s] # "none"
  <2>1. jobRow[s] # "SUCCEEDED"
    BY <1>2 DEF Begun
  <2>2. create[s] = "session" => jobRow[s] # "none"
    BY DEF EndInv, CreatedInOrder
  <2>3. QED
    BY <2>1, <2>2 DEF Route, CreateJob, CreatesJob, OpenSession, CreateThrows, Creates, rows, TypeOK
<1>4. \A t \in Session : Begun(t)' => Begun(t) /\ t # s
  BY <1>1, <1>2, <1>3 DEF Begun
<1>5. \A t \in Session \ {s} : Begun(t)' => create[t] = "done"
  BY <1>4 DEF EndInv, CreatedInOrder
<1>6. CreatedInOrder'
  BY <1>3, <1>4, <1>5 DEF EndInv, CreatedInOrder
<1>7. ClosingIsClosed'
  BY <1>1, <1>2, <1>3 DEF EndInv, ClosingIsClosed, Begun, TypeOK
<1>8. EndIsUnderWay'
  BY <1>1, <1>2, <1>3 DEF EndInv, EndIsUnderWay, Begun, TypeOK, Conns
<1>9. SucceededIsClosed'
  BY <1>1, <1>3 DEF EndInv, SucceededIsClosed
<1>10. QED
  BY <1>6, <1>7, <1>8, <1>9 DEF RowsEnd

(* A close request, or the loss of one.                                    *)
LEMMA EndClose ==
  ASSUME TypeOK, EndInv, NEW s \in Session,
         \/ ReportArrives(s) \/ ReportLost(s) \/ CloseSwallowed(s)
         \/ UserCloses(s) \/ FinishSwallowed(s)
  PROVE  RowsEnd'
<1>1. /\ UNCHANGED <<conn, create, jobRow>>
      /\ reports \subseteq reports' \cup {s} /\ reports' \subseteq reports
      /\ lost \subseteq lost' /\ lost' \subseteq lost \cup {s}
      /\ closing \subseteq closing' \cup {s} /\ closing' \subseteq closing \cup {s}
      /\ s \in closing' \cup lost'
      /\ s \in closing' => sessRow'[s] = "CLOSED" \/ s \in lost'
      /\ sessRow'[s] = sessRow[s] \/ sessRow'[s] = "CLOSED"
      /\ \A t \in Session \ {s} : sessRow'[t] = sessRow[t]
  BY DEF ReportArrives, ReportLost, CloseSwallowed, UserCloses, CloseSession,
         FinishSwallowed, sent, rows, TypeOK
<1>2. create[s] = "done"
  BY DEF ReportArrives, ReportLost, CloseSwallowed, UserCloses, FinishSwallowed,
         EndInv, CreatedInOrder, Begun
<1>3. \A t \in Session : Begun(t)' => Begun(t) \/ t = s
  BY <1>1 DEF Begun
<1>4. CreatedInOrder'
  BY <1>1, <1>2, <1>3 DEF EndInv, CreatedInOrder
<1>5. ClosingIsClosed'
  BY <1>1 DEF EndInv, ClosingIsClosed, TypeOK
<1>6. EndIsUnderWay'
  BY <1>1 DEF EndInv, EndIsUnderWay, TypeOK, Conns
<1>7. SucceededIsClosed'
  BY <1>1 DEF EndInv, SucceededIsClosed
<1>8. QED
  BY <1>4, <1>5, <1>6, <1>7 DEF RowsEnd

LEMMA EndFinish ==
  ASSUME TypeOK, EndInv, NEW s \in Session, FinishJob(s)
  PROVE  RowsEnd'
<1>1. /\ UNCHANGED <<conn, reports, create, sessRow, lost>>
      /\ s \in closing /\ closing' = closing \ {s}
  BY DEF FinishJob, Finishes, sent
<1>2. create[s] = "done" /\ jobRow[s] # "none"
  BY <1>1 DEF EndInv, CreatedInOrder, Begun
<1>3. /\ jobRow'[s] = "SUCCEEDED"
      /\ \A t \in Session \ {s} : jobRow'[t] = jobRow[t]
  BY <1>2 DEF FinishJob, Finishes, TypeOK
<1>4. sessRow[s] = "CLOSED" \/ s \in lost
  BY <1>1 DEF EndInv, ClosingIsClosed
<1>5. CreatedInOrder'
  BY <1>1, <1>2, <1>3 DEF EndInv, CreatedInOrder, Begun
<1>6. ClosingIsClosed'
  BY <1>1 DEF EndInv, ClosingIsClosed
<1>7. EndIsUnderWay'
  BY <1>1, <1>3, <1>4 DEF EndInv, EndIsUnderWay, TypeOK, Conns
<1>8. SucceededIsClosed'
  BY <1>1, <1>3, <1>4 DEF EndInv, SucceededIsClosed
<1>9. QED
  BY <1>5, <1>6, <1>7, <1>8 DEF RowsEnd

LEMMA EndApiDies ==
  ASSUME TypeOK, EndInv, ApiDies
  PROVE  RowsEnd'
<1>1. /\ UNCHANGED <<conn, reports, jobRow, sessRow>>
      /\ closing' = {} /\ lost' = lost \cup closing
      /\ \A s \in Session : create'[s] = IF create[s] \in {"job", "session"}
                                         THEN "failed" ELSE create[s]
  BY DEF ApiDies, sent, rows
<1>2. \A s \in Session : Begun(s)' => Begun(s)
  BY <1>1 DEF Begun
<1>3. CreatedInOrder'
  BY <1>1, <1>2 DEF EndInv, CreatedInOrder
<1>4. ClosingIsClosed'
  BY <1>1 DEF ClosingIsClosed
<1>5. EndIsUnderWay'
  BY <1>1 DEF EndInv, EndIsUnderWay
<1>6. SucceededIsClosed'
  BY <1>1 DEF EndInv, SucceededIsClosed
<1>7. QED
  BY <1>3, <1>4, <1>5, <1>6 DEF RowsEnd

LEMMA EndStep ==
  ASSUME TypeOK, EndInv, TypeOK', [Next]_dvars
  PROVE  EndInv'
<1>0. NamedOnceStarted'
  BY NamesStep DEF EndInv
<1>1. CASE Desktop
  BY <1>0, <1>1, EndDesktop
<1>2. ASSUME RowsEnd'
      PROVE  EndInv'
  BY <1>0, <1>2 DEF RowsEnd, EndInv
<1>3. ASSUME NEW s \in Session,
             \/ Route(s) \/ CreateJob(s) \/ OpenSession(s) \/ CreateThrows(s)
             \/ ReportArrives(s) \/ ReportLost(s) \/ CloseSwallowed(s)
             \/ UserCloses(s) \/ FinishJob(s) \/ FinishSwallowed(s)
      PROVE  EndInv'
  BY <1>2, <1>3, EndCreate, EndClose, EndFinish
<1>4. CASE ApiDies
  BY <1>2, <1>4, EndApiDies
<1>5. CASE \/ OfflineArrives \/ OfflineLost \/ WindowExpires \/ UNCHANGED dvars
           \/ \E url \in BOOLEAN : HeartbeatArrives(url) \/ HeartbeatLost(url)
  BY <1>5, EndIdle, EndStutter
<1>6. QED
  BY <1>1, <1>3, <1>4, <1>5 DEF Next, Api

LEMMA EndInit ==
  ASSUME Init
  PROVE  EndInv
<1>1. /\ \A c \in Conn : conn[c].sess = NoSession /\ ~conn[c].exited
      /\ reports = {} /\ closing = {}
      /\ \A s \in Session : jobRow[s] = "none" /\ create[s] = "route"
  BY DEF Init, GatewayInit
<1>2. CreatedInOrder /\ ClosingIsClosed /\ EndIsUnderWay /\ SucceededIsClosed
  BY <1>1, SessionAssumption
  DEF CreatedInOrder, Begun, ClosingIsClosed, EndIsUnderWay, SucceededIsClosed
<1>3. QED
  BY <1>2, InitTypes DEF EndInv

LEMMA EndHolds == Spec => [](TypeOK /\ EndInv)
<1>1. Init => TypeOK /\ EndInv
  BY InitTypes, EndInit
<1>2. TypeOK /\ EndInv /\ [Next]_dvars => (TypeOK /\ EndInv)'
  BY TypesStep, EndStep DEF EndInv
<1>3. QED
  BY <1>1, <1>2, PTL DEF Spec

(* The end of every shell is on its way to the rows, done, or accounted    *)
(* for as lost.                                                            *)
THEOREM Ends == Spec => []EndIsUnderWay
<1>1. EndInv => EndIsUnderWay
  BY DEF EndInv
<1>2. QED
  BY <1>1, EndHolds, PTL

(* A job shown as finished has a closed session.                           *)
THEOREM Finished == Spec => []SucceededIsClosed
<1>1. EndInv => SucceededIsClosed
  BY DEF EndInv
<1>2. QED
  BY <1>1, EndHolds, PTL

-----------------------------------------------------------------------------
(* Routing                                                                 *)

LEMMA UrlStep ==
  ASSUME TypeOK, UrlIsKept, [Next]_dvars
  PROVE  UrlIsKept'
<1>1. CASE UNCHANGED <<presence, advertised>>
  BY <1>1 DEF UrlIsKept
<1>2. ASSUME NEW url \in BOOLEAN, HeartbeatArrives(url)
      PROVE  UrlIsKept'
  BY <1>2 DEF HeartbeatArrives, Upserts, UrlIsKept
<1>3. CASE OfflineArrives \/ WindowExpires
  BY <1>3 DEF OfflineArrives, WindowExpires, UrlIsKept, TypeOK, Presence
<1>4. QED
  BY <1>1, <1>2, <1>3
  DEF Next, Desktop, Api, dvars, Boot, Heartbeat, Beats, Shutdown, CloseGateway, Exit, Die,
      ProcessEnds, Open, ShellExits, HangUp, StartShell, StartFails,
      HeartbeatLost, OfflineLost, routing,
      Route, Creates, CreateJob, CreatesJob, OpenSession, CreateThrows, ReportArrives,
      CloseSession, ReportLost, CloseSwallowed, UserCloses, FinishJob, Finishes,
      FinishSwallowed, ApiDies

(* The status shown to the phone is the route its next job takes.          *)
THEOREM StatusIsRoute == Spec => []StatusTellsTheRoute
<1>1. Init => UrlIsKept
  BY DEF Init, UrlIsKept
<1>2. TypeOK /\ UrlIsKept /\ [Next]_dvars => UrlIsKept'
  BY UrlStep
<1>3. UrlIsKept => StatusTellsTheRoute
  BY DEF UrlIsKept, StatusTellsTheRoute, status, resolveTarget, Reader
<1>4. QED
  BY <1>1, <1>2, <1>3, TypeInvariant, PTL DEF Spec

=============================================================================
