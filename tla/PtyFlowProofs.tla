--------------------------- MODULE PtyFlowProofs ---------------------------
(***************************************************************************)
(* What TLAPS proves of PtyFlow, for any watermarks and any amount of      *)
(* output: its types, that both ends report the same end of the session,   *)
(* and that no PTY outlives its socket.                                    *)
(***************************************************************************)
EXTENDS PtyFlow, SequenceTheorems, TLAPS

(* The assumptions on constants, one by one.                               *)
LEMMA Constants ==
  c \in Conn /\ s \in Session /\ High \in Nat /\ Low \in Nat /\ MaxOutput \in Nat
BY FlowAssumption

-----------------------------------------------------------------------------
(* What the gateway's actions do to this connection                        *)

LEMMA ConnSteps ==
  ASSUME conn \in [Conn -> Conns]
  PROVE  /\ conn[c] \in Conns
         /\ Accept(c) => /\ conn' \in [Conn -> Conns]
                         /\ conn'[c].stage = "open"
                         /\ conn'[c].exited = conn[c].exited
         /\ Start(c, s) => /\ conn' \in [Conn -> Conns]
                           /\ conn[c].stage = "open"
                           /\ conn'[c].stage = "waiting"
                           /\ conn'[c].exited = conn[c].exited
         /\ Spawn(c) => /\ conn' \in [Conn -> Conns]
                        /\ conn[c].stage = "waiting"
                        /\ conn'[c].stage = "running"
                        /\ conn'[c].exited = conn[c].exited
         /\ SpawnFails(c, "refused") => /\ conn' \in [Conn -> Conns]
                                        /\ conn[c].stage = "waiting"
                                        /\ conn'[c].stage = "refused"
                                        /\ conn'[c].exited
         /\ PtyExit(c) => /\ conn' \in [Conn -> Conns]
                          /\ conn[c].stage = "running"
                          /\ conn'[c].stage = "ended"
                          /\ conn'[c].exited
         /\ SocketClose(c) => /\ conn' \in [Conn -> Conns]
                              /\ conn[c].stage # "unused"
                              /\ conn'[c].stage = conn[c].stage
                              /\ conn'[c].exited
<1> DEFINE r == conn[c]
<1>1. r \in Conns
  BY Constants
<1>2. /\ Finish(r) \in Conns
      /\ Finish(r).stage = r.stage
      /\ Finish(r).exited
  BY <1>1 DEF Finish, Conns
<1>3. ASSUME Accept(c)
      PROVE  /\ conn' \in [Conn -> Conns]
             /\ conn'[c].stage = "open"
             /\ conn'[c].exited = conn[c].exited
  BY <1>1, <1>3, Constants DEF Accept, Conns, Stage
<1>4. ASSUME Start(c, s)
      PROVE  /\ conn' \in [Conn -> Conns]
             /\ conn[c].stage = "open"
             /\ conn'[c].stage = "waiting"
             /\ conn'[c].exited = conn[c].exited
  BY <1>1, <1>4, Constants DEF Start, Conns, Stage
<1>5. ASSUME Spawn(c)
      PROVE  /\ conn' \in [Conn -> Conns]
             /\ conn[c].stage = "waiting"
             /\ conn'[c].stage = "running"
             /\ conn'[c].exited = conn[c].exited
  BY <1>1, <1>5, Constants DEF Spawn, Conns, Stage
<1>6. ASSUME NEW stage \in Stage, conn' = [conn EXCEPT ![c] = [Finish(r) EXCEPT !.stage = stage]]
      PROVE  /\ conn' \in [Conn -> Conns]
             /\ conn'[c].stage = stage
             /\ conn'[c].exited
  <2>1. /\ [Finish(r) EXCEPT !.stage = stage] \in Conns
        /\ [Finish(r) EXCEPT !.stage = stage].stage = stage
        /\ [Finish(r) EXCEPT !.stage = stage].exited
    BY <1>2 DEF Conns
  <2>2. QED
    BY <1>6, <2>1, Constants
<1>7. SpawnFails(c, "refused") => /\ conn' \in [Conn -> Conns]
                                  /\ conn[c].stage = "waiting"
                                  /\ conn'[c].stage = "refused"
                                  /\ conn'[c].exited
  BY <1>6 DEF SpawnFails, Stage
<1>8. PtyExit(c) => /\ conn' \in [Conn -> Conns]
                    /\ conn[c].stage = "running"
                    /\ conn'[c].stage = "ended"
                    /\ conn'[c].exited
  BY <1>6 DEF PtyExit, Stage
<1>9. ASSUME SocketClose(c)
      PROVE  /\ conn' \in [Conn -> Conns]
             /\ conn[c].stage # "unused"
             /\ conn'[c].stage = conn[c].stage
             /\ conn'[c].exited
  <2>1. /\ [Finish(r) EXCEPT !.gone = TRUE] \in Conns
        /\ [Finish(r) EXCEPT !.gone = TRUE].stage = r.stage
        /\ [Finish(r) EXCEPT !.gone = TRUE].exited
    BY <1>2 DEF Conns
  <2>2. conn' = [conn EXCEPT ![c] = [Finish(r) EXCEPT !.gone = TRUE]]
    BY <1>9 DEF SocketClose
  <2>3. QED
    BY <1>9, <2>1, <2>2, Constants DEF SocketClose
<1>10. QED
  BY <1>1, <1>3, <1>4, <1>5, <1>7, <1>8, <1>9

-----------------------------------------------------------------------------
(* The frames                                                              *)

LEMMA FrameSet ==
  {"ready", "data", "error", "ok", "failed"} \subseteq Frame /\ Code \subseteq Frame
BY DEF Frame, Code

(* A frame is appended while the socket is open, and lost otherwise.       *)
LEMMA SendFacts ==
  ASSUME out \in Seq(Frame), NEW f \in Frame, Send(f)
  PROVE  /\ out' \in Seq(Frame)
         /\ ws # "open" => out' = out
         /\ ws = "open" => /\ Len(out') = Len(out) + 1
                           /\ out'[Len(out')] = f
                           /\ \A i \in DOMAIN out' :
                                (i \in DOMAIN out /\ out'[i] = out[i]) \/ out'[i] = f
<1>1. CASE ws # "open"
  BY <1>1 DEF Send
<1>2. CASE ws = "open"
  <2>1. out' = Append(out, f)
    BY <1>2 DEF Send
  <2>2. QED
    BY <1>2, <2>1, AppendProperties
<1>3. QED
  BY <1>1, <1>2

(* The frame at the head is read.                                          *)
LEMMA ReadFacts ==
  ASSUME out \in Seq(Frame), out # <<>>, out' = Tail(out)
  PROVE  /\ out' \in Seq(Frame)
         /\ Head(out) = out[1] /\ 1 \in DOMAIN out
         /\ Len(out') = Len(out) - 1
         /\ \A i \in DOMAIN out' : i + 1 \in DOMAIN out /\ out'[i] = out[i + 1]
         /\ out' # <<>> => out'[Len(out')] = out[Len(out)]
         /\ out' = <<>> => Head(out) = out[Len(out)]
BY HeadTailProperties

(* The two frames the script may send.                                     *)
LEMMA TwoFrames ==
  ASSUME NEW x, NEW y
  PROVE  Append(<<x>>, y) = <<x, y>>
<1> DEFINE S == {x, y}
<1>1. /\ <<x>> \in Seq(S) /\ Len(<<x>>) = 1
      /\ <<x, y>> \in Seq(S) /\ Len(<<x, y>>) = 2
      /\ <<x, y>>[1] = x /\ <<x, y>>[2] = y
  OBVIOUS
<1>2. /\ Append(<<x>>, y) \in Seq(S) /\ Len(Append(<<x>>, y)) = 2
      /\ Append(<<x>>, y)[1] = x /\ Append(<<x>>, y)[2] = y
  BY <1>1, AppendProperties
<1> HIDE DEF S
<1>3. \A i \in 1 .. 2 : Append(<<x>>, y)[i] = <<x, y>>[i]
  <2>1. \A i \in 1 .. 2 : i = 1 \/ i = 2
    OBVIOUS
  <2>2. QED
    BY <1>1, <1>2, <2>1
<1>4. QED
  BY <1>1, <1>2, <1>3, SeqEqual

(* The `start` comes first and a `kill` last.                              *)
LEMMA ReceiveFacts ==
  ASSUME InboxOK, NEW m, Receive(m)
  PROVE  /\ InboxOK'
         /\ inbox # <<>> /\ Head(inbox) = m
         /\ inbox' \in {<<>>, <<"kill">>}
         /\ m = "kill" => inbox' = <<>> /\ inbox = <<"kill">>
         /\ inbox \in {<<>>, <<"start">>} => inbox' = <<>>
         /\ ~StartComes'
         /\ m = "start" => StartComes
         /\ UNCHANGED <<client, code, line, late>>
<1>1. /\ Tail(<<"start">>) = <<>>
      /\ Tail(<<"kill">>) = <<>>
      /\ Tail(<<"start", "kill">>) = <<"kill">>
  OBVIOUS
<1>2. /\ Head(<<"kill">>) = "kill"
      /\ Head(<<"start">>) = "start"
      /\ Head(<<"start", "kill">>) = "start"
  OBVIOUS
<1>3. QED
  BY <1>1, <1>2 DEF InboxOK, Receive, StartComes, script

(* Whether `start` is still to come.                                       *)
LEMMA InboxStays ==
  ASSUME UNCHANGED inbox
  PROVE  StartComes' = StartComes
BY DEF StartComes

LEMMA InboxEmptied ==
  ASSUME inbox' = <<>>
  PROVE  ~StartComes'
BY DEF StartComes

LEMMA StartSent ==
  ASSUME inbox' = <<"start">>
  PROVE  StartComes'
<1>1. <<"start">> # <<>> /\ Head(<<"start">>) = "start"
  OBVIOUS
<1>2. QED
  BY <1>1 DEF StartComes

LEMMA KillSent ==
  ASSUME inbox \in {<<>>, <<"start">>}, inbox' = Append(inbox, "kill")
  PROVE  /\ InboxOK'
         /\ inbox' # <<>>
         /\ StartComes' <=> StartComes
<1>1. Append(<<>>, "kill") = <<"kill">>
  OBVIOUS
<1>2. Append(<<"start">>, "kill") = <<"start", "kill">>
  BY TwoFrames
<1>3. /\ Head(<<"kill">>) = "kill"
      /\ Head(<<"start">>) = "start"
      /\ Head(<<"start", "kill">>) = "start"
      /\ <<"kill">> # <<>> /\ <<"start", "kill">> # <<>> /\ <<"start">> # <<>>
  OBVIOUS
<1>4. QED
  BY <1>1, <1>2, <1>3 DEF InboxOK, StartComes

-----------------------------------------------------------------------------(* TypeOK without the two queue bounds, which follow from FlowInv: what    *)
(* each action is shown to keep.                                           *)

Types ==
  /\ conn \in [Conn -> Conns]
  /\ client \in Client
  /\ code \in Code \cup {None}
  /\ out \in Seq(Frame)
  /\ ws \in {None, "open", "closing", "closed"}
  /\ {line, paused, timer, killed, late} \subseteq BOOLEAN
  /\ written \in 0..MaxOutput
  /\ report \in Code \cup {None}

LEMMA TypesSuffice ==
  ASSUME Types, EndsInStep, OutboxBound
  PROVE  TypeOK
<1>1. inbox \in Seq({"start", "kill"}) /\ Len(inbox) <= 2
  <2>1. CASE inbox = <<>>
    BY <2>1, EmptySeq
  <2>2. CASE inbox = <<"start">>
    BY <2>2
  <2>3. CASE inbox = <<"kill">>
    BY <2>3
  <2>4. CASE inbox = <<"start", "kill">>
    BY <2>4
  <2>5. QED
    BY <2>1, <2>2, <2>3, <2>4 DEF EndsInStep, InboxOK
<1>2. Len(out) <= MaxOutput + 2
  BY Constants, LenProperties DEF Types, OutboxBound
<1>3. QED
  BY <1>1, <1>2 DEF Types, TypeOK

-----------------------------------------------------------------------------
(* Every action keeps the invariant                                        *)

LEMMA OnStartKeeps ==
  ASSUME Types, FlowInv, OnStart
  PROVE  Types' /\ FlowInv'
<1> USE DEF FlowInv
<1>1. Types'
  BY ReceiveFacts, ConnSteps DEF Types, EndsInStep, OnStart, flow
<1>2. EndsInStep'
  BY ReceiveFacts, ConnSteps DEF Types, EndsInStep, OnStart
<1>3. OutboxBound'
  BY ConnSteps DEF Types, OutboxBound, OnStart, flow
<1>4. EndIsTold'
  BY ReceiveFacts DEF NeverReported, EndIsTold, EndsInStep, OnStart
<1>5. FinishKills'
  BY ConnSteps DEF Types, FinishKills, OnStart
<1>6. QED
  BY <1>1, <1>2, <1>3, <1>4, <1>5

LEMMA OnStartRejectedKeeps ==
  ASSUME Types, FlowInv, OnStartRejected
  PROVE  Types' /\ FlowInv'
<1> USE DEF FlowInv
<1>1. Types'
  BY ReceiveFacts, SendFacts, FrameSet
  DEF Types, EndsInStep, OnStartRejected, CloseSocket, flow
<1>2. EndsInStep'
  BY ReceiveFacts DEF EndsInStep, OnStartRejected, CloseSocket, None
<1>3. OutboxBound'
  BY SendFacts, FrameSet
  DEF Types, OutboxBound, OnStartRejected, CloseSocket, flow
<1>4. EndIsTold'
  BY ReceiveFacts, SendFacts, FrameSet
  DEF Types, Code, NeverReported, EndIsTold, End, EndsInStep, OnStartRejected,
      CloseSocket
<1>5. FinishKills'
  BY ReceiveFacts DEF FinishKills, EndsInStep, OnStartRejected
<1>6. QED
  BY <1>1, <1>2, <1>3, <1>4, <1>5

LEMMA OnKillKeeps ==
  ASSUME Types, FlowInv, OnKill
  PROVE  Types' /\ FlowInv'
<1> USE DEF FlowInv
<1>1. Types'
  BY ReceiveFacts DEF Types, EndsInStep, OnKill
<1>2. EndsInStep'
  BY ReceiveFacts DEF EndsInStep, OnKill
<1>3. OutboxBound'
  BY DEF OutboxBound, OnKill
<1>4. EndIsTold'
  BY ReceiveFacts DEF NeverReported, EndIsTold, EndsInStep, OnKill
<1>5. FinishKills'
  BY DEF FinishKills, OnKill
<1>6. QED
  BY <1>1, <1>2, <1>3, <1>4, <1>5

LEMMA SpawnPtyKeeps ==
  ASSUME Types, FlowInv, SpawnPty
  PROVE  Types' /\ FlowInv'
<1> USE DEF FlowInv
<1>1. Types'
  BY SendFacts, FrameSet, ConnSteps DEF Conns, Types, SpawnPty, script, flow
<1>2. EndsInStep'
  BY InboxStays, ConnSteps DEF Types, InboxOK, EndsInStep, SpawnPty, script
<1>3. OutboxBound'
  BY SendFacts, FrameSet, ConnSteps DEF Types, OutboxBound, SpawnPty, flow
<1>4. EndIsTold'
  BY SendFacts, FrameSet, ConnSteps
  DEF Types, Code, NeverReported, EndIsTold, SpawnPty, script
<1>5. FinishKills'
  BY ConnSteps DEF Types, FinishKills, SpawnPty
<1>6. QED
  BY <1>1, <1>2, <1>3, <1>4, <1>5

LEMMA SpawnThrowsKeeps ==
  ASSUME Types, FlowInv, SpawnThrows
  PROVE  Types' /\ FlowInv'
<1> USE DEF FlowInv
<1>1. Types'
  BY SendFacts, FrameSet, ConnSteps
  DEF Types, Code, SpawnThrows, CloseSocket, Report, ClearTimer, script
<1>2. EndsInStep'
  BY InboxStays, ConnSteps
  DEF Types, InboxOK, EndsInStep, SpawnThrows, CloseSocket, None, script
<1>3. OutboxBound'
  BY SendFacts, FrameSet, ConnSteps
  DEF Types, OutboxBound, SpawnThrows, CloseSocket
<1>4. EndIsTold'
  BY SendFacts, FrameSet, ConnSteps
  DEF Types, Code, NeverReported, EndIsTold, End, EndsInStep, SpawnThrows,
      CloseSocket, Report, Reports, None, script
<1>5. FinishKills'
  BY ConnSteps DEF Types, FinishKills, SpawnThrows
<1>6. QED
  BY <1>1, <1>2, <1>3, <1>4, <1>5

LEMMA OnDataKeeps ==
  ASSUME Types, FlowInv, OnData
  PROVE  Types' /\ FlowInv'
<1> USE DEF FlowInv
<1>1. Types'
  <2>1. paused' \in BOOLEAN /\ timer' \in BOOLEAN
    BY DEF OnData, applyBackpressure, Types
  <2>2. written' \in 0..MaxOutput
    BY Constants DEF OnData, Types
  <2>3. out' \in Seq(Frame)
    BY SendFacts, FrameSet DEF OnData, Types
  <2>4. QED
    BY <2>1, <2>2, <2>3 DEF OnData, Types, script, seen
<1>2. EndsInStep'
  BY InboxStays DEF InboxOK, EndsInStep, OnData, script
<1>3. OutboxBound'
  BY SendFacts, FrameSet DEF Types, OutboxBound, OnData
<1>4. EndIsTold'
  BY SendFacts, FrameSet
  DEF Types, Code, NeverReported, EndIsTold, OnData, script, seen
<1>5. FinishKills'
  BY DEF FinishKills, OnData, seen
<1>6. QED
  BY <1>1, <1>2, <1>3, <1>4, <1>5

LEMMA DrainKeeps ==
  ASSUME Types, FlowInv, Drain
  PROVE  Types' /\ FlowInv'
<1> USE DEF FlowInv
<1>1. Types'
  BY DEF Types, Drain, script, wire, seen
<1>2. EndsInStep'
  BY InboxStays DEF InboxOK, EndsInStep, Drain, script, wire, seen
<1>3. OutboxBound'
  BY DEF OutboxBound, Drain, wire
<1>4. EndIsTold'
  BY InboxStays DEF NeverReported, EndIsTold, Drain, script, wire, seen
<1>5. FinishKills'
  BY DEF FinishKills, Drain, seen
<1>6. QED
  BY <1>1, <1>2, <1>3, <1>4, <1>5

LEMMA ClosesKeeps ==
  ASSUME Types, FlowInv, Closes
  PROVE  Types' /\ FlowInv'
<1> USE DEF FlowInv
<1>1. Types'
  BY ConnSteps DEF Types, Code, Closes, SocketCloses, Report, ClearTimer, script
<1>2. EndsInStep'
  BY InboxEmptied, ConnSteps
  DEF Types, InboxOK, EndsInStep, Closes, SocketCloses, None, script
<1>3. OutboxBound'
  BY ConnSteps DEF Types, OutboxBound, Closes, SocketCloses
<1>4. EndIsTold'
  BY InboxEmptied, ConnSteps
  DEF Types, Code, NeverReported, EndIsTold, Closes, SocketCloses, Report,
      Reports, None, script
<1>5. FinishKills'
  BY ConnSteps DEF Types, FinishKills, Closes, SocketCloses
<1>6. QED
  BY <1>1, <1>2, <1>3, <1>4, <1>5

LEMMA CloseGivesUpKeeps ==
  ASSUME Types, FlowInv, CloseGivesUp
  PROVE  Types' /\ FlowInv'
<1> USE DEF FlowInv
<1>1. Types'
  BY ConnSteps
  DEF Types, Code, CloseGivesUp, SocketCloses, Report, ClearTimer, script
<1>2. EndsInStep'
  BY InboxEmptied, ConnSteps
  DEF Types, InboxOK, EndsInStep, CloseGivesUp, SocketCloses, None, script
<1>3. OutboxBound'
  BY ConnSteps DEF Types, OutboxBound, CloseGivesUp, SocketCloses
<1>4. EndIsTold'
  BY InboxEmptied, ConnSteps
  DEF Types, Code, NeverReported, EndIsTold, CloseGivesUp, SocketCloses, Report,
      Reports, None, script
<1>5. FinishKills'
  BY ConnSteps DEF Types, FinishKills, CloseGivesUp, SocketCloses
<1>6. QED
  BY <1>1, <1>2, <1>3, <1>4, <1>5

LEMMA OnExitKeeps ==
  ASSUME Types, FlowInv, NEW k \in Code, OnExit(k)
  PROVE  Types' /\ FlowInv'
<1> USE DEF FlowInv
<1>1. Types'
  BY SendFacts, FrameSet, ConnSteps
  DEF Types, OnExit, CloseSocket, Report, ClearTimer, script
<1>2. EndsInStep'
  BY InboxStays, ConnSteps
  DEF Types, InboxOK, EndsInStep, OnExit, CloseSocket, None, script
<1>3. OutboxBound'
  BY SendFacts, FrameSet, ConnSteps DEF Types, OutboxBound, OnExit, CloseSocket
<1>4. EndIsTold'
  BY SendFacts, FrameSet, ConnSteps
  DEF Types, Code, NeverReported, EndIsTold, End, EndsInStep, OnExit,
      CloseSocket, Report, Reports, None, script
<1>5. FinishKills'
  BY ConnSteps DEF Types, FinishKills, OnExit
<1>6. QED
  BY <1>1, <1>2, <1>3, <1>4, <1>5

LEMMA RequestKeeps ==
  ASSUME Types, FlowInv, Request
  PROVE  Types' /\ FlowInv'
<1> USE DEF FlowInv
<1>1. Types'
  BY DEF Types, Request, Client, wire, flow, seen
<1>2. EndsInStep'
  BY InboxStays DEF InboxOK, EndsInStep, Request, wire, seen
<1>3. OutboxBound'
  BY DEF OutboxBound, Request, wire, flow
<1>4. EndIsTold'
  BY DEF EndIsTold, EndsInStep, Request, wire, seen
<1>5. FinishKills'
  BY DEF FinishKills, Request, flow, seen
<1>6. QED
  BY <1>1, <1>2, <1>3, <1>4, <1>5

LEMMA RequestThrowsKeeps ==
  ASSUME Types, FlowInv, RequestThrows
  PROVE  Types' /\ FlowInv'
<1> USE DEF FlowInv
<1>1. Types'
  BY DEF Types, Code, RequestThrows, Cleanup, Client, wire, flow, seen
<1>2. EndsInStep'
  BY InboxStays DEF InboxOK, EndsInStep, RequestThrows, Cleanup, wire, seen
<1>3. OutboxBound'
  BY DEF OutboxBound, RequestThrows, wire, flow
<1>4. EndIsTold'
  BY InboxStays
  DEF NeverReported, EndIsTold, EndsInStep, RequestThrows, Cleanup, None, wire,
      seen
<1>5. FinishKills'
  BY DEF FinishKills, RequestThrows, flow, seen
<1>6. QED
  BY <1>1, <1>2, <1>3, <1>4, <1>5

LEMMA ConnectKeeps ==
  ASSUME Types, FlowInv, Connect
  PROVE  Types' /\ FlowInv'
<1> USE DEF FlowInv
<1>1. Types'
  BY ConnSteps DEF Types, Connect, Client, flow, seen
<1>2. EndsInStep'
  BY ConnSteps DEF Types, InboxOK, EndsInStep, Connect, None
<1>3. OutboxBound'
  BY DEF Types, OutboxBound, EndsInStep, Connect, flow
<1>4. EndIsTold'
  BY DEF EndIsTold, EndsInStep, Connect, seen
<1>5. FinishKills'
  BY ConnSteps DEF Types, FinishKills, Connect
<1>6. QED
  BY <1>1, <1>2, <1>3, <1>4, <1>5

LEMMA ClientReadsKeeps ==
  ASSUME Types, FlowInv, ClientReads
  PROVE  Types' /\ FlowInv'
<1> USE DEF FlowInv
<1>1. /\ client = "open" /\ line /\ out # <<>> /\ out' = Tail(out)
      /\ UNCHANGED <<conn, inbox, line, ws, paused, timer, killed, written, report, late>>
      /\ Head(out) \in Frame
      /\ \/ Head(out) \in {"ready", "data"} /\ UNCHANGED <<client, code>>
         \/ Head(out) = "error" /\ client' = "exited" /\ code' = "failed"
         \/ Head(out) \in Code /\ client' = "exited" /\ code' = Head(out)
  <2>1. Head(out) \in Frame /\ out # <<>>
    BY DEF ClientReads, Types
  <2>2. QED
    BY <2>1 DEF ClientReads, Cleanup, script, flow, seen, Frame
<1>2. /\ out' \in Seq(Frame) /\ Len(out') = Len(out) - 1
      /\ Head(out) = out[1] /\ 1 \in DOMAIN out
      /\ \A i \in DOMAIN out' : i + 1 \in DOMAIN out /\ out'[i] = out[i + 1]
      /\ out' # <<>> => out'[Len(out')] = out[Len(out)]
      /\ out' = <<>> => Head(out) = out[Len(out)]
  BY <1>1, ReadFacts DEF Types
<1>3. StartComes' = StartComes
  BY <1>1, InboxStays
<1>4. Types'
  BY <1>1 DEF Types, Client, Code
<1>5. EndsInStep'
  BY <1>1, <1>3 DEF EndsInStep, InboxOK
<1>6. OutboxBound'
  BY <1>1 DEF Types, OutboxBound
<1>7. EndIsTold'
  BY <1>1, <1>2, <1>3 DEF EndIsTold, NeverReported, End, Code, None
<1>8. FinishKills'
  BY <1>1 DEF FinishKills
<1>9. QED
  BY <1>4, <1>5, <1>6, <1>7, <1>8

LEMMA InterruptKeeps ==
  ASSUME Types, FlowInv, Interrupt
  PROVE  Types' /\ FlowInv'
<1> USE DEF FlowInv
<1>1. Types'
  BY DEF Types, Code, Interrupt, Client, flow, seen
<1>2. EndsInStep'
  BY KillSent DEF EndsInStep, Interrupt
<1>3. OutboxBound'
  BY DEF OutboxBound, Interrupt, flow
<1>4. EndIsTold'
  BY KillSent DEF NeverReported, EndIsTold, EndsInStep, Interrupt, seen
<1>5. FinishKills'
  BY DEF FinishKills, Interrupt, flow, seen
<1>6. QED
  BY <1>1, <1>2, <1>3, <1>4, <1>5

LEMMA ClientSeesCloseKeeps ==
  ASSUME Types, FlowInv, ClientSeesClose
  PROVE  Types' /\ FlowInv'
<1> USE DEF FlowInv
<1>1. Types'
  BY DEF Types, Code, ClientSeesClose, Cleanup, Client, wire, flow, seen
<1>2. EndsInStep'
  BY InboxStays DEF InboxOK, EndsInStep, ClientSeesClose, Cleanup, wire
<1>3. OutboxBound'
  BY DEF OutboxBound, ClientSeesClose, wire, flow
<1>4. EndIsTold'
  BY InboxStays
  DEF NeverReported, EndIsTold, ClientSeesClose, Cleanup, None, wire, seen
<1>5. FinishKills'
  BY DEF FinishKills, ClientSeesClose, flow, seen
<1>6. QED
  BY <1>1, <1>2, <1>3, <1>4, <1>5

LEMMA CutKeeps ==
  ASSUME Types, FlowInv, Cut
  PROVE  Types' /\ FlowInv'
<1> USE DEF FlowInv
<1>1. Types'
  BY DEF Types, Cut, script, flow, seen
<1>2. EndsInStep'
  BY InboxStays DEF InboxOK, EndsInStep, Cut, script, seen
<1>3. OutboxBound'
  BY DEF OutboxBound, Cut, flow
<1>4. EndIsTold'
  BY InboxStays DEF NeverReported, EndIsTold, Cut, script, seen
<1>5. FinishKills'
  BY DEF FinishKills, Cut, flow, seen
<1>6. QED
  BY <1>1, <1>2, <1>3, <1>4, <1>5

-----------------------------------------------------------------------------
(* The invariant                                                           *)

LEMMA InitHolds ==
  ASSUME Init
  PROVE  Types /\ FlowInv
<1>1. /\ conn \in [Conn -> Conns]
      /\ conn[c].stage = "unused" /\ ~conn[c].exited
  BY Constants DEF Init, GatewayInit, Conns, Stage
<1>2. out \in Seq(Frame) /\ Len(out) = 0 /\ DOMAIN out = {}
  BY EmptySeq DEF Init
<1>3. Types
  <2>1. /\ client \in Client /\ code \in Code \cup {None} /\ report \in Code \cup {None}
        /\ ws \in {None, "open", "closing", "closed"}
        /\ {line, paused, timer, killed, late} \subseteq BOOLEAN
    BY DEF Init, Client
  <2>2. written \in 0..MaxOutput
    BY Constants DEF Init
  <2>3. QED
    BY <1>1, <1>2, <2>1, <2>2 DEF Types
<1>4. EndsInStep
  BY <1>1 DEF Init, EndsInStep, InboxOK, StartComes, None
<1>5. OutboxBound
  BY <1>1, <1>2 DEF Init, OutboxBound, None
<1>6. EndIsTold
  BY <1>1, <1>2 DEF Init, EndIsTold, None
<1>7. FinishKills
  BY <1>1 DEF FinishKills
<1>8. QED
  BY <1>3, <1>4, <1>5, <1>6, <1>7 DEF FlowInv

LEMMA StutterKeeps ==
  ASSUME Types, FlowInv, UNCHANGED fvars
  PROVE  Types' /\ FlowInv'
<1>1. UNCHANGED <<conn, client, code, inbox, out, ws, line, paused, timer, killed,
                  written, report, late>>
  BY DEF fvars
<1>2. StartComes' = StartComes
  BY <1>1, InboxStays
<1>3. Types' /\ OutboxBound' /\ FinishKills'
  BY <1>1 DEF FlowInv, Types, OutboxBound, FinishKills
<1>4. EndsInStep' /\ EndIsTold'
  BY <1>1, <1>2 DEF FlowInv, EndsInStep, InboxOK, EndIsTold, NeverReported
<1>5. QED
  BY <1>3, <1>4 DEF FlowInv

LEMMA TypesFollow ==
  ASSUME TypeOK
  PROVE  Types
BY DEF TypeOK, Types

LEMMA NextKeeps ==
  ASSUME TypeOK, FlowInv, [Next]_fvars
  PROVE  TypeOK' /\ FlowInv'
<1>1. Types
  BY TypesFollow
<1>2. ASSUME Gateway
      PROVE  Types' /\ FlowInv'
  BY <1>1, <1>2, OnStartKeeps, OnStartRejectedKeeps, OnKillKeeps, SpawnPtyKeeps,
     SpawnThrowsKeeps, OnDataKeeps, DrainKeeps, ClosesKeeps, CloseGivesUpKeeps,
     OnExitKeeps
  DEF Gateway
<1>3. ASSUME Script
      PROVE  Types' /\ FlowInv'
  BY <1>1, <1>3, RequestKeeps, RequestThrowsKeeps, ConnectKeeps,
     ClientReadsKeeps,
     InterruptKeeps, ClientSeesCloseKeeps
  DEF Script
<1>4. Types' /\ FlowInv'
  BY <1>1, <1>2, <1>3, CutKeeps, StutterKeeps DEF Next
<1>5. Types' /\ EndsInStep' /\ OutboxBound' => TypeOK'
  BY TypesSuffice, PTL
<1>6. QED
  BY <1>4, <1>5 DEF FlowInv

(* What the frames on their way, the socket and the process say of each    *)
(* other, at any time.                                                     *)
THEOREM FlowInvariant == Spec => [](TypeOK /\ FlowInv)
<1>1. Init => TypeOK /\ FlowInv
  BY InitHolds, TypesSuffice DEF FlowInv
<1>2. TypeOK /\ FlowInv /\ [Next]_fvars => (TypeOK /\ FlowInv)'
  BY NextKeeps
<1>3. QED
  BY <1>1, <1>2, PTL DEF Spec

(* The types and the bounds of both queues: the gateway never has more     *)
(* frames on their way than the PTY wrote, `ready` and the one that ends.  *)
THEOREM Typing == Spec => []TypeOK
BY FlowInvariant, PTL

(* gateway.ts:93-95,180-184: the script exits with the code the service    *)
(* recorded, unless frames were lost or the user interrupted it.           *)
THEOREM SameEnd == Spec => []EndsAgree
<1>1. TypeOK /\ FlowInv => EndsAgree
  BY DEF FlowInv, EndIsTold, NeverReported, EndsAgree
<1>2. QED
  BY <1>1, FlowInvariant, PTL

(* gateway.ts:207: a PTY whose socket has closed was killed, unless it was *)
(* spawned after.                                                          *)
THEOREM NoOrphan == Spec => []PtyNeedsSocket
<1>1. TypeOK /\ FlowInv => PtyNeedsSocket
  BY DEF FlowInv, EndsInStep, FinishKills, PtyNeedsSocket
<1>2. QED
  BY <1>1, FlowInvariant, PTL

=============================================================================
