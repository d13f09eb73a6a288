----------------------- MODULE SessionLifecycle_proofs -----------------------
(***************************************************************************)
(* For any set of connections and of callbacks, and for both providers: the *)
(* documents keep their types, a session in IN_FLIGHT is served or was left *)
(* open in one of the known ways, neither document goes back to PREFLIGHT,  *)
(* and the whole implements SessionRecord.                                  *)
(***************************************************************************)
EXTENDS SessionLifecycle, TLAPS

\* Handlers run only once create_session is done, and then both documents exist.
CreatedFirst ==
  /\ \A h \in Handlers : pc[h] # "idle" => creator = "done"
  /\ creator = "done" => session \in Session /\ log \in Log
  /\ creator # "done" => log = NoLog
  /\ creator \in {"start", "refused"} => session = NoSession
  /\ creator \in {"logging", "failed"} => session \in Session

\* What a handler is about to write is the outcome of a call.
GoalsAreOutcomes ==
  /\ \A p \in Pipelines : pc[p] \in Closing \cup {"end_log"} => mem[p].goal \in Outcomes
  /\ \A c \in Callbacks :
       pc[c] \in {"report_session", "report_log"} => mem[c].goal \in Outcomes

\* A snapshot that is still to be used was read from an existing session.
Snapshots ==
  /\ \A p \in Pipelines :
       pc[p] \in {"read_config", "setup_write", "artifacts", "artifacts_merge"}
         => mem[p].snap \in Session
  /\ \A c \in Callbacks : pc[c] = "report_session" => mem[c].snap \in Session

\* A connection past its decision to consume, or not to, has seen the session
\* leave PREFLIGHT, and so has every snapshot that ends up in the log.
LeftPreflight ==
  \A p \in Pipelines :
    /\ pc[p] \in Serving \cup Ending => session.state # "preflight"
    /\ pc[p] = "read_config" /\ mem[p].snap.state # "preflight"
         => session.state # "preflight"
    /\ pc[p] \in {"artifacts", "artifacts_merge"} => mem[p].snap.state # "preflight"

IInv ==
  /\ TypeOK
  /\ CreatedFirst
  /\ GoalsAreOutcomes
  /\ Snapshots
  /\ LeftPreflight
  /\ OpenSessionIsServed

LEMMA Reported ==
  ASSUME NEW r \in Reports, NEW s \in States
  PROVE  ReportedState(r, s) \in Outcomes \cup {s}
BY DEF Reports, ReportedState, HangupState, StatusState, CauseState, Outcomes

\* Assigning one local of a handler keeps its locals typed.
LEMMA LocalsKept ==
  ASSUME mem \in [Handlers -> Locals], NEW h \in Handlers
  PROVE  /\ \A s \in States \cup {"none"} :
              [mem EXCEPT ![h].goal = s] \in [Handlers -> Locals]
         /\ \A a \in SUBSET Artifacts :
              [mem EXCEPT ![h].content = a] \in [Handlers -> Locals]
         /\ \A l \in Locals : [mem EXCEPT ![h] = l] \in [Handlers -> Locals]
BY DEF Locals

LEMMA Inductive == IInv /\ [Next]_vars => IInv'
<1> SUFFICES ASSUME IInv, [Next]_vars PROVE IInv'
  OBVIOUS
<1> USE HandlersAssumption DEF IInv, TypeOK, CreatedFirst, GoalsAreOutcomes, Snapshots, LeftPreflight,
      OpenSessionIsServed, Excused, Handlers, Session, Log, Locals, NoSession, NoLog,
      Fresh, Go, Read, Forget, Decide, ReadLog, Serving, Starting, Closing, Ending, Consuming,
      PipelinePoints, CallbackPoints, Rest, States, Outcomes
<1>1. CASE RefuseSession
  BY <1>1 DEF RefuseSession
<1>2. CASE InsertSession
  BY <1>2 DEF InsertSession
<1>3. CASE SaveFirstLog
  <2>1. TypeOK'
    BY <1>3 DEF SaveFirstLog, Artifacts, Durations
  <2>2. CreatedFirst'
    BY <1>3 DEF SaveFirstLog, Artifacts, Durations
  <2>3. GoalsAreOutcomes'
    BY <1>3 DEF SaveFirstLog
  <2>4. Snapshots'
    BY <1>3 DEF SaveFirstLog
  <2>5. LeftPreflight'
    BY <1>3 DEF SaveFirstLog
  <2>6. OpenSessionIsServed'
    BY <1>3 DEF SaveFirstLog
  <2> QED
    BY <2>1, <2>2, <2>3, <2>4, <2>5, <2>6 DEF IInv
<1>4. CASE FailFirstLog
  BY <1>4 DEF FailFirstLog
<1>5. CASE BeginTransfer
  <2>1. TypeOK'
    BY <1>5 DEF BeginTransfer, MetaKeys
  <2>2. CreatedFirst'
    BY <1>5 DEF BeginTransfer, MetaKeys
  <2>3. GoalsAreOutcomes'
    BY <1>5 DEF BeginTransfer
  <2>4. Snapshots'
    BY <1>5 DEF BeginTransfer
  <2>5. LeftPreflight'
    BY <1>5 DEF BeginTransfer
  <2>6. OpenSessionIsServed'
    BY <1>5 DEF BeginTransfer
  <2> QED
    BY <2>1, <2>2, <2>3, <2>4, <2>5, <2>6 DEF IInv
<1>6. CASE ClearTransfer
  BY <1>6 DEF ClearTransfer
<1>7. ASSUME NEW p \in Pipelines, Connect(p) PROVE IInv'
  BY <1>7 DEF Connect
<1>8. ASSUME NEW p \in Pipelines, TakeConfig(p) PROVE IInv'
  <2>1. TypeOK'
    <3>1. mem' \in [Handlers -> Locals]
      BY <1>8 DEF TakeConfig
    <3>2. CASE Go(p, "read_config", "consume")
      BY <1>8, <3>1, <3>2 DEF TakeConfig
    <3>3. CASE Go(p, "read_config", "setup")
      BY <1>8, <3>1, <3>3 DEF TakeConfig
    <3> QED
      BY <1>8, <3>2, <3>3 DEF TakeConfig
  <2>2. CreatedFirst'
    BY <1>8 DEF TakeConfig
  <2>3. GoalsAreOutcomes'
    BY <1>8 DEF TakeConfig
  <2>4. Snapshots'
    BY <1>8 DEF TakeConfig
  <2>5. LeftPreflight'
    BY <1>8 DEF TakeConfig
  <2>6. OpenSessionIsServed'
    BY <1>8 DEF TakeConfig
  <2> QED
    BY <2>1, <2>2, <2>3, <2>4, <2>5, <2>6 DEF IInv
<1>9. ASSUME NEW p \in Pipelines, RefuseConfig(p) PROVE IInv'
  BY <1>9 DEF RefuseConfig
<1>10. ASSUME NEW p \in Pipelines, ConsumeSession(p) PROVE IInv'
  BY <1>10, SMTT(30) DEF ConsumeSession
<1>11. ASSUME NEW p \in Pipelines, ConsumeReadLog(p) PROVE IInv'
  <2>1. TypeOK'
    <3>1. log.content \in SUBSET Artifacts
      BY <1>11 DEF ConsumeReadLog
    <3>2. mem' \in [Handlers -> Locals]
      BY ONLY <1>11, <3>1, LocalsKept, p \in Handlers, mem \in [Handlers -> Locals] DEF ConsumeReadLog, ReadLog
    <3> QED
      BY <1>11, <3>2, SMTT(30) DEF ConsumeReadLog
  <2>2. CreatedFirst'
    BY <1>11 DEF ConsumeReadLog
  <2>3. GoalsAreOutcomes'
    BY <1>11 DEF ConsumeReadLog
  <2>4. Snapshots'
    BY <1>11 DEF ConsumeReadLog
  <2>5. LeftPreflight'
    BY <1>11 DEF ConsumeReadLog
  <2>6. OpenSessionIsServed'
    BY <1>11 DEF ConsumeReadLog
  <2> QED
    BY <2>1, <2>2, <2>3, <2>4, <2>5, <2>6 DEF IInv
<1>12. ASSUME NEW p \in Pipelines, ConsumeWriteLog(p) PROVE IInv'
  <2>1. TypeOK'
    BY <1>12 DEF ConsumeWriteLog, Artifacts
  <2>2. CreatedFirst'
    BY <1>12 DEF ConsumeWriteLog, Artifacts
  <2>3. GoalsAreOutcomes'
    BY <1>12 DEF ConsumeWriteLog
  <2>4. Snapshots'
    BY <1>12 DEF ConsumeWriteLog
  <2>5. LeftPreflight'
    BY <1>12 DEF ConsumeWriteLog
  <2>6. OpenSessionIsServed'
    BY <1>12 DEF ConsumeWriteLog
  <2> QED
    BY <2>1, <2>2, <2>3, <2>4, <2>5, <2>6 DEF IInv
<1>13. ASSUME NEW p \in Pipelines, SetupRead(p) PROVE IInv'
  <2>1. TypeOK'
    <3>1. mem' = [mem EXCEPT ![p].snap = session] /\ session \in Session
      BY <1>13 DEF SetupRead
    <3>2. mem' \in [Handlers -> Locals]
      BY <3>1
    <3> QED
      BY <1>13, <3>2 DEF SetupRead
  <2>2. CreatedFirst'
    BY <1>13 DEF SetupRead
  <2>3. GoalsAreOutcomes'
    BY <1>13 DEF SetupRead
  <2>4. Snapshots'
    BY <1>13 DEF SetupRead
  <2>5. LeftPreflight'
    BY <1>13 DEF SetupRead
  <2>6. OpenSessionIsServed'
    BY <1>13 DEF SetupRead
  <2> QED
    BY <2>1, <2>2, <2>3, <2>4, <2>5, <2>6 DEF IInv
<1>14. ASSUME NEW p \in Pipelines, SetupWrite(p) PROVE IInv'
  <2>1. TypeOK'
    BY <1>14 DEF SetupWrite, MetaKeys
  <2>2. CreatedFirst'
    BY <1>14 DEF SetupWrite, MetaKeys
  <2>3. GoalsAreOutcomes'
    BY <1>14 DEF SetupWrite
  <2>4. Snapshots'
    BY <1>14 DEF SetupWrite
  <2>5. LeftPreflight'
    BY <1>14 DEF SetupWrite
  <2>6. OpenSessionIsServed'
    BY <1>14 DEF SetupWrite
  <2> QED
    BY <2>1, <2>2, <2>3, <2>4, <2>5, <2>6 DEF IInv
<1>15. ASSUME NEW p \in Pipelines, Start(p) PROVE IInv'
  BY <1>15 DEF Start
<1>16. ASSUME NEW p \in Pipelines, AbortSetup(p) PROVE IInv'
  BY <1>16 DEF AbortSetup
<1>17. ASSUME NEW p \in Pipelines, FinishRun(p) PROVE IInv'
  <2>1. TypeOK'
    <3>1. PICK h \in {"normal", "cancelled"}, s \in {"completed", "voicemail"} : Decide(p, h, s)
      BY <1>17 DEF FinishRun
    <3>2. mem' \in [Handlers -> Locals]
      <4>1. mem' = [mem EXCEPT ![p].goal = s]
        BY <3>1
      <4> QED
        BY <4>1, LocalsKept
    <3>3. how' \in [Pipelines -> {"none", "normal", "cancelled", "error", "transferred", "unended"}]
      BY <3>1
    <3> QED
      BY <1>17, <3>2, <3>3, SMTT(30) DEF FinishRun
  <2>2. CreatedFirst'
    BY <1>17 DEF FinishRun
  <2>3. GoalsAreOutcomes'
    BY <1>17 DEF FinishRun
  <2>4. Snapshots'
    BY <1>17 DEF FinishRun
  <2>5. LeftPreflight'
    BY <1>17 DEF FinishRun
  <2>6. OpenSessionIsServed'
    BY <1>17 DEF FinishRun
  <2> QED
    BY <2>1, <2>2, <2>3, <2>4, <2>5, <2>6 DEF IInv
<1>18. ASSUME NEW p \in Pipelines, FailRun(p) PROVE IInv'
  <2>1. TypeOK'
    <3>1. mem' \in [Handlers -> Locals]
      BY <1>18, LocalsKept DEF FailRun
    <3> QED
      BY <1>18, <3>1, ZenonT(60) DEF FailRun
  <2>2. CreatedFirst'
    BY <1>18 DEF FailRun
  <2>3. GoalsAreOutcomes'
    BY <1>18 DEF FailRun
  <2>4. Snapshots'
    BY <1>18 DEF FailRun
  <2>5. LeftPreflight'
    BY <1>18 DEF FailRun
  <2>6. OpenSessionIsServed'
    BY <1>18 DEF FailRun
  <2> QED
    BY <2>1, <2>2, <2>3, <2>4, <2>5, <2>6 DEF IInv
<1>19. ASSUME NEW p \in Pipelines, CheckTransfer(p) PROVE IInv'
  <2>1. TypeOK'
    <3>1. PICK to \in {"final_read", "end_session"} : pc' = [pc EXCEPT ![p] = to]
      BY <1>19 DEF CheckTransfer
    <3>2. pc' \in [Handlers -> PipelinePoints \cup CallbackPoints]
      BY <3>1
    <3>3. (\A q \in Pipelines : pc'[q] \in PipelinePoints)
          /\ (\A c \in Callbacks : pc'[c] \in CallbackPoints)
      BY <3>1
    <3>4. how' \in [Pipelines -> {"none", "normal", "cancelled", "error", "transferred", "unended"}]
      BY <1>19 DEF CheckTransfer
    <3> QED
      BY <1>19, <3>2, <3>3, <3>4 DEF CheckTransfer
  <2>2. CreatedFirst'
    BY <1>19 DEF CheckTransfer
  <2>3. GoalsAreOutcomes'
    BY <1>19 DEF CheckTransfer
  <2>4. Snapshots'
    BY <1>19 DEF CheckTransfer
  <2>5. LeftPreflight'
    BY <1>19 DEF CheckTransfer
  <2>6. OpenSessionIsServed'
    BY <1>19 DEF CheckTransfer
  <2> QED
    BY <2>1, <2>2, <2>3, <2>4, <2>5, <2>6 DEF IInv
<1>20. ASSUME NEW p \in Pipelines, EndSession(p) PROVE IInv'
  <2>1. TypeOK'
    BY <1>20 DEF EndSession
  <2>2. CreatedFirst'
    BY <1>20 DEF EndSession
  <2>3. GoalsAreOutcomes'
    BY <1>20 DEF EndSession
  <2>4. Snapshots'
    BY <1>20 DEF EndSession
  <2>5. LeftPreflight'
    BY <1>20 DEF EndSession
  <2>6. OpenSessionIsServed'
    BY <1>20 DEF EndSession
  <2> QED
    BY <2>1, <2>2, <2>3, <2>4, <2>5, <2>6 DEF IInv
<1>21. ASSUME NEW p \in Pipelines, EndLog(p) PROVE IInv'
  BY <1>21, SMTT(30) DEF EndLog
<1>22. ASSUME NEW p \in Pipelines, FailEnd(p) PROVE IInv'
  <2> DEFINE Again == /\ pc' = [pc EXCEPT ![p] = "end_session"]
                     /\ Decide(p, "error", "error")
             GiveUp == /\ pc' = [pc EXCEPT ![p] = "final_read"]
                       /\ Decide(p, "unended", "none")
  <2>0. Again \/ GiveUp
    BY <1>22 DEF FailEnd
  <2>1. TypeOK'
    <3>1. mem' \in [Handlers -> Locals]
      <4>1. PICK s \in States \cup {"none"} : mem' = [mem EXCEPT ![p].goal = s]
        BY <2>0
      <4> QED
        BY <4>1, LocalsKept
    <3>2. how' \in [Pipelines -> {"none", "normal", "cancelled", "error", "transferred", "unended"}]
      BY <2>0, SMTT(30)
    <3>3. pc' \in [Handlers -> PipelinePoints \cup CallbackPoints]
      BY <2>0
    <3>4. \A q \in Pipelines : pc'[q] \in PipelinePoints
      BY <2>0
    <3>5. \A c \in Callbacks : pc'[c] \in CallbackPoints
      BY <2>0
    <3> QED
      BY <1>22, <3>1, <3>2, <3>3, <3>4, <3>5 DEF FailEnd
  <2>2. CreatedFirst'
    BY <1>22 DEF FailEnd
  <2>3. GoalsAreOutcomes'
    <3>1. CASE Again
      BY <1>22, <3>1 DEF FailEnd
    <3>2. CASE GiveUp
      BY <1>22, <3>2 DEF FailEnd
    <3> QED
      BY <2>0, <3>1, <3>2
  <2>4. Snapshots'
    <3>1. CASE Again
      BY <1>22, <3>1 DEF FailEnd
    <3>2. CASE GiveUp
      BY <1>22, <3>2 DEF FailEnd
    <3> QED
      BY <2>0, <3>1, <3>2
  <2>5. LeftPreflight'
    BY <1>22 DEF FailEnd
  <2>6. OpenSessionIsServed'
    BY <1>22 DEF FailEnd
  <2> QED
    BY <2>1, <2>2, <2>3, <2>4, <2>5, <2>6 DEF IInv
<1>23. ASSUME NEW p \in Pipelines, FinalRead(p) PROVE IInv'
  BY <1>23 DEF FinalRead
<1>24. ASSUME NEW p \in Pipelines, ArtifactsReadLog(p) PROVE IInv'
  BY <1>24 DEF ArtifactsReadLog
<1>25. ASSUME NEW p \in Pipelines, ArtifactsWriteLog(p) PROVE IInv'
  <2>1. TypeOK'
    BY <1>25 DEF ArtifactsWriteLog, Artifacts, Durations, FinalDuration
  <2>2. CreatedFirst'
    BY <1>25 DEF ArtifactsWriteLog, Artifacts, Durations, FinalDuration
  <2>3. GoalsAreOutcomes'
    BY <1>25 DEF ArtifactsWriteLog
  <2>4. Snapshots'
    BY <1>25 DEF ArtifactsWriteLog
  <2>5. LeftPreflight'
    BY <1>25 DEF ArtifactsWriteLog
  <2>6. OpenSessionIsServed'
    BY <1>25 DEF ArtifactsWriteLog
  <2> QED
    BY <2>1, <2>2, <2>3, <2>4, <2>5, <2>6 DEF IInv
<1>26. ASSUME NEW p \in Pipelines, FailArtifacts(p) PROVE IInv'
  BY <1>26 DEF FailArtifacts
<1>27. ASSUME NEW c \in Callbacks, Deliver(c) PROVE IInv'
  <2> DEFINE New(r) == ReportedState(r, session.state)
             Store(r) == /\ New(r) # session.state
                         /\ pc' = [pc EXCEPT ![c] = "report_session"]
                         /\ mem' = [mem EXCEPT ![c] = [Fresh EXCEPT !.snap = session,
                                                                   !.goal = New(r)]]
             Drop == pc' = [pc EXCEPT ![c] = "done"] /\ UNCHANGED mem
  <2>0. PICK r \in Reports : timed' = [timed EXCEPT ![c] = ReportsDuration(r)] /\ (Store(r) \/ Drop)
    BY <1>27 DEF Deliver
  <2>a. session \in Session /\ log \in Log
    BY <1>27 DEF Deliver
  <2>b. Store(r) => New(r) \in Outcomes
    BY <2>a, Reported
  <2>c. ReportsDuration(r) \in BOOLEAN
    BY DEF ReportsDuration, Reports
  <2> HIDE DEF New
  <2>1. TypeOK'
    <3>1. timed' \in [Callbacks -> BOOLEAN]
      BY <2>0, <2>c
    <3>2. mem' \in [Handlers -> Locals]
      <4>1. CASE Store(r)
        <5>1. [Fresh EXCEPT !.snap = session, !.goal = New(r)] \in Locals
          BY <2>a, <2>b, <4>1
        <5> QED
          BY <4>1, <5>1, LocalsKept
      <4> QED
        BY <2>0, <4>1
    <3>3. CASE Store(r)
      BY <1>27, <3>1, <3>2, <3>3 DEF Deliver
    <3>4. CASE Drop
      BY <1>27, <3>1, <3>2, <3>4 DEF Deliver
    <3> QED
      BY <2>0, <3>3, <3>4
  <2>2. CreatedFirst'
    BY <1>27, Reported DEF Deliver
  <2>3. GoalsAreOutcomes'
    <3>1. CASE Store(r)
      BY <1>27, <2>b, <3>1 DEF Deliver
    <3>2. CASE Drop
      BY <1>27, <3>2 DEF Deliver
    <3> QED
      BY <2>0, <3>1, <3>2
  <2>4. Snapshots'
    <3>1. CASE Store(r)
      BY <1>27, <2>a, <3>1 DEF Deliver
    <3>2. CASE Drop
      BY <1>27, <3>2 DEF Deliver
    <3> QED
      BY <2>0, <3>1, <3>2
  <2>5. LeftPreflight'
    BY <1>27, Reported DEF Deliver
  <2>6. OpenSessionIsServed'
    BY <1>27, Reported DEF Deliver
  <2> QED
    BY <2>1, <2>2, <2>3, <2>4, <2>5, <2>6 DEF IInv
<1>28. ASSUME NEW c \in Callbacks, StoreReport(c) PROVE IInv'
  <2>1. TypeOK'
    BY <1>28, Reported DEF StoreReport, CallKeys, MetaKeys
  <2>2. CreatedFirst'
    BY <1>28, Reported DEF StoreReport, CallKeys, MetaKeys
  <2>3. GoalsAreOutcomes'
    BY <1>28, Reported DEF StoreReport
  <2>4. Snapshots'
    BY <1>28, Reported DEF StoreReport
  <2>5. LeftPreflight'
    BY <1>28, Reported DEF StoreReport
  <2>6. OpenSessionIsServed'
    BY <1>28, Reported DEF StoreReport
  <2> QED
    BY <2>1, <2>2, <2>3, <2>4, <2>5, <2>6 DEF IInv
<1>29. ASSUME NEW c \in Callbacks, StoreReportInLog(c) PROVE IInv'
  <2>1. TypeOK'
    BY <1>29, Reported, ZenonT(60) DEF StoreReportInLog, Durations
  <2>2. CreatedFirst'
    BY <1>29, Reported DEF StoreReportInLog, Durations
  <2>3. GoalsAreOutcomes'
    BY <1>29, Reported DEF StoreReportInLog
  <2>4. Snapshots'
    BY <1>29, Reported DEF StoreReportInLog
  <2>5. LeftPreflight'
    BY <1>29, Reported DEF StoreReportInLog
  <2>6. OpenSessionIsServed'
    BY <1>29, Reported DEF StoreReportInLog
  <2> QED
    BY <2>1, <2>2, <2>3, <2>4, <2>5, <2>6 DEF IInv
<1>30. ASSUME NEW h \in Handlers, Crash(h) PROVE IInv'
  BY <1>30 DEF Crash
<1>31. CASE UNCHANGED vars
  BY <1>31 DEF vars
<1>32. QED
  BY <1>1, <1>2, <1>3, <1>4, <1>5, <1>6, <1>7, <1>8, <1>9, <1>10, <1>11, <1>12, <1>13, <1>14, <1>15, <1>16, <1>17, <1>18, <1>19, <1>20, <1>21, <1>22, <1>23, <1>24, <1>25, <1>26, <1>27, <1>28, <1>29, <1>30, <1>31 DEF Next, Create, Serve, Close, Callback

LEMMA Initially == Init => IInv
BY HandlersAssumption DEF Init, IInv, TypeOK, CreatedFirst, GoalsAreOutcomes, Snapshots,
   LeftPreflight, OpenSessionIsServed, Handlers, Session, Log, Locals, NoSession, NoLog, Fresh,
   PipelinePoints, CallbackPoints, Rest, Serving, Starting, Closing, Ending, Consuming, States

LEMMA Always == Spec => []IInv
BY Initially, Inductive, PTL DEF Spec

\* Every document and every local of a handler keeps its type, for any set of
\* connections and callbacks (run SessionPlivo checks it on a small one).
THEOREM TypeCorrect == Spec => []TypeOK
<1>1. IInv => TypeOK
  BY DEF IInv
<1> QED
  BY <1>1, Always, PTL

\* A session shown as IN_FLIGHT is being served, or a connection left it open by
\* failing or for a warm transfer: no order of late callbacks, second
\* connections, errors and crashes strands it otherwise.
THEOREM ServedWhileOpen == Spec => []OpenSessionIsServed
<1>1. IInv => OpenSessionIsServed
  BY DEF IInv
<1> QED
  BY <1>1, Always, PTL

-----------------------------------------------------------------------------
(* No way back to PREFLIGHT.                                                *)

LEMMA StepLeavesPreflight ==
  ASSUME IInv, Next
  PROVE  /\ session.state \in States \ {"preflight"} => session'.state # "preflight"
         /\ log.state \in States \ {"preflight"} => log'.state # "preflight"
<1> USE DEF IInv, CreatedFirst, Go, Session, Log, NoSession, NoLog, States, Outcomes
<1>1. CASE Create
  BY <1>1 DEF Create, RefuseSession, InsertSession, SaveFirstLog, FailFirstLog
<1>2. CASE \E p \in Pipelines : Connect(p) \/ Serve(p) \/ FinishRun(p) \/ FailRun(p)
  <2>1. PICK p \in Pipelines : Connect(p) \/ Serve(p) \/ FinishRun(p) \/ FailRun(p)
    BY <1>2
  <2>2. creator = "done"
    BY <2>1 DEF Connect, Serve, TakeConfig, RefuseConfig, ConsumeSession, ConsumeReadLog, ReadLog,
       ConsumeWriteLog, SetupRead, SetupWrite, Start, AbortSetup, FinishRun, FailRun, Starting,
       Handlers
  <2> QED
    BY <2>1, <2>2 DEF Connect, Serve, TakeConfig, RefuseConfig, ConsumeSession, ConsumeReadLog,
       ReadLog, ConsumeWriteLog, SetupRead, SetupWrite, Start, AbortSetup, FinishRun, FailRun
<1>3. ASSUME NEW p \in Pipelines, Close(p)
      PROVE  /\ session.state \in States \ {"preflight"} => session'.state # "preflight"
             /\ log.state \in States \ {"preflight"} => log'.state # "preflight"
  <2>1. /\ pc[p] \in {"end_session", "end_log"} => mem[p].goal \in Outcomes
        /\ pc[p] = "artifacts_merge" => mem[p].snap.state # "preflight"
    BY DEF GoalsAreOutcomes, LeftPreflight, Closing
  <2>2. pc[p] # "idle" => session \in Session /\ log \in Log
    BY DEF Handlers
  <2>3. CASE EndSession(p) \/ EndLog(p)
    BY <2>1, <2>2, <2>3 DEF EndSession, EndLog
  <2>4. CASE ArtifactsWriteLog(p)
    BY <2>1, <2>2, <2>4 DEF ArtifactsWriteLog
  <2>5. CASE UNCHANGED <<session, log>>
    BY <2>5
  <2> QED
    BY <1>3, <2>3, <2>4, <2>5 DEF Close, CheckTransfer, FailEnd, FinalRead,
       ArtifactsReadLog, ReadLog, FailArtifacts
<1>4. ASSUME NEW c \in Callbacks, Callback(c)
      PROVE  /\ session.state \in States \ {"preflight"} => session'.state # "preflight"
             /\ log.state \in States \ {"preflight"} => log'.state # "preflight"
  <2>1. pc[c] \in {"report_session", "report_log"} =>
          mem[c].goal \in Outcomes /\ session \in Session /\ log \in Log
    BY DEF GoalsAreOutcomes, Handlers
  <2> QED
    BY <1>4, <2>1 DEF Callback, Deliver, StoreReport, StoreReportInLog
<1>5. CASE BeginTransfer \/ ClearTransfer
  <2>1. session \in Session
    BY <1>5 DEF BeginTransfer, ClearTransfer, TypeOK, Handlers
  <2> QED
    BY <1>5, <2>1 DEF BeginTransfer, ClearTransfer
<1>6. CASE \E h \in Handlers : Crash(h)
  BY <1>6 DEF Crash
<1> QED
  BY <1>1, <1>2, <1>3, <1>4, <1>5, <1>6 DEF Next

\* Neither the session nor its log is ever put back to PREFLIGHT, although every
\* handler writes from a snapshot that may be old.
THEOREM PreflightOnce == Spec => NeverBackToPreflight
<1>1. IInv /\ [Next]_vars =>
        [/\ session.state \in States \ {"preflight"} => session'.state # "preflight"
         /\ log.state \in States \ {"preflight"} => log'.state # "preflight"]_vars
  BY StepLeavesPreflight
<1> QED
  BY <1>1, Always, PTL DEF Spec, NeverBackToPreflight

-----------------------------------------------------------------------------
(* Reports and the warm-transfer flag.                                      *)

\* Under Plivo a report leaves the transfer flag alone, whatever happened to it
\* since the handler read the session.
THEOREM PlivoReportsKeepTransfer ==
  ASSUME Provider = "plivo" PROVE Spec => ReportsKeepTransfer
<1> DEFINE Keeps == \A c \in Callbacks :
             (pc[c] = "report_session" /\ pc'[c] = "report_log")
               => ("warm" \in session.meta <=> "warm" \in session'.meta)
<1>1. IInv /\ Next => Keeps
  <2> SUFFICES ASSUME IInv, Next, NEW c \in Callbacks,
                      pc[c] = "report_session", pc'[c] = "report_log"
               PROVE  "warm" \in session.meta <=> "warm" \in session'.meta
    OBVIOUS
  <2>1. c \in Handlers /\ pc \in [Handlers -> PipelinePoints \cup CallbackPoints]
        /\ session \in Session /\ c \notin Pipelines
    BY HandlersAssumption DEF Handlers, IInv, TypeOK, CreatedFirst
  <2>2. \/ session' = session
        \/ StoreReport(c)
    <3>1. CASE Create
      BY <2>1, <3>1 DEF Create, RefuseSession, InsertSession, SaveFirstLog, FailFirstLog
    <3>2. CASE \E p \in Pipelines : Connect(p) \/ Serve(p) \/ FinishRun(p) \/ FailRun(p) \/ Close(p)
      <4>1. PICK p \in Pipelines, to \in PipelinePoints : pc' = [pc EXCEPT ![p] = to]
        BY <3>2 DEF Connect, Serve, TakeConfig, RefuseConfig, ConsumeSession, ConsumeReadLog,
           ReadLog, ConsumeWriteLog, SetupRead, SetupWrite, Start, AbortSetup, FinishRun, FailRun,
           Close, CheckTransfer, EndSession, EndLog, FailEnd, FinalRead, ArtifactsReadLog,
           ArtifactsWriteLog, FailArtifacts, Go, PipelinePoints, Rest, Consuming, Starting,
           Closing, Ending
      <4> QED
        BY <2>1, <4>1
    <3>3. CASE \E d \in Callbacks : Callback(d)
      BY <2>1, <3>3 DEF Callback, Deliver, StoreReport, StoreReportInLog, Go
    <3>4. CASE BeginTransfer \/ ClearTransfer
      BY <2>1, <3>4 DEF BeginTransfer, ClearTransfer
    <3>5. CASE \E h \in Handlers : Crash(h)
      BY <3>5 DEF Crash
    <3> QED
      BY <3>1, <3>2, <3>3, <3>4, <3>5 DEF Next
  <2>3. CASE StoreReport(c)
    <3>1. session'.meta = (session.meta \ {"call", "duration"}) \cup CallKeys(timed[c])
      BY <2>1, <2>3 DEF StoreReport, Session
    <3>2. "warm" \notin CallKeys(timed[c])
      BY DEF CallKeys
    <3> QED
      BY <3>1, <3>2
  <2> QED
    BY <2>2, <2>3
<1>2. IInv /\ [Next]_vars => [Keeps]_vars
  BY <1>1
<1> QED
  BY <1>2, Always, PTL DEF Spec, ReportsKeepTransfer

-----------------------------------------------------------------------------
(* The refinement.                                                          *)

\* A connection that has left the session open is past its decision, so it is
\* never taken off the excused ones again.
Left == {"aborted", "crashed", "done", "final_read", "artifacts", "artifacts_merge"}

ExcusedIsFinal ==
  \A p \in Pipelines : how[p] \in {"transferred", "unended"} => pc[p] \in Left

LEMMA ExcusedInductive == TypeOK /\ ExcusedIsFinal /\ [Next]_vars => ExcusedIsFinal'
<1> SUFFICES ASSUME TypeOK, ExcusedIsFinal, [Next]_vars PROVE ExcusedIsFinal'
  OBVIOUS
<1> USE HandlersAssumption DEF TypeOK, ExcusedIsFinal, Handlers, Go, Left
<1>1. CASE UNCHANGED <<pc, how>>
  BY <1>1
<1>2. ASSUME NEW p \in Pipelines, NEW to, pc' = [pc EXCEPT ![p] = to], UNCHANGED how,
             pc[p] \notin Left \/ to \in Left
      PROVE  ExcusedIsFinal'
  BY <1>2
<1>3. ASSUME NEW p \in Pipelines, FinishRun(p) \/ FailRun(p) PROVE ExcusedIsFinal'
  BY <1>3 DEF FinishRun, FailRun, Decide
<1>4. ASSUME NEW p \in Pipelines, CheckTransfer(p) PROVE ExcusedIsFinal'
  BY <1>4 DEF CheckTransfer
<1>5. ASSUME NEW p \in Pipelines, FailEnd(p) PROVE ExcusedIsFinal'
  BY <1>5 DEF FailEnd, Decide
<1>6. ASSUME NEW c \in Callbacks, Callback(c) PROVE ExcusedIsFinal'
  BY <1>6 DEF Callback, Deliver, StoreReport, StoreReportInLog
<1>7. ASSUME NEW h \in Handlers, Crash(h) PROVE ExcusedIsFinal'
  BY <1>7 DEF Crash
<1>8. ASSUME NEW p \in Pipelines, Connect(p) \/ Serve(p) PROVE ExcusedIsFinal'
  <2>1. PICK to : pc' = [pc EXCEPT ![p] = to]
    BY <1>8 DEF Connect, Serve, TakeConfig, RefuseConfig, ConsumeSession, ConsumeReadLog,
       ReadLog, ConsumeWriteLog, SetupRead, SetupWrite, Start, AbortSetup
  <2>2. pc[p] \notin Left /\ UNCHANGED how
    BY <1>8 DEF Connect, Serve, TakeConfig, RefuseConfig, ConsumeSession, ConsumeReadLog,
       ReadLog, ConsumeWriteLog, SetupRead, SetupWrite, Start, AbortSetup, Starting
  <2> QED
    BY <1>2, <2>1, <2>2
<1>9. ASSUME NEW p \in Pipelines,
             \/ EndSession(p) \/ EndLog(p) \/ FinalRead(p) \/ ArtifactsReadLog(p)
             \/ ArtifactsWriteLog(p) \/ FailArtifacts(p)
      PROVE  ExcusedIsFinal'
  <2>1. \E to : pc' = [pc EXCEPT ![p] = to] /\ (pc[p] \notin Left \/ to \in Left)
    BY <1>9 DEF EndSession, EndLog, FinalRead, ArtifactsReadLog, ReadLog, ArtifactsWriteLog,
       FailArtifacts
  <2>2. UNCHANGED how
    BY <1>9 DEF EndSession, EndLog, FinalRead, ArtifactsReadLog, ReadLog, ArtifactsWriteLog,
       FailArtifacts
  <2> QED
    BY <1>2, <2>1, <2>2
<1>10. CASE Create \/ BeginTransfer \/ ClearTransfer \/ UNCHANGED vars
  BY <1>1, <1>10 DEF Create, RefuseSession, InsertSession, SaveFirstLog, FailFirstLog,
     BeginTransfer, ClearTransfer, vars
<1> QED
  BY <1>3, <1>4, <1>5, <1>6, <1>7, <1>8, <1>9, <1>10 DEF Next, Close

\* What a step of one connection does to the sets of the abstract specification.
LEMMA Moves ==
  ASSUME NEW p \in Pipelines,
         \A q \in Pipelines \ {p} : pc'[q] = pc[q] /\ how'[q] = how[q]
  PROVE  /\ serving' = IF pc'[p] \in Serving THEN serving \cup {p} ELSE serving \ {p}
         /\ excused' = IF Excused(p)' THEN excused \cup {p} ELSE excused \ {p}
BY DEF serving, excused, Excused

LEMMA RecordInit == Init => Record!Init
BY DEF Init, Record!Init, serving, excused, Excused, NoSession, Serving, Starting, Closing, Handlers

LEMMA RecordStep ==
  ASSUME IInv, ExcusedIsFinal, ExcusedIsFinal', [Next]_vars
  PROVE  [Record!Next]_(Record!vars)
<1> USE DEF IInv, Go
<1> DEFINE Stutter == session'.state = session.state /\ serving' = serving /\ excused' = excused
<1>0. Stutter => UNCHANGED Record!vars
  BY DEF Record!vars
<1>1. CASE Create
  <2>1. UNCHANGED <<serving, excused>>
    BY <1>1 DEF Create, RefuseSession, InsertSession, SaveFirstLog, FailFirstLog, serving,
       excused, Excused
  <2>2. CASE InsertSession
    BY <2>1, <2>2 DEF InsertSession, CreatedFirst, NoSession, Record!Next, Record!Create
  <2>3. CASE ~InsertSession
    BY <1>0, <1>1, <2>1, <2>3 DEF Create, RefuseSession, SaveFirstLog, FailFirstLog
  <2> QED
    BY <2>2, <2>3
<1>2. ASSUME NEW p \in Pipelines, Connect(p) \/ Serve(p) \/ FinishRun(p) \/ FailRun(p) \/ Close(p)
      PROVE  [Record!Next]_(Record!vars)
  <2> USE DEF Serving, Starting, Closing
  <2>1. /\ pc \in [Handlers -> PipelinePoints \cup CallbackPoints] /\ p \in Handlers
        /\ how \in [Pipelines -> {"none", "normal", "cancelled", "error", "transferred", "unended"}]
    BY DEF TypeOK, Handlers
  <2>2. creator = "done" /\ session \in Session
    BY <1>2, <2>1 DEF Connect, Serve, TakeConfig, RefuseConfig, ConsumeSession, ConsumeReadLog,
       ReadLog, ConsumeWriteLog, SetupRead, SetupWrite, Start, AbortSetup, FinishRun, FailRun,
       Close, CheckTransfer, EndSession, EndLog, FailEnd, FinalRead, ArtifactsReadLog,
       ArtifactsWriteLog, FailArtifacts, CreatedFirst
  <2>3. session.state # "absent"
    BY <2>2 DEF Session, States, Outcomes
  <2>4. /\ serving' = IF pc'[p] \in Serving THEN serving \cup {p} ELSE serving \ {p}
        /\ excused' = IF Excused(p)' THEN excused \cup {p} ELSE excused \ {p}
    <3>1. \A q \in Pipelines \ {p} : pc'[q] = pc[q] /\ how'[q] = how[q]
      BY <1>2, <2>1 DEF Connect, Serve, TakeConfig, RefuseConfig, ConsumeSession, ConsumeReadLog,
         ReadLog, ConsumeWriteLog, SetupRead, SetupWrite, Start, AbortSetup, FinishRun, FailRun,
         Close, CheckTransfer, EndSession, EndLog, FailEnd, FinalRead, ArtifactsReadLog,
         ArtifactsWriteLog, FailArtifacts, Decide, Handlers
    <3> QED
      BY <3>1, Moves
  <2>5. /\ p \in serving <=> pc[p] \in Serving
        /\ p \in excused <=> Excused(p)
    BY DEF serving, excused
  <2>18. ASSUME how'[p] = how[p], {pc[p], pc'[p]} \cap {"aborted", "crashed"} = {}
         PROVE  excused' = excused
    BY <2>4, <2>5, <2>18 DEF Excused
  <2>6. CASE Connect(p)
    <3>1. pc[p] = "idle" /\ pc'[p] = "read_config" /\ UNCHANGED <<session, how>>
      BY <2>1, <2>6 DEF Connect
    <3>2. excused' = excused /\ serving' = serving \ {p}
      BY <2>4, <2>18, <3>1
    <3> QED
      BY <1>0, <3>1, <3>2 DEF serving
  <2>7. CASE TakeConfig(p)
    <3>1. pc[p] = "read_config" /\ pc'[p] \in {"consume", "setup"} /\ UNCHANGED <<session, how>>
      BY <2>1, <2>7 DEF TakeConfig
    <3>2. excused' = excused /\ (serving' = serving \cup {p} \/ serving' = serving \ {p})
      BY <2>4, <2>18, <3>1
    <3> QED
      BY <1>0, <2>3, <3>1, <3>2 DEF serving, Record!Next, Record!Join
  <2>8. CASE RefuseConfig(p)
    <3>1. pc[p] = "read_config" /\ pc'[p] = "refused" /\ UNCHANGED <<session, how>>
      BY <2>1, <2>8 DEF RefuseConfig
    <3>2. excused' = excused /\ serving' = serving \ {p}
      BY <2>4, <2>18, <3>1
    <3> QED
      BY <1>0, <3>1, <3>2 DEF serving
  <2>9. CASE ConsumeSession(p)
    <3>1. pc[p] = "consume" /\ pc'[p] = "consume_log" /\ UNCHANGED how
      BY <2>1, <2>9 DEF ConsumeSession
    <3>2. excused' = excused /\ serving' = serving \cup {p}
      BY <2>4, <2>18, <3>1
    <3>3. session'.state = "in_flight"
      BY <2>2, <2>9 DEF ConsumeSession, Session
    <3> QED
      BY <2>3, <3>2, <3>3 DEF Record!Next, Record!Open
  <2>10. CASE ConsumeReadLog(p) \/ ConsumeWriteLog(p) \/ SetupRead(p) \/ Start(p)
    <3>1. /\ {pc[p], pc'[p]} \subseteq {"consume_log", "consume_merge", "running"} \cup Starting
          /\ UNCHANGED <<session, how>>
      BY <2>1, <2>10 DEF ConsumeReadLog, ReadLog, ConsumeWriteLog, SetupRead, Start
    <3>2. excused' = excused /\ serving' = serving \cup {p}
      BY <2>4, <2>18, <3>1
    <3> QED
      BY <1>0, <2>5, <3>1, <3>2
  <2>11. CASE SetupWrite(p)
    <3>1. pc[p] = "setup_write" /\ pc'[p] = "starting" /\ UNCHANGED how
      BY <2>1, <2>11 DEF SetupWrite
    <3>2. excused' = excused /\ serving' = serving \cup {p}
      BY <2>4, <2>18, <3>1
    <3>3. session'.state = session.state
      BY <2>2, <2>11 DEF SetupWrite, Session
    <3> QED
      BY <1>0, <3>1, <3>2, <3>3 DEF serving
  <2>12. CASE AbortSetup(p)
    <3>1. pc'[p] = "aborted" /\ UNCHANGED <<session, how>>
      BY <2>1, <2>12 DEF AbortSetup
    <3>2. excused' = excused \cup {p} /\ serving' = serving \ {p}
      BY <2>4, <3>1 DEF Excused
    <3> QED
      BY <3>1, <3>2 DEF Record!Next, Record!Leave
  <2>13. CASE FinishRun(p) \/ FailRun(p)
    <3>1. /\ pc[p] = "running" /\ pc'[p] \in {"check_transfer", "end_session"}
          /\ how'[p] \in {"normal", "cancelled", "error"} /\ UNCHANGED session
      BY <2>1, <2>13 DEF FinishRun, FailRun, Decide
    <3>2. ~Excused(p) /\ ~Excused(p)'
      BY <3>1 DEF Excused, ExcusedIsFinal, Left
    <3>3. excused' = excused \ {p} /\ serving' = serving \cup {p}
      BY <2>4, <3>1, <3>2
    <3> QED
      BY <1>0, <2>5, <3>1, <3>2, <3>3
  <2>14. CASE CheckTransfer(p)
    <3>1. CASE Go(p, "check_transfer", "final_read") /\ how' = [how EXCEPT ![p] = "transferred"]
      <4>1. Record!Leave(p)
        <5>1. pc'[p] = "final_read" /\ how'[p] = "transferred" /\ UNCHANGED session
          BY <2>1, <2>14, <3>1 DEF CheckTransfer
        <5> QED
          BY <2>4, <5>1 DEF Excused, Record!Leave
      <4> QED
        BY <4>1 DEF Record!Next
    <3>2. CASE Go(p, "check_transfer", "end_session") /\ UNCHANGED how
      <4>1. pc[p] = "check_transfer" /\ pc'[p] = "end_session" /\ UNCHANGED <<session, how>>
        BY <2>1, <2>14, <3>2 DEF CheckTransfer
      <4>2. excused' = excused /\ serving' = serving \cup {p}
        BY <2>4, <2>18, <4>1
      <4> QED
        BY <1>0, <4>1, <4>2 DEF serving
    <3> QED
      BY <2>14, <3>1, <3>2 DEF CheckTransfer
  <2>15. CASE EndSession(p)
    <3>1. mem[p].goal \in Outcomes /\ pc[p] = "end_session"
      BY <2>15 DEF EndSession, GoalsAreOutcomes
    <3>2. session'.state = mem[p].goal
      BY <2>2, <2>15 DEF EndSession, Session
    <3>3. Record!Close(p)
      <4>1. pc'[p] = "end_log" /\ UNCHANGED how
        BY <2>1, <2>15 DEF EndSession
      <4>2. excused' = excused /\ serving' = serving \ {p}
        BY <2>4, <2>18, <3>1, <4>1
      <4>3. p \in serving
        BY <3>1 DEF serving
      <4> QED
        BY <3>1, <3>2, <4>2, <4>3 DEF Record!Close, Outcomes, Record!Outcomes
    <3> QED
      BY <3>3 DEF Record!Next
  <2>16. CASE EndLog(p) \/ FinalRead(p) \/ ArtifactsReadLog(p) \/ ArtifactsWriteLog(p) \/ FailArtifacts(p)
    <3>1. /\ {pc[p], pc'[p]} \subseteq Ending \cup {"done"} /\ UNCHANGED <<session, how>>
      BY <2>1, <2>16 DEF EndLog, FinalRead, ArtifactsReadLog, ReadLog, ArtifactsWriteLog,
         FailArtifacts, Ending
    <3>2. excused' = excused /\ serving' = serving \ {p}
      BY <2>4, <2>18, <3>1 DEF Ending
    <3> QED
      BY <1>0, <3>1, <3>2 DEF serving, Ending
  <2>17. CASE FailEnd(p)
    <3>1. CASE pc' = [pc EXCEPT ![p] = "end_session"] /\ how[p] = "normal" /\ Decide(p, "error", "error")
      <4>1. Record!Join(p)
        <5>1. /\ pc[p] \in {"check_transfer", "end_session", "end_log", "reread"} /\ UNCHANGED session
              /\ how' = [how EXCEPT ![p] = "error"]
          BY <2>17, <3>1 DEF FailEnd, Decide
        <5>2. ~Excused(p) /\ ~Excused(p)' /\ pc'[p] = "end_session"
          BY <2>1, <3>1, <5>1 DEF Excused
        <5>3. excused' = excused /\ serving' = serving \cup {p}
          BY <2>4, <2>5, <5>2
        <5> QED
          BY <2>3, <5>1, <5>3 DEF Record!Join
      <4> QED
        BY <4>1 DEF Record!Next
    <3>2. CASE pc' = [pc EXCEPT ![p] = "final_read"] /\ Decide(p, "unended", "none")
      <4>1. Record!Leave(p)
        <5>1. pc'[p] = "final_read" /\ how'[p] = "unended" /\ UNCHANGED session
          BY <2>1, <2>17, <3>2 DEF FailEnd, Decide
        <5> QED
          BY <2>4, <5>1 DEF Excused, Record!Leave
      <4> QED
        BY <4>1 DEF Record!Next
    <3> QED
      BY <2>17, <3>1, <3>2 DEF FailEnd
  <2> QED
    BY <1>2, <2>6, <2>7, <2>8, <2>9, <2>10, <2>11, <2>12, <2>13, <2>14, <2>15, <2>16, <2>17
       DEF Serve, Close
<1>3. ASSUME NEW c \in Callbacks, Callback(c)
      PROVE  [Record!Next]_(Record!vars)
  <2>1. UNCHANGED <<serving, excused>>
    <3>1. c \notin Pipelines /\ pc \in [Handlers -> PipelinePoints \cup CallbackPoints]
      BY HandlersAssumption DEF TypeOK
    <3>2. \A p \in Pipelines : pc'[p] = pc[p] /\ how'[p] = how[p]
      BY <1>3, <3>1 DEF Callback, Deliver, StoreReport, StoreReportInLog, Handlers
    <3> QED
      BY <3>2 DEF serving, excused, Excused
  <2>2. CASE StoreReport(c)
    <3>1. session \in Session /\ mem[c].goal \in Outcomes
      BY <2>2 DEF StoreReport, CreatedFirst, GoalsAreOutcomes, Handlers
    <3>2. session.state # "absent" /\ session'.state \in Outcomes
      BY <2>2, <3>1 DEF StoreReport, Session, States, Outcomes
    <3> QED
      BY <2>1, <3>2 DEF Record!Next, Record!Report, Outcomes, Record!Outcomes
  <2>3. CASE ~StoreReport(c)
    BY <1>0, <1>3, <2>1, <2>3 DEF Callback, Deliver, StoreReportInLog
  <2> QED
    BY <2>2, <2>3
<1>4. CASE BeginTransfer \/ ClearTransfer
  <2>1. session \in Session
    BY <1>4 DEF BeginTransfer, ClearTransfer, TypeOK, Handlers, CreatedFirst, NoSession
  <2> QED
    BY <1>0, <1>4, <2>1 DEF BeginTransfer, ClearTransfer, Session, serving, excused, Excused
<1>5. ASSUME NEW h \in Handlers, Crash(h)
      PROVE  [Record!Next]_(Record!vars)
  <2>1. CASE h \in Pipelines
    <3>1. serving' = serving \ {h} /\ excused' = excused \cup {h} /\ session' = session
      BY <1>5, <2>1, Moves DEF Crash, TypeOK, Serving, Starting, Closing, Excused, Handlers
    <3> QED
      BY <2>1, <3>1 DEF Record!Next, Record!Leave
  <2>2. CASE h \notin Pipelines
    BY <1>0, <1>5, <2>2 DEF Crash, TypeOK, serving, excused, Excused, Handlers
  <2> QED
    BY <2>1, <2>2
<1>6. CASE UNCHANGED vars
  BY <1>0, <1>6 DEF vars, serving, excused, Excused
<1> QED
  BY <1>1, <1>2, <1>3, <1>4, <1>5, <1>6 DEF Next

\* The session document, seen with who serves it and who left it open, is a
\* SessionRecord: created once, opened or joined by connections, given an outcome
\* by each one that closes it and by each report.
THEOREM Implements == Spec => ImplementsRecord
<1>1. Init => ExcusedIsFinal
  BY DEF Init, ExcusedIsFinal
<1>2. IInv => TypeOK
  BY DEF IInv
<1>3. Spec => []ExcusedIsFinal
  BY <1>1, <1>2, ExcusedInductive, Always, PTL DEF Spec
<1>4. IInv /\ ExcusedIsFinal /\ ExcusedIsFinal' /\ [Next]_vars => [Record!Next]_(Record!vars)
  BY RecordStep
<1> QED
  BY <1>3, <1>4, Always, RecordInit, PTL DEF Spec, Record!Spec, ImplementsRecord
-----------------------------------------------------------------------------
(* The log of a connection that nobody disturbs.                             *)

Lone ==
  /\ \A p, q \in Pipelines : pc[p] # "idle" /\ pc[q] # "idle" => p = q
  /\ \A p \in Pipelines : pc[p] # "crashed" /\ how[p] # "unended"
  /\ \A c \in Callbacks : pc[c] = "idle"

\* Between the two writes of the session and of the log the documents differ, as they
\* do when a failed end_session begins again.
Apart == {"consume_log", "consume_merge", "end_session", "end_log"}

\* Where the log stands beside the session while p alone writes both.
LogFollows(p) ==
  /\ pc[p] \notin Apart => log.state = session.state
  /\ pc[p] \in {"consume_log", "consume_merge"} => session.state = "in_flight"
  /\ pc[p] = "end_log" => session.state = mem[p].goal
  /\ pc[p] \in {"artifacts", "artifacts_merge"} => mem[p].snap.state = session.state

LogAgrees(p) == IF pc[p] = "idle" THEN log.state = session.state ELSE LogFollows(p)

LoneInv ==
  /\ creator = "logging" => session.state = "preflight"
  /\ Lone =>
    /\ creator = "done" /\ (\A p \in Pipelines : pc[p] = "idle") => log.state = session.state
    /\ \A p \in Pipelines : pc[p] # "idle" => LogFollows(p)

\* What one connection does matters to a connection that is alone only when it is it.
LEMMA LoneStep ==
  ASSUME TypeOK, LoneInv, NEW p \in Pipelines, NEW to,
         pc' = [pc EXCEPT ![p] = to], to # "idle", pc[p] # "crashed", creator = "done", creator' = creator,
         how[p] = "unended" => how'[p] = "unended",
         \A q \in Pipelines \ {p} : how'[q] = how[q],
         LogAgrees(p) /\ how'[p] # "unended" => LogFollows(p)'
  PROVE  LoneInv'
<1> SUFFICES ASSUME Lone' PROVE LoneInv'
  BY DEF LoneInv
<1> USE HandlersAssumption DEF TypeOK, Handlers
<1>1. pc'[p] = to /\ \A h \in Handlers \ {p} : pc'[h] = pc[h]
  OBVIOUS
<1>2. \A q \in Pipelines \ {p} : pc[q] = "idle" /\ pc'[q] = "idle"
  BY <1>1 DEF Lone
<1>3. Lone
  <2>1. \A q \in Pipelines : pc[q] # "crashed" /\ how[q] # "unended"
    BY <1>2 DEF Lone
  <2>2. \A c \in Callbacks : pc[c] = "idle"
    BY <1>1 DEF Lone
  <2> QED BY <1>2, <2>1, <2>2 DEF Lone
<1>4. LogAgrees(p)
  BY <1>2, <1>3 DEF LoneInv, LogAgrees
<1>5. LogFollows(p)'
  BY <1>4 DEF Lone
<1> QED BY <1>1, <1>2, <1>5 DEF LoneInv

LEMMA LoneInductive == IInv /\ ExcusedIsFinal /\ LoneInv /\ [Next]_vars => LoneInv'
<1> SUFFICES ASSUME IInv, ExcusedIsFinal, LoneInv, [Next]_vars PROVE LoneInv'
  OBVIOUS
<1> TypeOK /\ CreatedFirst
  BY DEF IInv
<1>1. CASE UNCHANGED vars
  BY <1>1 DEF vars, LoneInv, Lone, LogFollows
<1>2. CASE Create
  <2>1. \A p \in Pipelines : pc[p] = "idle"
    BY <1>2 DEF Create, RefuseSession, InsertSession, SaveFirstLog, FailFirstLog, CreatedFirst, Handlers
  <2>2. pc' = pc
    BY <1>2 DEF Create, RefuseSession, InsertSession, SaveFirstLog, FailFirstLog
  <2>3. creator' = "done" => (creator = "done" /\ UNCHANGED <<log, session>>) \/ log'.state = session'.state
    BY <1>2 DEF Create, RefuseSession, InsertSession, SaveFirstLog, FailFirstLog, LoneInv
  <2>4. creator' = "logging" => session'.state = "preflight"
    BY <1>2 DEF Create, RefuseSession, InsertSession, SaveFirstLog, FailFirstLog
  <2>5. Lone' => Lone
    BY <1>2, <2>1, <2>2 DEF Create, RefuseSession, InsertSession, SaveFirstLog, FailFirstLog, Lone
  <2> QED BY <2>1, <2>2, <2>3, <2>4, <2>5 DEF LoneInv
<1>3. ASSUME NEW p \in Pipelines, Connect(p) \/ Serve(p) \/ FinishRun(p) \/ FailRun(p) \/ Close(p)
      PROVE  LoneInv'
  <2> p \in Handlers /\ (pc[p] # "idle" => creator = "done" /\ session \in Session /\ log \in Log)
    BY DEF Handlers, CreatedFirst
  <2> USE DEF TypeOK, LogAgrees, LogFollows, Apart, Go
  <2>1. CASE Connect(p)
    BY <2>1, LoneStep DEF Connect, Read, CreatedFirst
  <2>2. CASE TakeConfig(p)
    BY <2>2, LoneStep DEF TakeConfig, Forget
  <2>3. CASE RefuseConfig(p)
    BY <2>3, LoneStep DEF RefuseConfig, Forget
  <2>4. CASE ConsumeSession(p)
    BY <2>4, LoneStep DEF ConsumeSession, Session
  <2>5. CASE ConsumeReadLog(p)
    BY <2>5, LoneStep DEF ConsumeReadLog, ReadLog
  <2>6. CASE ConsumeWriteLog(p)
    BY <2>6, LoneStep DEF ConsumeWriteLog, Forget, Log
  <2>7. CASE SetupRead(p)
    BY <2>7, LoneStep DEF SetupRead, Read
  <2>8. CASE SetupWrite(p)
    BY <2>8, LoneStep DEF SetupWrite, Forget, Session
  <2>9. CASE Start(p)
    BY <2>9, LoneStep DEF Start
  <2>10. CASE AbortSetup(p)
    BY <2>10, LoneStep DEF AbortSetup, Forget, Starting
  <2>11. CASE FinishRun(p)
    BY <2>11, LoneStep DEF FinishRun, Decide, ExcusedIsFinal, Left
  <2>12. CASE FailRun(p)
    BY <2>12, LoneStep DEF FailRun, Decide, ExcusedIsFinal, Left
  <2>13. CASE CheckTransfer(p)
    BY <2>13, LoneStep DEF CheckTransfer, ExcusedIsFinal, Left
  <2>14. CASE EndSession(p)
    BY <2>14, LoneStep DEF EndSession, Session
  <2>15. CASE EndLog(p)
    BY <2>15, LoneStep DEF EndLog, Log
  <2>16. CASE FailEnd(p)
    <3>1. how[p] # "unended" /\ pc[p] \notin {"idle", "crashed"}
      BY <2>16 DEF FailEnd, ExcusedIsFinal, Left
    <3>2. \/ pc' = [pc EXCEPT ![p] = "end_session"]
          \/ pc' = [pc EXCEPT ![p] = "final_read"] /\ how'[p] = "unended"
      BY <2>16 DEF FailEnd, Decide
    <3>3. \A q \in Pipelines \ {p} : how'[q] = how[q]
      BY <2>16 DEF FailEnd, Decide
    <3> QED BY <2>16, <3>1, <3>2, <3>3, LoneStep DEF FailEnd
  <2>17. CASE FinalRead(p)
    BY <2>17, LoneStep DEF FinalRead, Fresh
  <2>18. CASE ArtifactsReadLog(p)
    BY <2>18, LoneStep DEF ArtifactsReadLog, ReadLog, Locals
  <2>19. CASE ArtifactsWriteLog(p)
    BY <2>19, LoneStep DEF ArtifactsWriteLog, Forget
  <2>20. CASE FailArtifacts(p)
    BY <2>20, LoneStep DEF FailArtifacts, Forget
  <2> QED BY <1>3, <2>1, <2>2, <2>3, <2>4, <2>5, <2>6, <2>7, <2>8, <2>9, <2>10, <2>11, <2>12, <2>13, <2>14, <2>15, <2>16, <2>17, <2>18, <2>19, <2>20 DEF Serve, Close
<1>4. ASSUME NEW c \in Callbacks, Callback(c) PROVE LoneInv'
  <2>1. pc'[c] # "idle"
    BY <1>4, HandlersAssumption DEF Callback, Deliver, StoreReport, StoreReportInLog, Go, TypeOK, Handlers
  <2>2. creator' = "done"
    BY <1>4 DEF Callback, Deliver, StoreReport, StoreReportInLog, Go, CreatedFirst, Handlers
  <2> QED BY <2>1, <2>2 DEF LoneInv, Lone
<1>5. CASE BeginTransfer \/ ClearTransfer
  <2>1. session \in Session
    <3>1. CASE BeginTransfer
      BY <3>1 DEF BeginTransfer, CreatedFirst, Handlers
    <3>2. CASE ClearTransfer
      BY <3>2 DEF ClearTransfer, NoSession, TypeOK
    <3> QED BY <1>5, <3>1, <3>2
  <2>2. UNCHANGED <<log, pc, mem, how, creator>> /\ session'.state = session.state
    BY <1>5, <2>1 DEF BeginTransfer, ClearTransfer, Session
  <2> QED BY <2>2 DEF LoneInv, Lone, LogFollows
<1>6. ASSUME NEW h \in Handlers, Crash(h) PROVE LoneInv'
  <2>1. pc'[h] = "crashed"
    BY <1>6 DEF Crash, TypeOK
  <2>2. creator' = "done"
    BY <1>6 DEF Crash, CreatedFirst, Rest
  <2>3. h \in Callbacks => pc'[h] # "idle"
    BY <2>1
  <2> QED BY <2>1, <2>2, <2>3 DEF LoneInv, Lone, Handlers
<1> QED BY <1>1, <1>2, <1>3, <1>4, <1>5, <1>6 DEF Next

\* session_manager.py and artifact_manager.py: a call served by one connection alone, with
\* no report and no failure between its writes, rests with a log that shows its state.
THEOREM LoneLogFollows == Spec => []LoneLogAgrees
<1>1. LoneInv => LoneLogAgrees
  BY DEF LoneInv, Lone, LoneLogAgrees, Resting, Rest, Handlers, LogFollows, Apart
<1>2. Init => LoneInv /\ ExcusedIsFinal
  BY DEF Init, LoneInv, ExcusedIsFinal, Handlers
<1>3. IInv => TypeOK
  BY DEF IInv
<1>4. Spec => [](LoneInv /\ ExcusedIsFinal)
  BY <1>2, <1>3, ExcusedInductive, LoneInductive, Always, PTL DEF Spec
<1> QED BY <1>1, <1>4, PTL
=============================================================================
