-------------------------- MODULE WarmTransfer_proofs --------------------------
(***************************************************************************)
(* What a warm transfer keeps however many pods there are.  The types hold  *)
(* whatever fails.  The other two need what their runs give them: the flag  *)
(* has an owner as long as neither the database nor the provider's dial      *)
(* fails and neither the tool nor pod Home is lost; the timer acts on a live *)
(* transfer as long as Home is the only pod.                                 *)
(***************************************************************************)
EXTENDS WarmTransfer, TLAPS

-----------------------------------------------------------------------------
(* Types.                                                                    *)

LEMMA MetaWritten ==
  ASSUME meta \in Meta, NEW m \in Meta, Write(m) PROVE meta' \in Meta
BY DEF Write

LEMMA SupervisorLeftType ==
  supervisor \in SupervisorOn \cup {"none", "unanswered", "left"}
    => SupervisorLeft \in SupervisorOn \cup {"none", "unanswered", "left"}
BY DEF SupervisorLeft, SupervisorOn

LEMMA Starts == Init => TypeOK
BY PodsAssumption DEF Init, TypeOK, Meta, Mem, Rest, Handlers, SupervisorOn

LEMMA ToolKeepsTypes == TypeOK /\ Tool => TypeOK'
<1> SUFFICES ASSUME TypeOK, Tool PROVE TypeOK'
  OBVIOUS
<1> USE DEF TypeOK, Meta, ToolRuns, GoTool, env, handlers
<1>1. CASE Begin \/ FailDial \/ CancelTool
  BY <1>1 DEF Begin, FailDial, CancelTool
<1>2. CASE SetFlag
  BY <1>2 DEF SetFlag, Write
<1>3. CASE Hold
  BY <1>3 DEF Hold
<1>4. CASE Dial
  BY <1>4 DEF Dial, SupervisorOn
<1>5. CASE StoreSupervisor
  BY <1>5, ZenonT(60) DEF StoreSupervisor
<1>6. CASE StoreDeadline
  BY <1>6 DEF StoreDeadline, Write
<1>7. CASE StartTimer
  BY <1>7 DEF StartTimer, TimerRuns
<1> QED BY <1>1, <1>2, <1>3, <1>4, <1>5, <1>6, <1>7 DEF Tool

LEMMA TimerKeepsTypes == TypeOK /\ Timer => TypeOK'
<1> SUFFICES ASSUME TypeOK, Timer PROVE TypeOK'
  OBVIOUS
<1> USE DEF TypeOK, TimerRuns, env, handlers
<1>1. CASE Fire
  BY <1>1 DEF Fire
<1>2. CASE CutSupervisor
  BY <1>2, SupervisorLeftType DEF CutSupervisor, CutSupervisorLeg
<1>3. CASE CutCustomer
  BY <1>3 DEF CutCustomer, HangUpTransfer, SupervisorOn
<1>4. CASE ClearTimer
  <2>1. meta' \in Meta
    BY <1>4, MetaWritten DEF ClearTimer, Meta
  <2> QED BY <1>4, <2>1 DEF ClearTimer
<1> QED BY <1>1, <1>2, <1>3, <1>4 DEF Timer

LEMMA JoinKeepsTypes == TypeOK /\ Join => TypeOK'
<1> SUFFICES ASSUME TypeOK, Join PROVE TypeOK'
  OBVIOUS
<1> USE DEF TypeOK, Handlers, Go, Rest, Cleaning, env
<1>1. CASE RefuseJoin
  BY <1>1, SupervisorLeftType DEF RefuseJoin
<1>2. CASE Redirect
  BY <1>2 DEF Redirect
<1>7. CASE FailRedirect
  BY <1>7 DEF FailRedirect
<1>3. CASE Respond
  BY <1>3 DEF Respond, SupervisorOn
<1>4. CASE Cancel("join")
  BY <1>4 DEF Cancel
<1>5. CASE Mark("join")
  <2>1. meta' \in Meta
    BY <1>5, MetaWritten DEF Mark, Meta
  <2> QED BY <1>5, <2>1 DEF Mark
<1>6. CASE ClearJoin
  <2>1. meta' \in Meta
    BY <1>6, MetaWritten DEF ClearJoin, Meta
  <2> QED BY <1>6, <2>1 DEF ClearJoin
<1> QED BY <1>1, <1>2, <1>3, <1>4, <1>5, <1>6, <1>7 DEF Join

LEMMA HangupKeepsTypes == ASSUME TypeOK, NEW h \in Hangups, Hangup(h) PROVE TypeOK'
<1> USE DEF TypeOK, Handlers, Hangups, Go, Rest, Cleaning, env
<1>1. CASE Cancel(h)
  BY <1>1 DEF Cancel
<1>2. CASE Mark(h)
  <2>1. meta' \in Meta
    BY <1>2, MetaWritten DEF Mark, Meta
  <2> QED BY <1>2, <2>1 DEF Mark
<1>3. CASE Notify(h)
  BY <1>3, SupervisorLeftType DEF Notify, CutSupervisorLeg, HangUpTransfer, SupervisorOn
<1>4. CASE ClearHangup(h)
  <2>1. meta' \in Meta
    BY <1>4, MetaWritten DEF ClearHangup, Meta
  <2> QED BY <1>4, <2>1 DEF ClearHangup
<1>5. CASE Report(h)
  BY <1>5 DEF Report
<1> QED BY <1>1, <1>2, <1>3, <1>4, <1>5 DEF Hangup

LEMMA DeliverKeepsTypes ==
  ASSUME TypeOK, NEW h \in Hangups, NEW d \in Pods, Deliver(h, d) PROVE TypeOK'
<1> USE DEF TypeOK, Handlers, Hangups, Rest, Cleaning, env
<1>1. PICK blank \in BOOLEAN :
        /\ Go(h, "idle", IF Leg(h, blank) = "none" THEN "report" ELSE "cancel")
        /\ mem' = [mem EXCEPT ![h] = [leg |-> Leg(h, blank), state |-> state]]
  BY DEF Deliver
<1>2. [leg |-> Leg(h, blank), state |-> state] \in Mem
  BY DEF Leg, Mem
<1>3. mem' \in [Handlers -> Mem]
  BY <1>1, <1>2
<1>4. pc' \in [Handlers -> Rest \cup Cleaning \cup {"redirect", "respond", "respond_clean", "report"}]
  BY <1>1 DEF Go
<1> QED BY <1>3, <1>4 DEF Deliver

LEMMA KeepsTypes == TypeOK /\ [Next]_vars => TypeOK'
<1> SUFFICES ASSUME TypeOK, [Next]_vars PROVE TypeOK'
  OBVIOUS
<1>1. CASE Tool \/ Timer \/ Join
  BY <1>1, ToolKeepsTypes, TimerKeepsTypes, JoinKeepsTypes
<1>2. ASSUME NEW d \in Pods, Answer(d) PROVE TypeOK'
  BY <1>2 DEF Answer, Go, TypeOK, Handlers, SupervisorOn
<1>3. ASSUME NEW h \in Hangups, Hangup(h) \/ \E d \in Pods : Deliver(h, d) PROVE TypeOK'
  BY <1>3, HangupKeepsTypes, DeliverKeepsTypes
<1>4. CASE CustomerHangsUp
  BY <1>4 DEF CustomerHangsUp, TypeOK, handlers
<1>5. CASE SupervisorHangsUp
  BY <1>5, SupervisorLeftType DEF SupervisorHangsUp, TypeOK, handlers
<1>6. CASE PipelineEnds
  BY <1>6 DEF PipelineEnds, TypeOK, handlers
<1>7. CASE Crash
  BY <1>7 DEF Crash, TypeOK, Rest
<1>8. CASE UNCHANGED vars
  BY <1>8 DEF vars, env, handlers, TypeOK
<1> QED BY <1>1, <1>2, <1>3, <1>4, <1>5, <1>6, <1>7, <1>8 DEF Next

\* Whatever fails and however many pods there are, the shared fields, the legs and
\* what each handler remembers keep their types.
THEOREM TransferTypeCorrect == Spec => []TypeOK
BY Starts, KeepsTypes, PTL DEF Spec

-----------------------------------------------------------------------------
(* The flag.                                                                 *)

Cleaner == \E h \in Handlers : pc[h] \in Cleaning

\* The timer is started at the tool's end, once; when it is about to be, either the
\* deadline is stored or a handler that took it away is on its way to clear the flag.
DeadlineOrCleaner ==
  /\ timer # "none" => tool \in {"done", "lost"}
  /\ tool = "start" /\ meta.active => meta.deadline \/ Cleaner

FlagInv == FlagHasOwner /\ DeadlineOrCleaner

LEMMA FlagStarts == Init => FlagInv
BY DEF Init, FlagInv, FlagHasOwner, DeadlineOrCleaner, ToolRuns

\* A step of the tool or of the timer leaves the handlers where they are.
LEMMA FlagTool ==
  ASSUME TypeOK, FlagInv, Tool, {"dial", "database", "cancel_tool"} \cap Failures = {}
  PROVE  FlagInv'
<1> USE DEF TypeOK, Meta, FlagInv, FlagHasOwner, DeadlineOrCleaner, Cleaner, ToolRuns, TimerRuns, GoTool,
            handlers
<1>1. CASE Begin
  BY <1>1 DEF Begin
<1>2. CASE SetFlag
  BY <1>2 DEF SetFlag
<1>3. CASE Hold \/ Dial
  BY <1>3 DEF Hold, Dial
<1>4. CASE StoreSupervisor
  BY <1>4 DEF StoreSupervisor
<1>5. CASE StoreDeadline
  BY <1>5 DEF StoreDeadline, Write
<1>6. CASE StartTimer
  BY <1>6 DEF StartTimer
<1>7. ~FailDial /\ ~CancelTool
  BY DEF FailDial, CancelTool
<1> QED BY <1>1, <1>2, <1>3, <1>4, <1>5, <1>6, <1>7 DEF Tool

LEMMA FlagTimer ==
  ASSUME TypeOK, FlagInv, Timer, "database" \notin Failures
  PROVE  FlagInv'
<1> USE DEF TypeOK, FlagInv, FlagHasOwner, DeadlineOrCleaner, Cleaner, ToolRuns, TimerRuns, handlers
<1>1. CASE Fire
  BY <1>1 DEF Fire
<1>2. CASE CutSupervisor \/ CutCustomer
  BY <1>2 DEF CutSupervisor, CutCustomer
<1>3. CASE ClearTimer
  BY <1>3 DEF ClearTimer, Write
<1> QED BY <1>1, <1>2, <1>3 DEF Timer

\* A handler that begins or goes on with its clean-up is an owner of the flag.
LEMMA CleanerIsOwner ==
  ASSUME TypeOK, FlagInv, UNCHANGED tool, NEW h \in Handlers, pc'[h] \in Cleaning,
         timer = "none" => timer' = "none"
  PROVE  FlagInv'
BY DEF FlagInv, FlagHasOwner, DeadlineOrCleaner, Cleaner

\* A step that leaves flag, deadline, tool and timer, and every clean-up where it is.
LEMMA FlagUntouched ==
  ASSUME FlagInv, UNCHANGED <<tool, timer>>,
         meta'.active => meta.active /\ meta' = meta,
         \A h \in Handlers : pc[h] \in Cleaning => pc'[h] \in Cleaning
  PROVE  FlagInv'
<1>1. Cleaner => Cleaner'
  BY DEF Cleaner
<1>2. CASE meta' = meta
  <2>1. FlagHasOwner'
    BY <1>1, <1>2 DEF FlagInv, FlagHasOwner, Cleaner
  <2> QED BY <1>1, <1>2, <2>1 DEF FlagInv, DeadlineOrCleaner
<1>3. CASE ~meta'.active
  BY <1>3 DEF FlagInv, FlagHasOwner, DeadlineOrCleaner
<1> QED BY <1>2, <1>3

LEMMA FlagHandler ==
  ASSUME TypeOK, FlagInv, "database" \notin Failures,
         Join \/ \E h \in Hangups : Hangup(h)
  PROVE  FlagInv'
<1> USE DEF Handlers, Hangups, Cleaning, Go
<1>1. ASSUME NEW h \in Handlers, Cancel(h) \/ Mark(h) \/ Notify(h) PROVE FlagInv'
  <2>1. pc'[h] \in Cleaning /\ tool' = tool
    BY <1>1 DEF Cancel, Mark, Notify, TypeOK
  <2>2. timer = "none" => timer' = "none"
    BY <1>1 DEF Cancel, Mark, Notify, TimerRuns
  <2> QED BY <2>1, <2>2, CleanerIsOwner
<1>2. ASSUME ClearJoin \/ \E h \in Hangups : ClearHangup(h) PROVE FlagInv'
  <2>1. ~meta'.active /\ UNCHANGED <<tool, timer>>
    BY <1>2 DEF ClearJoin, ClearHangup, Write, TypeOK, Meta
  <2> QED BY <2>1 DEF FlagInv, FlagHasOwner, DeadlineOrCleaner
<1>3. ASSUME RefuseJoin \/ Redirect \/ FailRedirect \/ Respond \/ \E h \in Hangups : Report(h)
      PROVE  FlagInv'
  <2>1. UNCHANGED <<tool, timer, meta>>
    BY <1>3 DEF RefuseJoin, Redirect, FailRedirect, Respond, Report, env
  <2>2. \A h \in Handlers : pc[h] \in Cleaning => pc'[h] \in Cleaning
    BY <1>3 DEF RefuseJoin, Redirect, FailRedirect, Respond, Report, TypeOK
  <2> QED BY <2>1, <2>2, FlagUntouched
<1> QED BY <1>1, <1>2, <1>3 DEF Join, Hangup

LEMMA FlagStep ==
  ASSUME {"dial", "database", "cancel_tool", "crash"} \cap Failures = {}
  PROVE  TypeOK /\ FlagInv /\ [Next]_vars => FlagInv'
<1> SUFFICES ASSUME TypeOK, FlagInv, [Next]_vars PROVE FlagInv'
  OBVIOUS
<1>1. CASE Tool \/ Timer
  BY <1>1, FlagTool, FlagTimer
<1>2. CASE Join \/ \E h \in Hangups : Hangup(h)
  BY <1>2, FlagHandler
<1>3. CASE \E d \in Pods : Answer(d) \/ \E h \in Hangups : Deliver(h, d)
  <2>1. UNCHANGED <<tool, timer, meta>>
    BY <1>3 DEF Answer, Deliver, env
  <2>2. \A h \in Handlers : pc[h] \in Cleaning => pc'[h] \in Cleaning
    BY <1>3 DEF Answer, Deliver, Go, TypeOK, Cleaning, Handlers, Hangups
  <2> QED BY <2>1, <2>2, FlagUntouched
<1>4. CASE CustomerHangsUp \/ SupervisorHangsUp \/ PipelineEnds \/ UNCHANGED vars
  BY <1>4, FlagUntouched DEF CustomerHangsUp, SupervisorHangsUp, PipelineEnds, handlers, vars, env
<1>5. ~Crash
  BY DEF Crash
<1> QED BY <1>1, <1>2, <1>3, <1>4, <1>5 DEF Next

\* warm_transfer_tool.py, warm_transfer_service.py, plivo_api.py: whichever pods serve
\* the answer and the hangups, whatever the provider's callbacks lack, however late the
\* tool's writes are, and also when the customer cannot be moved, somebody is on his way
\* to clear a flag that is set.
THEOREM FlagIsOwned ==
  ASSUME {"dial", "database", "cancel_tool", "crash"} \cap Failures = {}
  PROVE  Spec => []FlagHasOwner
<1>1. FlagInv => FlagHasOwner
  BY DEF FlagInv
<1>2. Init => FlagInv
  BY FlagStarts
<1>3. TypeOK /\ FlagInv /\ [Next]_vars => FlagInv'
  BY FlagStep
<1> QED BY <1>1, <1>2, <1>3, TransferTypeCorrect, PTL DEF Spec

-----------------------------------------------------------------------------
(* The timer.                                                                *)

\* A handler that is past its cancellation while the timer runs was in progress when the
\* timer was started; by the time the timer acts all of these are over.
PastCancel == {"mark", "notify", "clear"}

TimerInv ==
  /\ timer \in TimerRuns => \A h \in Handlers : pc[h] \in PastCancel => h \in early
  /\ \A h \in early : pc[h] # "idle"
  /\ timer \in {"cut_supervisor", "cut_customer"} =>
       meta.active /\ \A h \in early : pc[h] \in Rest

LEMMA TimerStarts == Init => TimerInv
BY DEF Init, TimerInv, TimerRuns

\* A handler moves on.
LEMMA TimerHandler ==
  ASSUME TypeOK, TimerInv, NEW h \in Handlers, UNCHANGED early,
         timer' # timer => timer' = "over",
         pc' = [pc EXCEPT ![h] = pc'[h]],
         pc'[h] # "idle",
         h \in early => pc[h] \notin Rest \/ pc'[h] \in Rest,
         pc'[h] \in PastCancel => pc[h] \in PastCancel \/ timer' \notin TimerRuns,
         meta.active /\ ~meta'.active => pc[h] \in PastCancel
  PROVE  TimerInv'
<1> USE DEF TypeOK, TimerInv, TimerRuns
<1>1. timer' \in TimerRuns => timer' = timer
  OBVIOUS
<1>2. timer' \in TimerRuns => \A g \in Handlers : pc'[g] \in PastCancel => g \in early'
  BY <1>1
<1>3. \A g \in early' : pc'[g] # "idle"
  OBVIOUS
<1>4. ASSUME timer' \in {"cut_supervisor", "cut_customer"}
      PROVE  meta'.active /\ \A g \in early' : pc'[g] \in Rest
  <2>1. timer' = timer /\ pc[h] \notin PastCancel
    BY <1>1, <1>4 DEF PastCancel, Rest
  <2> QED BY <1>4, <2>1 DEF Rest
<1> QED BY <1>2, <1>3, <1>4

LEMMA TimerStep ==
  ASSUME Pods = {Home}
  PROVE  TypeOK /\ TimerInv /\ [Next]_vars => TimerInv'
<1> SUFFICES ASSUME TypeOK, TimerInv, [Next]_vars PROVE TimerInv'
  OBVIOUS
<1>1. CASE Tool
  <2>1. UNCHANGED handlers /\ (meta.active => meta'.active)
    BY <1>1 DEF Tool, Begin, SetFlag, Hold, Dial, FailDial, StoreSupervisor, StoreDeadline, StartTimer,
                CancelTool, Write, TypeOK, Meta
  <2>2. CASE StartTimer
    BY <2>1, <2>2 DEF StartTimer, handlers, TimerInv, TimerRuns, PastCancel, Rest
  <2>3. CASE ~StartTimer
    <3>1. UNCHANGED <<timer, early>>
      BY <1>1, <2>3 DEF Tool, Begin, SetFlag, Hold, Dial, FailDial, StoreSupervisor, StoreDeadline, CancelTool
    <3> QED BY <2>1, <3>1 DEF TimerInv, handlers
  <2> QED BY <2>2, <2>3
<1>2. CASE Timer
  <2> USE DEF TimerInv, TimerRuns, handlers, env
  <2>1. CASE Fire
    BY <2>1 DEF Fire
  <2>2. CASE CutSupervisor \/ CutCustomer \/ ClearTimer
    BY <2>2 DEF CutSupervisor, CutCustomer, ClearTimer
  <2> QED BY <1>2, <2>1, <2>2 DEF Timer
<1>3. ASSUME NEW h \in Handlers, Cancel(h) \/ Mark(h) \/ Notify(h) \/ ClearHangup(h) \/ Report(h)
      PROVE  TimerInv'
  <2> USE DEF Go, Rest, PastCancel
  <2>1. CASE Cancel(h)
    <3>1. pod[h] = Home /\ timer' \notin TimerRuns
      BY <2>1 DEF Cancel, TypeOK, TimerRuns
    <3>2. pc[h] = "cancel" /\ pc'[h] = "mark"
      BY <2>1 DEF Cancel, TypeOK
    <3> QED BY <2>1, <3>1, <3>2, TimerHandler DEF Cancel
  <2>2. CASE Mark(h) \/ Notify(h)
    <3>1. pc[h] \in PastCancel /\ pc'[h] \in PastCancel /\ pc' = [pc EXCEPT ![h] = pc'[h]]
      BY <2>2 DEF Mark, Notify, TypeOK
    <3>2. UNCHANGED <<timer, early>>
      BY <2>2 DEF Mark, Notify
    <3> QED BY <3>1, <3>2, TimerHandler
  <2>3. CASE ClearHangup(h)
    <3>1. pc[h] \in PastCancel /\ pc'[h] = "report" /\ pc' = [pc EXCEPT ![h] = pc'[h]]
      BY <2>3 DEF ClearHangup, TypeOK
    <3>2. UNCHANGED <<timer, early>>
      BY <2>3 DEF ClearHangup
    <3> QED BY <3>1, <3>2, TimerHandler
  <2>4. CASE Report(h)
    <3>1. pc[h] \notin Rest /\ pc'[h] = "done" /\ pc' = [pc EXCEPT ![h] = pc'[h]]
      BY <2>4 DEF Report, TypeOK
    <3>2. UNCHANGED <<timer, early, meta>>
      BY <2>4 DEF Report
    <3> QED BY <3>1, <3>2, TimerHandler
  <2> QED BY <1>3, <2>1, <2>2, <2>3, <2>4
<1>4. CASE Join
  <2> "join" \in Handlers
    BY DEF Handlers
  <2> USE DEF Go, Rest, PastCancel
  <2>1. CASE Cancel("join") \/ Mark("join")
    BY <1>3, <2>1
  <2>2. CASE ClearJoin
    <3>1. pc["join"] \in PastCancel /\ pc'["join"] = "done" /\ pc' = [pc EXCEPT !["join"] = pc'["join"]]
      BY <2>2 DEF ClearJoin, TypeOK
    <3>2. UNCHANGED <<timer, early>>
      BY <2>2 DEF ClearJoin
    <3> QED BY <3>1, <3>2, TimerHandler
  <2>3. CASE RefuseJoin \/ Redirect \/ FailRedirect \/ Respond
    <3>1. /\ pc["join"] \notin Rest /\ pc'["join"] \in {"done", "respond", "respond_clean", "cancel"}
          /\ pc' = [pc EXCEPT !["join"] = pc'["join"]]
      BY <2>3 DEF RefuseJoin, Redirect, FailRedirect, Respond, TypeOK
    <3>2. UNCHANGED <<timer, early, meta>>
      BY <2>3 DEF RefuseJoin, Redirect, FailRedirect, Respond, env
    <3> QED BY <3>1, <3>2, TimerHandler
  <2> QED BY <1>4, <2>1, <2>2, <2>3 DEF Join
<1>7. ASSUME NEW h \in Handlers, NEW to \in {"redirect", "report", "cancel"},
             Go(h, "idle", to), UNCHANGED <<timer, early, meta>>
      PROVE  TimerInv'
  <2>1. pc[h] = "idle" /\ pc'[h] = to /\ pc' = [pc EXCEPT ![h] = pc'[h]] /\ h \notin early
    BY <1>7 DEF Go, TypeOK, TimerInv
  <2> QED BY <1>7, <2>1, TimerHandler DEF PastCancel
<1>8. CASE \E d \in Pods : Answer(d)
  BY <1>7, <1>8 DEF Answer, Handlers
<1>9. CASE \E h \in Hangups, d \in Pods : Deliver(h, d)
  BY <1>7, <1>9 DEF Deliver, Hangups, Handlers
<1>10. CASE \E h \in Hangups : Hangup(h)
  BY <1>3, <1>10 DEF Hangup, Hangups, Handlers
<1>5. CASE CustomerHangsUp \/ SupervisorHangsUp \/ PipelineEnds \/ UNCHANGED vars
  BY <1>5 DEF CustomerHangsUp, SupervisorHangsUp, PipelineEnds, handlers, vars, TimerInv
<1>6. CASE Crash
  BY <1>6 DEF Crash, TypeOK, TimerInv, TimerRuns, Rest
<1> QED BY <1>1, <1>2, <1>4, <1>5, <1>6, <1>8, <1>9, <1>10 DEF Next

\* warm_transfer_service.py: where every handler finds the timer in its own registry, the
\* timer hangs up nobody for a transfer that was finished, whatever else fails.
THEOREM TimeoutSparesFinished ==
  ASSUME Pods = {Home}
  PROVE  Spec => TimeoutActsOnLiveTransfer
<1>1. TimerInv => (TimerCuts => meta.active)
  BY DEF TimerInv, TimerCuts
<1>2. Init => TimerInv
  BY TimerStarts
<1>3. TypeOK /\ TimerInv /\ [Next]_vars => TimerInv'
  BY TimerStep
<1> QED BY <1>1, <1>2, <1>3, TransferTypeCorrect, PTL DEF Spec, TimeoutActsOnLiveTransfer
=============================================================================
